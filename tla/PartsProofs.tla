----------------------------- MODULE PartsProofs -----------------------------
(***************************************************************************)
(* Theorems about parts that share no state: Attachments, SavedSessions,   *)
(* TurnTracker, OneShot and Interactions.                                  *)
(***************************************************************************)
EXTENDS Attachments, SavedSessions, TurnTracker, OneShot, Interactions, FiniteSetTheorems, SequenceTheorems,
        TLAPS

-----------------------------------------------------------------------------
(* Attachments *)

IsPrefixOf(s, t) == Len(s) <= Len(t) /\ \A i \in 1..Len(s) : s[i] = t[i]

BlocksOK ==
  /\ path \in Inodes \cup {0} /\ handle \in Inodes \cup {0}
  /\ content \in [Inodes -> Seq(Nat)]
  /\ mtime \in [Inodes -> Nat] /\ clock \in Nat /\ writes \in Nat
  /\ step \in Reading \cup {"returned", "raised"}
  /\ data \in Seq(Nat)
  /\ stat \in [ino : Inodes \cup {0}, size : Nat, mtime : Nat]
  /\ untold \in BOOLEAN

\* Time goes on, and the file that is open has been looked at.
ClockInv ==
  /\ \A i \in Inodes : mtime[i] <= clock
  /\ handle # 0 => content[handle] \in contents
  /\ step \in {"fstat", "read", "fstat_again"} => handle # 0
  /\ step \in {"stat", "open", "fstat"} => data = <<>>

\* As long as the time of its last change is the one noted, nothing has changed the file.
SnapshotInv ==
  step \in {"read", "fstat_again"} =>
    /\ stat.ino = handle
    /\ ~untold => /\ stat.mtime <= mtime[handle]
                  /\ mtime[handle] = stat.mtime => IsPrefixOf(data, content[handle])

AttachmentInv == BlocksOK /\ ClockInv /\ SnapshotInv /\ ReadIsSnapshot

LEMMA LimitFacts == Limit \in Nat
BY AttachmentAssumption DEF Limit

LEMMA StatOfFacts ==
  ASSUME BlocksOK, NEW i \in Inodes
  PROVE  /\ StatOf(i) \in [ino : Inodes \cup {0}, size : Nat, mtime : Nat]
         /\ StatOf(i).ino = i /\ StatOf(i).mtime = mtime[i]
<1>1. Len(content[i]) \in Nat /\ mtime[i] \in Nat
  BY DEF BlocksOK
<1> QED BY <1>1 DEF StatOf

\* What a write does to the file and to what is said of it.
LEMMA WriteFacts ==
  ASSUME BlocksOK, Write
  PROVE  \E i \in Inodes :
           /\ content'[i] \in Seq(Nat) /\ content' \in [Inodes -> Seq(Nat)]
           /\ mtime' \in [Inodes -> Nat] /\ mtime'[i] = clock
           /\ \A j \in Inodes : j # i => content'[j] = content[j] /\ mtime'[j] = mtime[j]
           /\ contents' = IF handle = i THEN contents \cup {content'[i]} ELSE contents
           /\ untold' \in BOOLEAN
           /\ (untold' <=> untold \/ (stat.ino = i /\ mtime[i] = clock))
           /\ UNCHANGED <<path, clock, step, stat, handle, data>> /\ writes' \in Nat
<1>1. UNCHANGED <<path, clock, step, stat, handle, data>> /\ writes' \in Nat
  BY DEF Write, BlocksOK, readerVars
<1>2. ASSUME NEW i \in Inodes, NEW blocks \in Seq(Nat), Written(i, blocks)
      PROVE  /\ content'[i] = blocks /\ content' \in [Inodes -> Seq(Nat)]
             /\ mtime' \in [Inodes -> Nat] /\ mtime'[i] = clock
             /\ \A j \in Inodes : j # i => content'[j] = content[j] /\ mtime'[j] = mtime[j]
             /\ contents' = IF handle = i THEN contents \cup {content'[i]} ELSE contents
             /\ untold' \in BOOLEAN
             /\ (untold' <=> untold \/ (stat.ino = i /\ mtime[i] = clock))
  <2>1. /\ content'[i] = blocks /\ content' \in [Inodes -> Seq(Nat)]
        /\ mtime' \in [Inodes -> Nat] /\ mtime'[i] = clock
        /\ \A j \in Inodes : j # i => content'[j] = content[j] /\ mtime'[j] = mtime[j]
    BY <1>2 DEF Written, BlocksOK
  <2>2. untold' = (untold \/ (stat.ino = i /\ mtime[i] = clock))
    BY <1>2 DEF Written
  <2>3. contents' = IF handle = i THEN contents \cup {content'[i]} ELSE contents
    BY <1>2, <2>1 DEF Written
  <2> QED BY <2>1, <2>2, <2>3
<1>3. \E i \in Inodes, blocks \in Seq(Nat) : Written(i, blocks)
  <2>1. ASSUME NEW i \in Inodes
        PROVE  /\ \A b \in 1..Len(content[i]) : [content[i] EXCEPT ![b] = writes'] \in Seq(Nat)
               /\ Append(content[i], writes') \in Seq(Nat) /\ <<>> \in Seq(Nat)
    BY <1>1 DEF BlocksOK
  <2> QED BY <2>1 DEF Write
<1> QED BY <1>1, <1>2, <1>3

LEMMA AttachmentStep == AttachmentInv /\ [AttachmentNext]_attachmentVars => AttachmentInv'
<1> SUFFICES ASSUME AttachmentInv, [AttachmentNext]_attachmentVars PROVE AttachmentInv'
  OBVIOUS
<1>0. BlocksOK /\ ClockInv /\ SnapshotInv /\ ReadIsSnapshot
  BY DEF AttachmentInv
<1> USE DEF attachmentVars, fileVars, readerVars
<1>1. CASE Stat
  <2>1. /\ UNCHANGED <<path, content, mtime, clock, writes, handle, data, contents, untold>>
        /\ step = "stat" /\ step' \in {"raised", "open"}
    BY <1>1 DEF Stat, Raises, Proceeds
  <2>2. stat' \in [ino : Inodes \cup {0}, size : Nat, mtime : Nat]
    <3>1. stat' = stat \/ (path \in Inodes /\ stat' = StatOf(path))
      BY <1>0, <1>1 DEF Stat, BlocksOK
    <3> QED BY <1>0, <3>1, StatOfFacts DEF BlocksOK
  <2> QED BY <1>0, <2>1, <2>2 DEF AttachmentInv, BlocksOK, ClockInv, SnapshotInv, ReadIsSnapshot, Reading
<1>2. CASE Open
  <2>1. /\ UNCHANGED <<path, content, mtime, clock, writes, stat, data, untold>> /\ step = "open"
        /\ \/ step' = "raised" /\ UNCHANGED <<handle, contents>>
           \/ path \in Inodes /\ step' = "fstat" /\ handle' = path /\ contents' = {content[path]}
    BY <1>0, <1>2 DEF Open, Raises, Proceeds, BlocksOK
  <2>2. BlocksOK'
    BY <1>0, <2>1 DEF BlocksOK, Reading
  <2>3. ClockInv'
    BY <1>0, <2>1 DEF BlocksOK, ClockInv, Inodes
  <2> QED BY <2>1, <2>2, <2>3 DEF AttachmentInv, SnapshotInv, ReadIsSnapshot
<1>3. CASE StatOpened
  <2>1. /\ UNCHANGED <<path, content, mtime, clock, writes, stat, handle, data, contents, untold>>
        /\ step = "fstat" /\ (step' = "raised" \/ (StatOf(handle) = stat /\ step' = "read"))
    BY <1>3 DEF StatOpened, Raises, Proceeds
  <2>2. BlocksOK' /\ ClockInv' /\ ReadIsSnapshot'
    BY <1>0, <2>1 DEF BlocksOK, ClockInv, ReadIsSnapshot, Reading
  <2>3. SnapshotInv'
    <3>1. handle \in Inodes /\ data = <<>> /\ mtime[handle] \in Nat /\ content[handle] \in Seq(Nat)
      BY <1>0, <2>1 DEF ClockInv, BlocksOK
    <3>2. IsPrefixOf(data, content[handle])
      BY <3>1 DEF IsPrefixOf
    <3> QED BY <1>0, <2>1, <3>1, <3>2, StatOfFacts DEF SnapshotInv
  <2> QED BY <2>2, <2>3 DEF AttachmentInv
<1>4. CASE ReadBlock
  <2>1. /\ UNCHANGED <<path, content, mtime, clock, writes, stat, handle, contents, untold>>
        /\ step = "read" /\ handle \in Inodes /\ content[handle] \in Seq(Nat)
        /\ \/ /\ Len(data) < Len(content[handle]) /\ step' = step
              /\ data' = Append(data, content[handle][Len(data) + 1])
           \/ step' = "fstat_again" /\ data' = data
    BY <1>0, <1>4 DEF ReadBlock, Proceeds, ClockInv, BlocksOK
  <2>2. /\ data \in Seq(Nat) /\ data' \in Seq(Nat)
        /\ Len(data) < Len(content[handle]) => content[handle][Len(data) + 1] \in Nat
    <3>1. data \in Seq(Nat)
      BY <1>0 DEF BlocksOK
    <3>2. Len(data) < Len(content[handle]) => content[handle][Len(data) + 1] \in Nat
      BY <2>1, <3>1
    <3>3. CASE data' = data
      BY <3>1, <3>2, <3>3
    <3>4. CASE /\ Len(data) < Len(content[handle])
               /\ data' = Append(data, content[handle][Len(data) + 1])
      <4>1. content[handle][Len(data) + 1] \in Nat
        BY <3>2, <3>4
      <4>2. \A e \in Nat : Append(data, e) \in Seq(Nat)
        BY <3>1
      <4>3. data' \in Seq(Nat)
        BY <3>4, <4>1, <4>2
      <4> QED BY <3>1, <3>2, <4>3
    <3> QED BY <2>1, <3>3, <3>4
  <2>3. BlocksOK' /\ ClockInv' /\ ReadIsSnapshot'
    BY <1>0, <2>1, <2>2 DEF BlocksOK, ClockInv, ReadIsSnapshot, Reading
  <2>4. IsPrefixOf(data, content[handle]) => IsPrefixOf(data', content[handle])
    <3>1. CASE data' = data
      BY <3>1
    <3>2. CASE /\ Len(data) < Len(content[handle])
               /\ data' = Append(data, content[handle][Len(data) + 1])
      <4>1. /\ Len(data') = Len(data) + 1 /\ data'[Len(data) + 1] = content[handle][Len(data) + 1]
            /\ \A i \in 1..Len(data) : data'[i] = data[i]
        BY <2>2, <3>2
      <4>2. Len(data) \in Nat /\ Len(content[handle]) \in Nat
        BY <2>1, <2>2
      <4> QED BY <3>2, <4>1, <4>2 DEF IsPrefixOf
    <3> QED BY <2>1, <3>1, <3>2
  <2> QED BY <1>0, <2>1, <2>3, <2>4 DEF AttachmentInv, SnapshotInv
<1>5. CASE StatAgain
  <2>1. /\ UNCHANGED <<path, content, mtime, clock, writes, stat, handle, data, contents, untold>>
        /\ step = "fstat_again" /\ handle \in Inodes
        /\ \/ step' = "raised"
           \/ /\ step' = "returned" /\ ~(Len(data) > Limit) /\ Len(data) = Len(content[handle])
              /\ StatOf(handle) = stat
    BY <1>0, <1>5 DEF StatAgain, Raises, Proceeds, ClockInv, BlocksOK
  <2>2. BlocksOK' /\ ClockInv' /\ SnapshotInv'
    BY <1>0, <2>1 DEF BlocksOK, ClockInv, SnapshotInv, Reading
  <2>3. ASSUME step' = "returned", ~untold PROVE data \in contents /\ Len(data) <= Limit
    <3>1. IsPrefixOf(data, content[handle]) /\ content[handle] \in contents
      BY <1>0, <2>1, <2>3, StatOfFacts DEF SnapshotInv, ClockInv
    <3>2. data = content[handle]
      BY <1>0, <2>1, <2>3, <3>1 DEF IsPrefixOf, BlocksOK
    <3> QED BY <1>0, <2>1, <2>3, <3>1, <3>2, LimitFacts DEF BlocksOK
  <2> QED BY <2>1, <2>2, <2>3 DEF AttachmentInv, ReadIsSnapshot
<1>6. CASE Write
  <2>1. PICK i \in Inodes :
           /\ content'[i] \in Seq(Nat) /\ content' \in [Inodes -> Seq(Nat)]
           /\ mtime' \in [Inodes -> Nat] /\ mtime'[i] = clock
           /\ \A j \in Inodes : j # i => content'[j] = content[j] /\ mtime'[j] = mtime[j]
           /\ contents' = IF handle = i THEN contents \cup {content'[i]} ELSE contents
           /\ untold' \in BOOLEAN
           /\ (untold' <=> untold \/ (stat.ino = i /\ mtime[i] = clock))
           /\ UNCHANGED <<path, clock, step, stat, handle, data>> /\ writes' \in Nat
    BY <1>0, <1>6, WriteFacts
  <2>2. BlocksOK'
    BY <1>0, <2>1 DEF BlocksOK
  <2>3. ClockInv'
    <3>0. clock \in Nat /\ \A j \in Inodes : mtime[j] <= clock
      BY <1>0 DEF BlocksOK, ClockInv
    <3>1. ASSUME NEW j \in Inodes PROVE mtime'[j] <= clock
      <4>1. CASE j = i
        BY <2>1, <3>0, <4>1
      <4>2. CASE j # i
        BY <2>1, <3>0, <4>2
      <4> QED BY <4>1, <4>2
    <3>2. ASSUME handle # 0 PROVE content'[handle] \in contents'
      <4>1. handle \in Inodes /\ content[handle] \in contents
        BY <1>0, <3>2 DEF BlocksOK, ClockInv
      <4>2. CASE handle = i
        BY <2>1, <4>2
      <4>3. CASE handle # i
        BY <2>1, <4>1, <4>3
      <4> QED BY <4>2, <4>3
    <3> QED BY <1>0, <2>1, <3>1, <3>2 DEF ClockInv
  <2>4. SnapshotInv'
    <3>1. ASSUME step \in {"read", "fstat_again"}, ~untold', handle = i
          PROVE  stat.mtime <= mtime'[handle] /\ mtime'[handle] # stat.mtime
      BY <1>0, <2>1, <3>1 DEF SnapshotInv, ClockInv, BlocksOK
    <3> QED BY <1>0, <2>1, <3>1 DEF SnapshotInv, ClockInv, BlocksOK
  <2>5. ReadIsSnapshot'
    BY <1>0, <2>1 DEF ReadIsSnapshot
  <2> QED BY <2>2, <2>3, <2>4, <2>5 DEF AttachmentInv
<1>7. CASE Rename \/ Tick \/ UNCHANGED attachmentVars
  <2>1. /\ UNCHANGED <<content, mtime, step, stat, handle, data, contents, untold>>
        /\ path' \in Inodes \cup {0} /\ clock' \in Nat /\ clock <= clock' /\ writes' \in Nat
    BY <1>0, <1>7 DEF Rename, Tick, BlocksOK
  <2>2. BlocksOK' /\ SnapshotInv' /\ ReadIsSnapshot'
    BY <1>0, <2>1 DEF BlocksOK, SnapshotInv, ReadIsSnapshot
  <2>3. ClockInv'
    BY <1>0, <2>1 DEF BlocksOK, ClockInv
  <2> QED BY <2>2, <2>3 DEF AttachmentInv
<1> QED BY <1>1, <1>2, <1>3, <1>4, <1>5, <1>6, <1>7 DEF AttachmentNext

\* For files of any size and limit and any number of writes: what from_path() returns is what the
\* file held at one moment, never a mixture, if the clock moved between two writes.
THEOREM AttachmentIsSnapshot == AttachmentSpec => []ReadIsSnapshot
<1>1. AttachmentInit => AttachmentInv
  <2> SUFFICES ASSUME AttachmentInit PROVE AttachmentInv
    OBVIOUS
  <2>1. \A n \in 0..MaxBlocks : [b \in 1..n |-> 0] \in Seq(Nat)
    BY AttachmentAssumption
  <2>2. content \in [Inodes -> Seq(Nat)]
    BY <2>1 DEF AttachmentInit
  <2>3. BlocksOK
    <3>1. mtime \in [Inodes -> Nat] /\ data \in Seq(Nat)
      BY DEF AttachmentInit
    <3>2. stat \in [ino : Inodes \cup {0}, size : Nat, mtime : Nat]
      BY DEF AttachmentInit, NoStat
    <3>3. /\ path \in Inodes \cup {0} /\ handle \in Inodes \cup {0} /\ clock \in Nat /\ writes \in Nat
          /\ step \in Reading \cup {"returned", "raised"} /\ untold \in BOOLEAN
      BY DEF AttachmentInit, Inodes, Reading
    <3> QED BY <2>2, <3>1, <3>2, <3>3 DEF BlocksOK
  <2> QED BY <2>3 DEF AttachmentInit, AttachmentInv, ClockInv, SnapshotInv, ReadIsSnapshot
<1>2. AttachmentInv => ReadIsSnapshot
  BY DEF AttachmentInv
<1> QED BY <1>1, <1>2, AttachmentStep, PTL DEF AttachmentSpec

-----------------------------------------------------------------------------
(* SavedSessions *)

SavedOK ==
  /\ now \in Nat /\ limit \in Nat
  /\ modified \in [Files -> Nat]
  /\ left \subseteq Directories /\ named \subseteq Files
  /\ candidates \subseteq Nat \X Files
  /\ byId \in [SavedIds -> Nat]
  /\ listed \in BOOLEAN

\* Where a file that has not changed stands: its directory has not been listed, or it has
\* been named, or it waits to be read, or it has been read and what was found is as new.
Accounted(f) ==
  \/ f[2] \in left
  \/ f \in named
  \/ <<modified[f], f>> \in candidates
  \/ byId[f[1]] >= modified[f]

SettledFiles ==
  \A f \in settled : f \in Files /\ f \in readable /\ modified[f] # 0 /\ Accounted(f)

\* Once it has returned there is nothing left to look at.
ReturnedLast == listed => left = {} /\ named = {} /\ candidates = {}

SavedInv == SavedOK /\ SettledFiles /\ ReturnedLast /\ ListingSound

LEMMA FileFacts ==
  ASSUME NEW f \in Files
  PROVE  f[1] \in SavedIds /\ f[2] \in Directories /\ f = <<f[1], f[2]>>
BY DEF Files

\* As many as are found and asked for, the first of an order of the ids with their times.
Length(ids) == IF limit < Cardinality(ids) THEN limit ELSE Cardinality(ids)
Cut(order, ids) == [i \in 1..Length(ids) |-> <<order[i], byId[order[i]]>>]

\* A list that leaves out an id only for others that are as new.
Lists(list, ids) ==
  /\ Len(list) <= limit
  /\ \A i \in DOMAIN list : list[i][2] \in Nat
  /\ \A i, j \in DOMAIN list : i < j => list[i][1] # list[j][1] /\ list[i][2] >= list[j][2]
  /\ \A s \in ids :
        \/ \E i \in DOMAIN list : list[i][1] = s /\ list[i][2] = byId[s]
        \/ Len(list) = limit /\ \A i \in DOMAIN list : list[i][2] >= byId[s]

\* Such a list is what sorted() returns, cut at the limit.
LEMMA NewestFirst ==
  ASSUME byId \in [SavedIds -> Nat], limit \in Nat,
         NEW ids \in SUBSET SavedIds, NEW order \in Newest(ids)
  PROVE  Lists(Cut(order, ids), ids)
<1> DEFINE length == Length(ids)
           list == Cut(order, ids)
<1>1. Cardinality(ids) \in Nat
  BY DiscoveryAssumption, FS_Subset, FS_CardinalityType
<1>2. length \in Nat /\ length <= limit /\ length <= Cardinality(ids)
  BY <1>1 DEF Length
<1>3. length = limit \/ length = Cardinality(ids)
  BY DEF Length
<1>4. /\ order \in [1..Cardinality(ids) -> ids]
      /\ \A s \in ids : \E i \in 1..Cardinality(ids) : order[i] = s
      /\ \A i, j \in 1..Cardinality(ids) :
           i < j => order[i] # order[j] /\ byId[order[i]] >= byId[order[j]]
  BY DEF Newest
<1>5. 1..length \subseteq 1..Cardinality(ids)
  BY <1>1, <1>2
<1> HIDE DEF length
<1>6. DOMAIN list = 1..length /\ Len(list) = length
  BY <1>2 DEF Cut, length
<1>7. \A i \in 1..length : order[i] \in ids /\ list[i][1] = order[i] /\ list[i][2] = byId[order[i]]
  BY <1>4, <1>5 DEF Cut, length
<1> HIDE DEF list
<1>8. \A i \in 1..length : list[i][2] \in Nat
  BY <1>7
<1>9. \A i, j \in 1..length : i < j => list[i][1] # list[j][1] /\ list[i][2] >= list[j][2]
  BY <1>4, <1>5, <1>7
<1>10. ASSUME NEW s \in ids
      PROVE  \/ \E i \in 1..length : list[i][1] = s /\ list[i][2] = byId[s]
             \/ length = limit /\ \A i \in 1..length : list[i][2] >= byId[s]
  <2>1. PICK k \in 1..Cardinality(ids) : order[k] = s
    BY <1>4
  <2>2. CASE k <= length
    <3>1. k \in 1..length
      BY <2>2, <1>1, <1>2
    <3> QED BY <3>1, <2>1, <1>7
  <2>3. CASE ~(k <= length)
    <3>1. length = limit /\ \A i \in 1..length : i < k
      BY <2>3, <1>3, <1>1, <1>2
    <3>2. ASSUME NEW i \in 1..length PROVE list[i][2] >= byId[s]
      BY <3>1, <2>1, <1>4, <1>5, <1>7
    <3> QED BY <3>1, <3>2
  <2> QED BY <2>2, <2>3
<1>11. Lists(list, ids)
  BY <1>2, <1>6, <1>9, <1>10, <1>8 DEF Lists
<1> QED BY <1>11 DEF list

LEMMA SavedStep == SavedInv /\ [SavedNext]_savedVars => SavedInv'
<1> SUFFICES ASSUME SavedInv, [SavedNext]_savedVars PROVE SavedInv'
  OBVIOUS
<1>0. SavedOK /\ SettledFiles /\ ReturnedLast /\ ListingSound
  BY DEF SavedInv
<1>1. ASSUME UNCHANGED savedVars PROVE SavedInv'
  BY <1>0, <1>1 DEF SavedInv, SavedOK, SettledFiles, Accounted, ReturnedLast, ListingSound,
     savedVars, diskVars, listVars
<1>2. ASSUME NEW d \in Directories, ListDirectory(d) PROVE SavedInv'
  <2>1. /\ d \in left /\ left' = left \ {d}
        /\ named = {} /\ named' = {f \in Files : f[2] = d /\ modified[f] # 0}
        /\ UNCHANGED <<modified, readable, now, limit, candidates, byId, listing, listed, settled>>
    BY <1>2 DEF ListDirectory, diskVars
  <2>2. ~listed
    BY <2>1, <1>0 DEF ReturnedLast
  <2>3. SavedOK'
    BY <2>1, <1>0 DEF SavedOK
  <2>4. SettledFiles'
    BY <2>1, <1>0 DEF SettledFiles, Accounted
  <2> QED BY <2>1, <2>2, <2>3, <2>4 DEF SavedInv, ReturnedLast, ListingSound
<1>3. ASSUME NEW f \in Files, StatFile(f) PROVE SavedInv'
  <2>1. /\ f \in named /\ named' = named \ {f}
        /\ candidates' = IF modified[f] = 0 THEN candidates ELSE candidates \cup {<<modified[f], f>>}
        /\ UNCHANGED <<modified, readable, now, limit, left, byId, listing, listed, settled>>
    BY <1>3 DEF StatFile, diskVars
  <2>2. ~listed
    BY <2>1, <1>0 DEF ReturnedLast
  <2>3. SavedOK'
    BY <2>1, <1>0 DEF SavedOK
  <2>4. SettledFiles'
    BY <2>1, <1>0 DEF SettledFiles, Accounted
  <2> QED BY <2>1, <2>2, <2>3, <2>4 DEF SavedInv, ReturnedLast, ListingSound
<1>4. ASSUME NEW f \in Files, FileChanges(f) PROVE SavedInv'
  <2>1. /\ ~listed /\ now' = now + 1 /\ settled' = settled \ {f}
        /\ UNCHANGED <<limit, left, named, candidates, byId, listing, listed>>
    BY <1>4 DEF FileChanges, listVars
  <2>2. /\ modified' \in [Files -> Nat]
        /\ \A g \in Files : g # f => modified'[g] = modified[g] /\ (g \in readable => g \in readable')
    BY <1>0, <1>4, <2>1 DEF FileChanges, SavedOK
  <2>3. SavedOK'
    BY <2>1, <2>2, <1>0 DEF SavedOK
  <2>4. SettledFiles'
    BY <2>1, <2>2, <1>0 DEF SettledFiles, Accounted
  <2> QED BY <2>1, <2>3, <2>4 DEF SavedInv, ReturnedLast, ListingSound
<1>5. ASSUME NEW c \in candidates, ReadFile(c) PROVE SavedInv'
  <2>1. /\ candidates' = candidates \ {c}
        /\ Found(c[2])
        /\ UNCHANGED <<modified, readable, now, limit, left, named, listing, listed, settled>>
    BY <1>5 DEF ReadFile, diskVars
  <2>2. ~listed
    BY <1>0 DEF ReturnedLast
  <2>3. c[2] \in Files /\ c[2][1] \in SavedIds
    BY <1>0, FileFacts DEF SavedOK
  <2>4. /\ byId' \in [SavedIds -> Nat]
        /\ \A s \in SavedIds : byId'[s] >= byId[s]
        /\ c[2] \in readable => byId'[c[2][1]] >= modified[c[2]]
    <3>1. byId \in [SavedIds -> Nat] /\ modified[c[2]] \in Nat
      BY <2>3, <1>0 DEF SavedOK
    <3> QED BY <3>1, <2>1, <2>3 DEF Found
  <2>5. SavedOK'
    BY <2>1, <2>4, <1>0 DEF SavedOK
  <2>6. SettledFiles'
    <3> SUFFICES ASSUME NEW f \in settled
                 PROVE  f \in Files /\ f \in readable /\ modified[f] # 0 /\ Accounted(f)'
      BY <2>1 DEF SettledFiles
    <3>1. f \in Files /\ f \in readable /\ modified[f] # 0 /\ Accounted(f)
      BY <1>0 DEF SettledFiles
    <3>2. f[1] \in SavedIds /\ modified[f] \in Nat /\ byId[f[1]] \in Nat /\ byId'[f[1]] \in Nat
          /\ byId'[f[1]] >= byId[f[1]]
      BY <3>1, <2>4, <1>0, FileFacts DEF SavedOK
    <3>3. CASE c = <<modified[f], f>>
      <4>1. byId'[f[1]] >= modified[f]
        BY <3>3, <3>1, <2>4
      <4> QED BY <4>1, <3>1, <2>1 DEF Accounted
    <3>4. CASE c # <<modified[f], f>>
      BY <3>4, <3>1, <3>2, <2>1 DEF Accounted
    <3> QED BY <3>1, <3>3, <3>4
  <2> QED BY <2>1, <2>2, <2>5, <2>6 DEF SavedInv, ReturnedLast, ListingSound
<1>6. ASSUME ReturnListing PROVE SavedInv'
  <2> DEFINE ids == {s \in SavedIds : byId[s] # 0}
  <2>1. /\ left = {} /\ named = {} /\ candidates = {} /\ listed'
        /\ \E order \in Newest(ids) : listing' = Cut(order, ids)
        /\ UNCHANGED <<modified, readable, now, limit, left, named, candidates, byId, settled>>
    BY <1>6 DEF ReturnListing, diskVars, Cut, Length
  <2>2. byId \in [SavedIds -> Nat] /\ limit \in Nat /\ ids \in SUBSET SavedIds
    BY <1>0 DEF SavedOK
  <2> HIDE DEF ids
  <2>3. Lists(listing', ids)
    BY <2>1, <2>2, NewestFirst
  <2>4. ASSUME NEW f \in settled
        PROVE  \/ \E i \in DOMAIN listing' : listing'[i][1] = f[1] /\ listing'[i][2] >= modified[f]
               \/ Len(listing') = limit /\ \A i \in DOMAIN listing' : listing'[i][2] >= modified[f]
    <3>1. f \in Files /\ modified[f] # 0 /\ byId[f[1]] >= modified[f]
      BY <2>1, <1>0 DEF SettledFiles, Accounted
    <3>2. f[1] \in SavedIds /\ modified[f] \in Nat /\ byId[f[1]] \in Nat
      BY <3>1, <1>0, FileFacts DEF SavedOK
    <3>3. f[1] \in ids
      BY <3>1, <3>2 DEF ids
    <3> QED BY <3>1, <3>2, <3>3, <2>3 DEF Lists
  <2>5. ListingSound'
    BY <2>1, <2>3, <2>4 DEF ListingSound, Lists
  <2>6. SavedOK' /\ SettledFiles'
    BY <2>1, <1>0 DEF SavedOK, SettledFiles, Accounted
  <2> QED BY <2>1, <2>5, <2>6 DEF SavedInv, ReturnedLast
<1> QED BY <1>1, <1>2, <1>3, <1>4, <1>5, <1>6 DEF SavedNext

\* For any number of sessions and changes: what list_sessions() returns has the newest first,
\* each session once, and leaves out a session whose file did not change only for newer ones.
THEOREM ListingIsSound == SavedSpec => []ListingSound
<1>1. SavedInit => SavedInv
  <2> SUFFICES ASSUME SavedInit PROVE SavedInv
    OBVIOUS
  <2>1. Cardinality(SavedIds) \in Nat
    BY DiscoveryAssumption, FS_CardinalityType
  <2>2. SavedOK
    <3>1. limit \in Nat /\ now \in Nat
      BY <2>1 DEF SavedInit
    <3>2. modified \in [Files -> Nat]
      BY DEF SavedInit
    <3>3. /\ left \subseteq Directories /\ named \subseteq Files /\ candidates \subseteq Nat \X Files
          /\ byId \in [SavedIds -> Nat] /\ listed \in BOOLEAN
      BY DEF SavedInit
    <3> QED BY <3>1, <3>2, <3>3 DEF SavedOK
  <2>3. SettledFiles
    BY FileFacts DEF SavedInit, SettledFiles, Accounted
  <2> QED BY <2>2, <2>3 DEF SavedInit, SavedInv, ReturnedLast, ListingSound
<1>2. SavedInv => ListingSound
  BY DEF SavedInv
<1> QED BY <1>1, <1>2, SavedStep, PTL DEF SavedSpec

-----------------------------------------------------------------------------
(* TurnTracker *)

EventNames == Kept \cup {"Partial"}

TrackerOK ==
  /\ seen \in Seq(Notifications \cup Completions)
  /\ queue \in Seq(EventNames \X Nat) /\ messages \in Seq(EventNames \X Nat)
  /\ deltas \in Seq(Fragments) /\ errors \in Seq(Nat)

\* The last and the first of some places.
LastAt(places, i) == i \in places /\ \A k \in places : k <= i
FirstAt(places, i) == i \in places /\ \A k \in places : i <= k

\* Where the events are that are kept for the result.
Whole(events) == {i \in DOMAIN events : events[i][1] # "Partial"}

\* The places that follow len.
PlacesAfter(len, m) == (len + 1)..(len + m)

\* The list and what it is taken from have grown by the same.
Alike(list, grown, places, all, whole, len, m) ==
  /\ Len(grown) = Len(list) + m
  /\ \A i \in 1..Len(list) : grown[i] = list[i]
  /\ \A i \in places : whole[i] = all[i]
  /\ \A j \in 1..m : grown[Len(list) + j] = whole[len + j]

\* A list that has what is at some places has it still when both have grown alike.
LEMMA PicksAppended ==
  ASSUME NEW len \in Nat, NEW m \in Nat, NEW places \in SUBSET (1..len), NEW list, NEW all,
         Picks(list, places, all),
         NEW grown, NEW whole, Alike(list, grown, places, all, whole, len, m)
  PROVE  Picks(grown, places \cup PlacesAfter(len, m), whole)
<1> DEFINE more == (len + 1)..(len + m)
           both == places \cup more
           size == Cardinality(places)
<1>1. /\ IsFiniteSet(places) /\ size \in Nat /\ \A S \in SUBSET places : IsFiniteSet(S) /\ Cardinality(S) \in Nat
      /\ \A S \in SUBSET places : Cardinality(S) <= size
  <2>1. IsFiniteSet(1..len)
    BY FS_Interval
  <2>2. IsFiniteSet(places)
    BY <2>1, FS_Subset
  <2>3. \A S \in SUBSET places : IsFiniteSet(S) /\ Cardinality(S) <= size
    BY <2>2, FS_Subset
  <2>4. \A S \in SUBSET places : Cardinality(S) \in Nat
    BY <2>3, FS_CardinalityType
  <2> QED BY <2>2, <2>3, <2>4
<1>2. ASSUME NEW j \in 0..m
      PROVE  Cardinality(places \cup ((len + 1)..(len + j))) = size + j
  <2>1. IsFiniteSet((len + 1)..(len + j)) /\ Cardinality((len + 1)..(len + j)) = j
    <3>1. len + 1 \in Int /\ len + j \in Int
      OBVIOUS
    <3>2. /\ IsFiniteSet((len + 1)..(len + j))
          /\ Cardinality((len + 1)..(len + j)) = IF len + 1 > len + j THEN 0 ELSE (len + j) - (len + 1) + 1
      BY <3>1, FS_Interval
    <3> QED BY <3>2
  <2>2. places \cap ((len + 1)..(len + j)) = {}
    OBVIOUS
  <2>3. Cardinality(places \cap ((len + 1)..(len + j))) = 0
    BY <2>2, FS_EmptySet
  <2>4. Cardinality(places \cup ((len + 1)..(len + j)))
          = size + j - Cardinality(places \cap ((len + 1)..(len + j)))
    BY <1>1, <2>1, FS_Union
  <2> QED BY <1>1, <2>3, <2>4
<1>3. Len(list) = size /\ \A i \in places : list[Cardinality({k \in places : k <= i})] = all[i]
  BY DEF Picks
<1>4. /\ Len(grown) = Len(list) + m
      /\ \A i \in 1..Len(list) : grown[i] = list[i]
      /\ \A i \in places : whole[i] = all[i]
      /\ \A j \in 1..m : grown[Len(list) + j] = whole[len + j]
  BY DEF Alike
<1>5. Len(grown) = Cardinality(both)
  BY <1>2, <1>3, <1>4
<1>6. ASSUME NEW i \in places
      PROVE  grown[Cardinality({k \in both : k <= i})] = whole[i]
  <2> DEFINE upto == {k \in places : k <= i}
  <2>1. {k \in both : k <= i} = upto
    OBVIOUS
  <2>2. upto \in SUBSET places /\ upto # {}
    OBVIOUS
  <2>3. Cardinality(upto) \in 1..size
    BY <1>1, <2>2, FS_EmptySet
  <2> QED BY <2>1, <2>3, <1>3, <1>4
<1>7. ASSUME NEW i \in more
      PROVE  grown[Cardinality({k \in both : k <= i})] = whole[i]
  <2> DEFINE j == i - len
  <2>1. j \in 1..m /\ i = len + j
    OBVIOUS
  <2>2. {k \in both : k <= i} = places \cup ((len + 1)..(len + j))
    <3>1. \A k \in places : k \in Nat /\ k <= i
      BY <2>1
    <3>2. \A k \in more : k <= i <=> k \in (len + 1)..(len + j)
      BY <2>1
    <3>3. (len + 1)..(len + j) \subseteq more
      BY <2>1
    <3> QED BY <3>1, <3>2, <3>3
  <2>3. Cardinality({k \in both : k <= i}) = size + j
    BY <2>1, <2>2, <1>2
  <2> QED BY <2>1, <2>3, <1>3, <1>4
<1> QED BY <1>5, <1>6, <1>7 DEF Picks, PlacesAfter

\* The last and the first are what the property calls them.
LEMMA EndsFacts ==
  ASSUME NEW places \in SUBSET Nat, NEW i \in places
  PROVE  /\ LastAt(places, i) => Latest(places) = i
         /\ FirstAt(places, i) => Earliest(places) = i
<1>1. ASSUME LastAt(places, i) PROVE Latest(places) = i
  <2>1. \A k \in places : (\A j \in places : j <= k) => k = i
    BY <1>1 DEF LastAt
  <2> QED BY <2>1, <1>1 DEF LastAt, Latest
<1>2. ASSUME FirstAt(places, i) PROVE Earliest(places) = i
  <2>1. \A k \in places : (\A j \in places : k <= j) => k = i
    BY <1>2 DEF FirstAt
  <2> QED BY <2>1, <1>2 DEF FirstAt, Earliest
<1> QED BY <1>1, <1>2

\* Some places have a first and a last.
LEMMA LeastExists ==
  ASSUME NEW T \in SUBSET Nat, T # {}
  PROVE  \E x \in T : \A y \in T : x <= y
<1> DEFINE less == {pair \in Nat \X Nat : pair[1] < pair[2]}
<1>1. IsWellFoundedOn(less, Nat)
  BY NatLessThanWellFounded DEF OpToRel
<1>2. \A x, y \in Nat : y < x => <<y, x>> \in less
  OBVIOUS
<1> HIDE DEF less
<1>3. PICK x \in T : \A y \in T : ~(<<y, x>> \in less)
  BY <1>1, WFMin
<1>4. \A y \in T : x \in Nat /\ y \in Nat /\ ~(y < x)
  BY <1>2, <1>3
<1>5. \A y \in T : x <= y
  BY <1>4
<1> QED BY <1>5

LEMMA EndsExist ==
  ASSUME NEW len \in Nat, NEW places \in SUBSET (1..len), places # {}
  PROVE  /\ \E i \in places : FirstAt(places, i)
         /\ \E i \in places : LastAt(places, i)
<1>1. \E i \in places : FirstAt(places, i)
  <2>1. places \in SUBSET Nat
    OBVIOUS
  <2>2. \E i \in places : \A k \in places : i <= k
    BY <2>1, LeastExists
  <2> QED BY <2>2 DEF FirstAt
<1>2. \E i \in places : LastAt(places, i)
  <2> DEFINE T == {len - i : i \in places}
  <2>1. T \in SUBSET Nat /\ T # {}
    <3>1. \A i \in places : len - i \in Nat
      OBVIOUS
    <3>2. PICK i \in places : TRUE
      OBVIOUS
    <3>3. len - i \in T
      OBVIOUS
    <3> QED BY <3>1, <3>3
  <2>2. PICK x \in T : \A y \in T : x <= y
    BY <2>1, LeastExists
  <2>3. PICK i \in places : x = len - i
    BY <2>2
  <2>4. ASSUME NEW k \in places PROVE k <= i
    <3>1. len - i <= len - k
      BY <2>2, <2>3
    <3> QED BY <3>1
  <2> QED BY <2>4 DEF LastAt
<1> QED BY <1>1, <1>2

\* What appending a place after the others makes of their ends.
LEMMA EndsGrow ==
  ASSUME NEW len \in Nat, NEW places \in SUBSET (1..len)
  PROVE  /\ places # {} => /\ Latest(places) \in places /\ Earliest(places) \in places
                           /\ Earliest(places \cup {len + 1}) = Earliest(places)
         /\ Latest(places \cup {len + 1}) = len + 1
         /\ Earliest({len + 1}) = len + 1
<1>1. Latest(places \cup {len + 1}) = len + 1
  <2>1. LastAt(places \cup {len + 1}, len + 1)
    BY DEF LastAt
  <2>2. places \cup {len + 1} \in SUBSET Nat
    OBVIOUS
  <2> QED BY <2>1, <2>2, EndsFacts
<1>2. Earliest({len + 1}) = len + 1
  <2>1. FirstAt({len + 1}, len + 1) /\ {len + 1} \in SUBSET Nat
    BY DEF FirstAt
  <2> QED BY <2>1, EndsFacts
<1>3. ASSUME places # {}
      PROVE  /\ Latest(places) \in places /\ Earliest(places) \in places
             /\ Earliest(places \cup {len + 1}) = Earliest(places)
  <2>1. PICK i \in places : FirstAt(places, i)
    BY <1>3, EndsExist
  <2>2. PICK j \in places : LastAt(places, j)
    BY <1>3, EndsExist
  <2>3. places \in SUBSET Nat /\ places \cup {len + 1} \in SUBSET Nat
    OBVIOUS
  <2>4. Earliest(places) = i /\ Latest(places) = j
    BY <2>1, <2>2, <2>3, EndsFacts
  <2>5. FirstAt(places \cup {len + 1}, i)
    BY <2>1 DEF FirstAt
  <2>6. Earliest(places \cup {len + 1}) = i
    BY <2>3, <2>5, EndsFacts
  <2> QED BY <2>4, <2>6
<1> QED BY <1>1, <1>2, <1>3

\* What the property says of the notifications, said of any sequence of them.
PlacesIn(s, kind) == {i \in DOMAIN s : s[i].kind = kind}
SaidIn(s) == {i \in PlacesIn(s, "create_message") : s[i].role = "assistant"}
LastTextIn(s) == IF SaidIn(s) = {} THEN <<>> ELSE s[Latest(SaidIn(s))].text
LastObjectIn(s) == IF PlacesIn(s, "structured_output") = {} THEN None
                   ELSE s[Latest(PlacesIn(s, "structured_output"))].value
LastUsageIn(s) == IF PlacesIn(s, "session_token_usage_changed") = {} THEN 0
                  ELSE s[Latest(PlacesIn(s, "session_token_usage_changed"))].usage
FirstErrorIs(s, list) ==
  IF PlacesIn(s, "error") = {} THEN list = <<>>
  ELSE list # <<>> /\ list[1] = s[Earliest(PlacesIn(s, "error"))].id
DeltasAre(s, list) ==
  Picks(list, PlacesIn(s, "assistant_text_delta"), [i \in PlacesIn(s, "assistant_text_delta") |-> s[i].text])
NamesIn(s) == {id \in ToolIds : \E k \in DOMAIN s : Announces(s[k], id)}
NamelessIn(s) == {i \in DOMAIN s : /\ s[i].kind = "tool_result"
                                   /\ \A k \in 1..(i - 1) : ~Announces(s[k], s[i].id)}

TrackerInv ==
  /\ TrackerOK
  /\ finalText = LastTextIn(seen) /\ structured = LastObjectIn(seen) /\ usage = LastUsageIn(seen)
  /\ FirstErrorIs(seen, errors) /\ DeltasAre(seen, deltas)
  /\ names = NamesIn(seen) /\ nameless = NamelessIn(seen)
  /\ Picks(messages, Whole(queue), queue)
  /\ ResultTellsTurn

\* t is s and one more.
OneMore(s, t, n) ==
  /\ Len(s) \in Nat /\ Len(t) = Len(s) + 1
  /\ DOMAIN s = 1..Len(s) /\ DOMAIN t = 1..(Len(s) + 1)
  /\ \A i \in 1..Len(s) : t[i] = s[i]
  /\ t[Len(s) + 1] = n

LEMMA OneMoreAppended ==
  ASSUME NEW U, NEW s \in Seq(U), NEW n \in U
  PROVE  Append(s, n) \in Seq(U) /\ OneMore(s, Append(s, n), n)
<1>1. /\ Append(s, n) \in Seq(U) /\ Len(Append(s, n)) = Len(s) + 1
      /\ \A i \in 1..Len(s) : Append(s, n)[i] = s[i]
      /\ Append(s, n)[Len(s) + 1] = n
  BY AppendProperties
<1>2. Len(s) \in Nat /\ DOMAIN s = 1..Len(s) /\ DOMAIN Append(s, n) = 1..Len(Append(s, n))
  BY <1>1
<1> QED BY <1>1, <1>2 DEF OneMore

LEMMA PlacesGrow ==
  ASSUME NEW s, NEW t, NEW n, OneMore(s, t, n), NEW kind
  PROVE  /\ PlacesIn(s, kind) \in SUBSET (1..Len(s))
         /\ PlacesIn(t, kind) = IF n.kind = kind THEN PlacesIn(s, kind) \cup {Len(s) + 1}
                                                 ELSE PlacesIn(s, kind)
<1>1. /\ Len(s) \in Nat /\ DOMAIN s = 1..Len(s) /\ DOMAIN t = 1..(Len(s) + 1)
      /\ \A i \in 1..Len(s) : t[i] = s[i]
      /\ t[Len(s) + 1] = n
  BY DEF OneMore
<1>2. \A i : i \in 1..(Len(s) + 1) <=> i \in 1..Len(s) \/ i = Len(s) + 1
  BY <1>1
<1>3. Len(s) + 1 \notin 1..Len(s)
  BY <1>1
<1> QED BY <1>1, <1>2, <1>3 DEF PlacesIn

LEMMA SaidGrows ==
  ASSUME NEW s, NEW t, NEW n, OneMore(s, t, n)
  PROVE  /\ SaidIn(s) \in SUBSET (1..Len(s))
         /\ SaidIn(t) = IF n.kind = "create_message" /\ n.role = "assistant"
                        THEN SaidIn(s) \cup {Len(s) + 1} ELSE SaidIn(s)
<1>1. /\ PlacesIn(s, "create_message") \in SUBSET (1..Len(s))
      /\ PlacesIn(t, "create_message") =
           IF n.kind = "create_message" THEN PlacesIn(s, "create_message") \cup {Len(s) + 1}
                                        ELSE PlacesIn(s, "create_message")
  BY PlacesGrow
<1>2. (\A i \in 1..Len(s) : t[i] = s[i]) /\ t[Len(s) + 1] = n
  BY DEF OneMore
<1> QED BY <1>1, <1>2 DEF SaidIn

\* What is said last and first after one more notification.
LEMMA LastsGrow ==
  ASSUME NEW s, NEW t, NEW n, OneMore(s, t, n)
  PROVE  /\ LastTextIn(t) = IF n.kind = "create_message" /\ n.role = "assistant" THEN n.text ELSE LastTextIn(s)
         /\ LastObjectIn(t) = IF n.kind = "structured_output" THEN n.value ELSE LastObjectIn(s)
         /\ LastUsageIn(t) = IF n.kind = "session_token_usage_changed" THEN n.usage ELSE LastUsageIn(s)
<1>1. /\ Len(s) \in Nat
      /\ \A i \in 1..Len(s) : t[i] = s[i]
      /\ t[Len(s) + 1] = n
  BY DEF OneMore
<1>2. ASSUME NEW places \in SUBSET (1..Len(s))
      PROVE  /\ places # {} => t[Latest(places)] = s[Latest(places)]
             /\ places \cup {Len(s) + 1} # {}
             /\ t[Latest(places \cup {Len(s) + 1})] = n
  <2>1. places # {} => Latest(places) \in places
    BY <1>1, EndsGrow
  <2>2. Latest(places \cup {Len(s) + 1}) = Len(s) + 1
    BY <1>1, EndsGrow
  <2> QED BY <1>1, <2>1, <2>2
<1>3. LastTextIn(t) = IF n.kind = "create_message" /\ n.role = "assistant" THEN n.text ELSE LastTextIn(s)
  <2>1. /\ SaidIn(s) \in SUBSET (1..Len(s))
        /\ SaidIn(t) = IF n.kind = "create_message" /\ n.role = "assistant"
                       THEN SaidIn(s) \cup {Len(s) + 1} ELSE SaidIn(s)
    BY SaidGrows
  <2> QED BY <1>2, <2>1 DEF LastTextIn
<1>4. LastObjectIn(t) = IF n.kind = "structured_output" THEN n.value ELSE LastObjectIn(s)
  <2> DEFINE places == PlacesIn(s, "structured_output")
  <2>1. /\ places \in SUBSET (1..Len(s))
        /\ PlacesIn(t, "structured_output") =
             IF n.kind = "structured_output" THEN places \cup {Len(s) + 1} ELSE places
    BY PlacesGrow
  <2> QED BY <1>2, <2>1 DEF LastObjectIn
<1>5. LastUsageIn(t) = IF n.kind = "session_token_usage_changed" THEN n.usage ELSE LastUsageIn(s)
  <2> DEFINE places == PlacesIn(s, "session_token_usage_changed")
  <2>1. /\ places \in SUBSET (1..Len(s))
        /\ PlacesIn(t, "session_token_usage_changed") =
             IF n.kind = "session_token_usage_changed" THEN places \cup {Len(s) + 1} ELSE places
    BY PlacesGrow
  <2> QED BY <1>2, <2>1 DEF LastUsageIn
<1> QED BY <1>3, <1>4, <1>5

LEMMA ErrorsGrow ==
  ASSUME NEW s, NEW t, NEW n, OneMore(s, t, n), NEW list \in Seq(Nat), FirstErrorIs(s, list)
  PROVE  /\ n.kind # "error" => FirstErrorIs(t, list)
         /\ n.kind = "error" /\ n.id \in Nat => FirstErrorIs(t, Append(list, n.id))
<1> DEFINE places == PlacesIn(s, "error")
<1>1. /\ Len(s) \in Nat
      /\ \A i \in 1..Len(s) : t[i] = s[i]
      /\ t[Len(s) + 1] = n
  BY DEF OneMore
<1>2. /\ places \in SUBSET (1..Len(s))
      /\ PlacesIn(t, "error") = IF n.kind = "error" THEN places \cup {Len(s) + 1} ELSE places
  BY PlacesGrow
<1>3. /\ places # {} => /\ t[Earliest(places)] = s[Earliest(places)]
                        /\ Earliest(places \cup {Len(s) + 1}) = Earliest(places)
      /\ Earliest({Len(s) + 1}) = Len(s) + 1
  BY <1>1, <1>2, EndsGrow
<1>4. IF places = {} THEN list = <<>> ELSE list # <<>> /\ list[1] = s[Earliest(places)].id
  BY DEF FirstErrorIs
<1> HIDE DEF places
<1>5. ASSUME n.kind # "error" PROVE FirstErrorIs(t, list)
  BY <1>2, <1>3, <1>4, <1>5 DEF FirstErrorIs
<1>6. ASSUME n.kind = "error", n.id \in Nat PROVE FirstErrorIs(t, Append(list, n.id))
  <2> DEFINE longer == Append(list, n.id)
  <2>1. longer # <<>> /\ \A i \in 1..Len(list) : longer[i] = list[i]
    BY <1>6, AppendProperties
  <2>2. longer[Len(list) + 1] = n.id
    BY <1>6, AppendProperties
  <2> HIDE DEF longer
  <2>3. PlacesIn(t, "error") = places \cup {Len(s) + 1} /\ PlacesIn(t, "error") # {}
    BY <1>2, <1>6
  <2>4. CASE places = {}
    <3>1. longer[1] = n.id
      BY <1>4, <2>2, <2>4
    <3>2. t[Earliest(PlacesIn(t, "error"))] = n
      BY <1>1, <1>3, <2>3, <2>4
    <3> QED BY <2>1, <2>3, <3>1, <3>2 DEF FirstErrorIs, longer
  <2>5. CASE places # {}
    <3>1. longer[1] = list[1]
      <4>1. list # <<>> /\ Len(list) \in Nat \ {0}
        BY <1>4, <2>5, EmptySeq
      <4> QED BY <4>1, <2>1
    <3>2. t[Earliest(PlacesIn(t, "error"))].id = list[1]
      BY <1>3, <1>4, <2>3, <2>5
    <3> QED BY <2>1, <2>3, <3>1, <3>2 DEF FirstErrorIs, longer
  <2> QED BY <2>4, <2>5
<1> QED BY <1>5, <1>6

LEMMA DeltasGrow ==
  ASSUME NEW s, NEW t, NEW n, OneMore(s, t, n), NEW list \in Seq(Fragments), DeltasAre(s, list)
  PROVE  /\ n.kind # "assistant_text_delta" => DeltasAre(t, list)
         /\ n.kind = "assistant_text_delta" /\ n.text \in Fragments => DeltasAre(t, Append(list, n.text))
<1> DEFINE places == PlacesIn(s, "assistant_text_delta")
           later == PlacesIn(t, "assistant_text_delta")
           before == [i \in places |-> s[i].text]
           after == [i \in later |-> t[i].text]
<1>1. /\ Len(s) \in Nat
      /\ \A i \in 1..Len(s) : t[i] = s[i]
      /\ t[Len(s) + 1] = n
  BY DEF OneMore
<1>2. /\ places \in SUBSET (1..Len(s))
      /\ later = IF n.kind = "assistant_text_delta" THEN places \cup {Len(s) + 1} ELSE places
  BY PlacesGrow
<1>3. Picks(list, places, before)
  BY DEF DeltasAre
<1> HIDE DEF places, later
<1>4. \A i \in places : before[i] = after[i]
  BY <1>1, <1>2
<1>5. ASSUME n.kind = "assistant_text_delta" PROVE after[Len(s) + 1] = n.text
  BY <1>1, <1>2, <1>5
<1> HIDE DEF before, after
<1>6. ASSUME n.kind # "assistant_text_delta" PROVE Picks(list, later, after)
  <2>1. later = places
    BY <1>2, <1>6
  <2> QED BY <2>1, <1>3, <1>4 DEF Picks
<1>7. ASSUME n.kind = "assistant_text_delta", n.text \in Fragments PROVE Picks(Append(list, n.text), later, after)
  <2> DEFINE longer == Append(list, n.text)
  <2>1. Len(longer) = Len(list) + 1 /\ \A i \in 1..Len(list) : longer[i] = list[i]
    BY <1>7, AppendProperties
  <2>2. longer[Len(list) + 1] = n.text
    BY <1>7, AppendProperties
  <2> HIDE DEF longer
  <2>3. Alike(list, longer, places, before, after, Len(s), 1)
    BY <1>4, <1>5, <1>7, <2>1, <2>2 DEF Alike
  <2>4. Picks(longer, places \cup PlacesAfter(Len(s), 1), after)
    BY <1>1, <1>2, <1>3, <2>3, PicksAppended
  <2>5. PlacesAfter(Len(s), 1) = {Len(s) + 1}
    BY <1>1 DEF PlacesAfter
  <2> QED BY <2>4, <2>5, <1>2, <1>7 DEF longer
<1> QED BY <1>6, <1>7 DEF DeltasAre, later, after

LEMMA NamesGrow ==
  ASSUME NEW s, NEW t, NEW n, OneMore(s, t, n)
  PROVE  /\ NamesIn(t) = NamesIn(s) \cup {id \in ToolIds : Announces(n, id)}
         /\ n.kind = "tool_result" /\ n.id \in ToolIds =>
              NamelessIn(t) = IF n.id \notin NamesIn(s) THEN NamelessIn(s) \cup {Len(s) + 1} ELSE NamelessIn(s)
         /\ n.kind # "tool_result" => NamelessIn(t) = NamelessIn(s)
<1>1. /\ Len(s) \in Nat /\ DOMAIN s = 1..Len(s) /\ DOMAIN t = 1..(Len(s) + 1)
      /\ \A i \in 1..Len(s) : t[i] = s[i]
      /\ t[Len(s) + 1] = n
  BY DEF OneMore
<1>2. \A i : i \in 1..(Len(s) + 1) <=> i \in 1..Len(s) \/ i = Len(s) + 1
  BY <1>1
<1>3. NamesIn(t) = NamesIn(s) \cup {id \in ToolIds : Announces(n, id)}
  BY <1>1, <1>2 DEF NamesIn
<1>4. \A i \in 1..Len(s) : i \in NamelessIn(t) <=> i \in NamelessIn(s)
  <2> SUFFICES ASSUME NEW i \in 1..Len(s) PROVE i \in NamelessIn(t) <=> i \in NamelessIn(s)
    OBVIOUS
  <2>1. i \in 1..(Len(s) + 1) /\ \A k \in 1..(i - 1) : k \in 1..Len(s)
    BY <1>1
  <2>2. t[i] = s[i] /\ \A k \in 1..(i - 1) : t[k] = s[k]
    BY <1>1, <2>1
  <2> QED BY <1>1, <2>1, <2>2 DEF NamelessIn
<1>5. Len(s) + 1 \in NamelessIn(t)
        <=> n.kind = "tool_result" /\ \A k \in 1..Len(s) : ~Announces(s[k], n.id)
  <2>1. (Len(s) + 1) - 1 = Len(s) /\ Len(s) + 1 \in 1..(Len(s) + 1)
    BY <1>1
  <2> QED BY <1>1, <2>1 DEF NamelessIn
<1>6. NamelessIn(s) \in SUBSET (1..Len(s)) /\ NamelessIn(t) \in SUBSET (1..(Len(s) + 1))
  BY <1>1 DEF NamelessIn
<1>7. n.id \in ToolIds => (n.id \in NamesIn(s) <=> \E k \in 1..Len(s) : Announces(s[k], n.id))
  BY <1>1 DEF NamesIn
<1>8. NamelessIn(t) = IF n.kind = "tool_result" /\ \A k \in 1..Len(s) : ~Announces(s[k], n.id)
                      THEN NamelessIn(s) \cup {Len(s) + 1} ELSE NamelessIn(s)
  <2>1. \A i : i \in NamelessIn(t) => i \in 1..Len(s) \/ i = Len(s) + 1
    BY <1>2, <1>6
  <2>2. \A i : i \in NamelessIn(t) <=>
                 \/ i \in NamelessIn(s)
                 \/ i = Len(s) + 1 /\ Len(s) + 1 \in NamelessIn(t)
    BY <2>1, <1>4, <1>6
  <2>3. NamelessIn(t) = IF Len(s) + 1 \in NamelessIn(t) THEN NamelessIn(s) \cup {Len(s) + 1} ELSE NamelessIn(s)
    BY <2>2
  <2> QED BY <2>3, <1>5
<1> QED BY <1>3, <1>7, <1>8

\* What the kinds of notifications carry.
LEMMA NotificationFacts ==
  ASSUME NEW n \in Notifications
  PROVE  /\ n.kind \in {"create_message", "tool_call", "tool_result", "assistant_text_delta",
                        "structured_output", "session_token_usage_changed", "error", "status",
                        "hook_execution", "unconverted"}
         /\ n.kind = "create_message" =>
              /\ n.tools \in SUBSET ToolIds /\ n.text \in Seq(Fragments)
              /\ n.role \in {"assistant", "user", "system"}
         /\ n.kind \in {"tool_call", "tool_result"} => n.id \in ToolIds
         /\ n.kind = "assistant_text_delta" => n.text \in Fragments
         /\ n.kind = "error" => n.id \in Nat
         /\ n.kind = "hook_execution" => n.commands \in Nat
<1>1. CASE n \in MessageNotifications
  <2>1. \A f \in Fragments : <<f>> \in Seq(Fragments)
    OBVIOUS
  <2>2. <<>> \in Seq(Fragments) /\ <<"words">> \in Seq(Fragments)
    BY <2>1 DEF Fragments
  <2> QED BY <1>1, <2>1, <2>2 DEF MessageNotifications
<1>2. CASE n \in ToolNotifications
  BY <1>2 DEF ToolNotifications
<1>3. CASE n \in TextNotifications
  BY <1>3 DEF TextNotifications
<1>4. CASE n \in ErrorNotifications \cup StatusNotifications \cup HookNotifications \cup SilentNotifications
  BY <1>4 DEF ErrorNotifications, StatusNotifications, HookNotifications, SilentNotifications
<1> QED BY <1>1, <1>2, <1>3, <1>4 DEF Notifications

LEMMA CompletionFacts == \A n \in Completions : n.kind = "agent_turn_completed"
BY DEF Completions

\* The events of a notification are all kept for the result, or it is one that is not.
LEMMA EventFacts ==
  ASSUME NEW n \in Notifications
  PROVE  Events(n) \in Seq(Kept) \/ Events(n) = <<"Partial">>
<1>1. CASE n.kind = "create_message"
  <2>1. Cardinality(n.tools) \in Nat
    BY <1>1, NotificationFacts, TrackerAssumption, FS_Subset, FS_CardinalityType
  <2>2. [i \in 1..Cardinality(n.tools) |-> "ToolCall"] \in Seq(Kept)
    BY <2>1 DEF Kept
  <2>3. /\ <<"AssistantMessage">> \in Seq(Kept) /\ <<"UserMessage">> \in Seq(Kept)
        /\ <<>> \in Seq(Kept)
    BY DEF Kept
  <2>4. (CASE n.role = "assistant" -> <<"AssistantMessage">>
           [] n.role = "user" -> <<"UserMessage">>
           [] OTHER -> <<>>) \in Seq(Kept)
    BY <2>3
  <2>5. MessageEvents(n) \in Seq(Kept)
    BY <2>2, <2>4 DEF MessageEvents
  <2> QED BY <1>1, <2>5 DEF Events
<1>2. CASE n.kind = "hook_execution"
  <2>1. n.commands \in Nat
    BY <1>2, NotificationFacts
  <2>2. HookEvents(n) \in Seq(Kept)
    BY <2>1 DEF HookEvents, Kept
  <2> QED BY <1>2, <2>2 DEF Events
<1>3. CASE n.kind \notin {"create_message", "hook_execution"}
  <2>1. <<"ToolResult">> \in Seq(Kept) /\ <<"ErrorEvent">> \in Seq(Kept) /\ <<>> \in Seq(Kept)
    BY DEF Kept
  <2> QED BY <1>3, <2>1 DEF Events
<1> QED BY <1>1, <1>2, <1>3

\* Events added to the queue: those that are kept are kept for the result too.
LEMMA KeptGrow ==
  ASSUME NEW q \in Seq(EventNames \X Nat), NEW list \in Seq(EventNames \X Nat),
         NEW more \in Seq(EventNames \X Nat),
         Picks(list, Whole(q), q)
  PROVE  /\ (\A j \in 1..Len(more) : more[j][1] # "Partial") => Picks(list \o more, Whole(q \o more), q \o more)
         /\ (\A j \in 1..Len(more) : more[j][1] = "Partial") => Picks(list, Whole(q \o more), q \o more)
<1> DEFINE Entries == EventNames \X Nat
           here == Len(q)
           m == Len(more)
           both == q \o more
           grown == list \o more
<1>1. here \in Nat /\ m \in Nat /\ Len(list) \in Nat
  OBVIOUS
<1>2. /\ both \in Seq(Entries) /\ Len(both) = here + m
      /\ \A i \in 1..(here + m) : both[i] = IF i <= here THEN q[i] ELSE more[i - here]
  BY ConcatProperties
<1>3. /\ grown \in Seq(Entries) /\ Len(grown) = Len(list) + m
      /\ \A i \in 1..(Len(list) + m) : grown[i] = IF i <= Len(list) THEN list[i] ELSE more[i - Len(list)]
  BY ConcatProperties
<1> HIDE DEF both, grown
<1>4. /\ \A i \in 1..here : both[i] = q[i]
      /\ \A j \in 1..m : both[here + j] = more[j] /\ grown[Len(list) + j] = more[j]
      /\ \A i \in 1..Len(list) : grown[i] = list[i]
  <2>1. ASSUME NEW k \in Nat, NEW j \in 1..m PROVE k + j \in 1..(k + m) /\ ~(k + j <= k) /\ (k + j) - k = j
    BY <1>1
  <2>2. ASSUME NEW k \in Nat, NEW i \in 1..k PROVE i \in 1..(k + m) /\ i <= k
    BY <1>1
  <2> HIDE DEF here, m
  <2>3. \A j \in 1..m : both[here + j] = more[j]
    BY <1>1, <1>2, <2>1
  <2>4. \A j \in 1..m : grown[Len(list) + j] = more[j]
    BY <1>1, <1>3, <2>1
  <2>5. /\ \A i \in 1..here : both[i] = q[i]
        /\ \A i \in 1..Len(list) : grown[i] = list[i]
    BY <1>1, <1>2, <1>3, <2>2
  <2> QED BY <2>3, <2>4, <2>5
<1>5. DOMAIN q = 1..here /\ DOMAIN both = 1..(here + m)
  BY <1>2
<1>6. Whole(q) \in SUBSET (1..here) /\ \A i \in 1..here : i \in Whole(q) <=> q[i][1] # "Partial"
  BY <1>5 DEF Whole
<1>7. \A i \in 1..(here + m) : i \in Whole(both) <=> both[i][1] # "Partial"
  BY <1>5 DEF Whole
<1>8. Whole(both) \in SUBSET (1..(here + m))
  BY <1>5 DEF Whole
<1>9. ASSUME NEW i \in 1..(here + m), i \notin 1..here
      PROVE  i \in (here + 1)..(here + m) /\ both[i] = more[i - here] /\ i - here \in 1..m
  <2>1. i > here /\ i - here \in 1..m
    BY <1>1, <1>9
  <2> QED BY <2>1, <1>1, <1>2
<1>10. ASSUME NEW i \in Whole(q) PROVE i \in 1..(here + m) /\ both[i] = q[i] /\ i \in Whole(both)
  <2>1. i \in 1..here /\ i \in 1..(here + m)
    BY <1>1, <1>6
  <2> QED BY <2>1, <1>4, <1>6, <1>7
<1>11. ASSUME NEW i \in Whole(both), i \in 1..here PROVE i \in Whole(q)
  BY <1>4, <1>6, <1>7, <1>8, <1>11
<1>12. ASSUME \A j \in 1..m : more[j][1] # "Partial" PROVE Picks(grown, Whole(both), both)
  <2>1. ASSUME NEW i \in (here + 1)..(here + m) PROVE i \in Whole(both)
    <3>1. i \in 1..(here + m) /\ i \notin 1..here
      BY <1>1
    <3>2. both[i] = more[i - here] /\ i - here \in 1..m
      BY <3>1, <1>9
    <3>3. both[i][1] # "Partial"
      BY <3>2, <1>12
    <3> QED BY <3>1, <3>3, <1>7
  <2>2. Whole(both) = Whole(q) \cup ((here + 1)..(here + m))
    BY <2>1, <1>8, <1>9, <1>10, <1>11
  <2>3. Picks(grown, Whole(q) \cup PlacesAfter(here, m), both)
    <3>1. Alike(list, grown, Whole(q), q, both, here, m)
      BY <1>3, <1>4, <1>10 DEF Alike
    <3> HIDE DEF here, m
    <3> QED BY <3>1, <1>1, <1>6, PicksAppended
  <2> QED BY <2>2, <2>3 DEF PlacesAfter
<1>13. ASSUME \A j \in 1..m : more[j][1] = "Partial" PROVE Picks(list, Whole(both), both)
  <2>1. ASSUME NEW i \in Whole(both) PROVE i \in 1..here
    <3>1. i \in 1..(here + m) /\ both[i][1] # "Partial"
      BY <1>7, <1>8
    <3> QED BY <3>1, <1>9, <1>13
  <2>2. Whole(both) = Whole(q)
    BY <2>1, <1>10, <1>11
  <2>3. \A i \in Whole(q) : both[i] = q[i]
    BY <1>10
  <2> QED BY <2>2, <2>3 DEF Picks
<1> QED BY <1>12, <1>13 DEF both, grown

\* The messages kept for the result stay those the queue was given.
LEMMA QueueStep ==
  ASSUME TrackerOK, Picks(messages, Whole(queue), queue), NEW n \in Notifications, Queue(n)
  PROVE  /\ queue' \in Seq(EventNames \X Nat) /\ messages' \in Seq(EventNames \X Nat)
         /\ Picks(messages', Whole(queue'), queue')
<1> DEFINE Entries == EventNames \X Nat
           here == Len(queue)
<1>1. /\ queue \in Seq(Entries) /\ messages \in Seq(Entries)
      /\ here \in Nat /\ Len(messages) \in Nat /\ Len(seen) + 1 \in Nat
  BY DEF TrackerOK
<1>2. ASSUME NEW events \in Seq(EventNames)
      PROVE  /\ Numbered(events) \in Seq(Entries) /\ Len(Numbered(events)) = Len(events)
             /\ \A i \in 1..Len(events) : Numbered(events)[i][1] = events[i]
  <2>1. DOMAIN events = 1..Len(events) /\ Len(events) \in Nat
    OBVIOUS
  <2>2. Numbered(events) = [i \in 1..Len(events) |-> <<events[i], Len(seen) + 1>>]
    BY <2>1 DEF Numbered
  <2>3. \A i \in 1..Len(events) : <<events[i], Len(seen) + 1>> \in Entries
    BY <1>1, <2>1
  <2> QED BY <2>1, <2>2, <2>3
<1>5. CASE Events(n) \in Seq(Kept)
  <2> DEFINE more == Numbered(Events(n))
             m == Len(more)
  <2>1. Events(n) \in Seq(EventNames) /\ \A i \in 1..Len(Events(n)) : Events(n)[i] \in Kept
    BY <1>5 DEF EventNames
  <2>2. more \in Seq(Entries) /\ m \in Nat /\ \A j \in 1..m : more[j][1] # "Partial"
    <3>1. /\ more \in Seq(Entries) /\ Len(more) = Len(Events(n))
          /\ \A j \in 1..Len(Events(n)) : more[j][1] = Events(n)[j]
      BY <1>2, <2>1
    <3>2. "Partial" \notin Kept
      BY DEF Kept
    <3>3. Len(more) \in Nat
      BY <3>1
    <3> HIDE DEF more
    <3> QED BY <3>1, <3>2, <3>3, <2>1
  <2>3. Those(Events(n), Kept) = Events(n) /\ Those(Events(n), Shown) = Events(n)
    BY <2>1, <1>5 DEF Those, Kept, Shown
  <2>4. messages' = messages \o more /\ queue' = queue \o more
    BY <2>3 DEF Queue
  <2> HIDE DEF more
  <2>5. Picks(messages \o more, Whole(queue \o more), queue \o more)
    BY <1>1, <2>2, KeptGrow
  <2>6. messages \o more \in Seq(Entries) /\ queue \o more \in Seq(Entries)
    BY <1>1, <2>2, ConcatProperties
  <2> QED BY <2>4, <2>5, <2>6
<1>6. CASE Events(n) = <<"Partial">>
  <2>1. Those(Events(n), Kept) = <<>> /\ Those(Events(n), Shown) = <<>>
    BY <1>6 DEF Those, Kept, Shown
  <2>2. Numbered(<<>>) \in Seq(Entries) /\ Len(Numbered(<<>>)) = 0
    <3>1. <<>> \in Seq(EventNames) /\ Len(<<>>) = 0
      OBVIOUS
    <3> QED BY <3>1, <1>2
  <2>3. messages' = messages \o Numbered(<<>>)
    BY <2>1 DEF Queue
  <2>4. messages' = messages
    <3> DEFINE nothing == Numbered(<<>>)
    <3>1. nothing = <<>>
      BY <2>2, EmptySeq
    <3>2. messages' = messages \o <<>>
      BY <2>3, <3>1
    <3> QED BY <3>2, <1>1, ConcatEmptySeq
  <2> DEFINE more == Numbered(IF partial THEN Events(n) ELSE Those(Events(n), Shown))
             m == Len(more)
  <2>5. more \in Seq(Entries) /\ m \in Nat /\ \A j \in 1..m : more[j][1] = "Partial"
    <3>1. CASE partial
      <4> DEFINE one == <<"Partial">>
      <4>1. one \in Seq(EventNames) /\ Len(one) = 1 /\ one[1] = "Partial"
        BY DEF EventNames
      <4>2. more = Numbered(one)
        BY <3>1, <1>6
      <4> HIDE DEF one
      <4>3. more \in Seq(Entries) /\ Len(more) = 1 /\ \A j \in 1..1 : more[j][1] = one[j]
        BY <4>1, <4>2, <1>2
      <4> HIDE DEF more
      <4> QED BY <4>1, <4>3
    <3>2. CASE ~partial
      <4>1. more = Numbered(<<>>)
        BY <3>2, <2>1
      <4> QED BY <4>1, <2>2
    <3> QED BY <3>1, <3>2
  <2>6. queue' = queue \o more
    BY DEF Queue
  <2> HIDE DEF more
  <2>7. Picks(messages, Whole(queue \o more), queue \o more)
    BY <1>1, <2>5, KeptGrow
  <2>8. queue \o more \in Seq(Entries)
    BY <1>1, <2>5, ConcatProperties
  <2> QED BY <1>1, <2>4, <2>6, <2>7, <2>8
<1> QED BY <1>5, <1>6, EventFacts

LEMMA TrackStep ==
  ASSUME TrackerInv, NEW n \in Notifications, Track(n)
  PROVE  TrackerInv'
<1> DEFINE U == Notifications \cup Completions
<1>1. /\ turn = "running" /\ turn' = turn
      /\ seen' = Append(seen, n)
      /\ names' = names \cup Named(n)
      /\ nameless' = IF n.kind = "tool_result" /\ n.id \notin names
                     THEN nameless \cup {Len(seen) + 1} ELSE nameless
      /\ deltas' = IF n.kind = "assistant_text_delta" THEN Append(deltas, n.text) ELSE deltas
      /\ finalText' = IF n.kind = "create_message" /\ n.role = "assistant" THEN n.text ELSE finalText
      /\ usage' = IF n.kind = "session_token_usage_changed" THEN n.usage ELSE usage
      /\ errors' = IF n.kind = "error" THEN Append(errors, n.id) ELSE errors
      /\ structured' = IF n.kind = "structured_output" THEN n.value ELSE structured
      /\ Queue(n)
  BY DEF Track, Structured
<1>2. /\ TrackerOK /\ FirstErrorIs(seen, errors) /\ DeltasAre(seen, deltas)
      /\ finalText = LastTextIn(seen) /\ structured = LastObjectIn(seen) /\ usage = LastUsageIn(seen)
      /\ names = NamesIn(seen) /\ nameless = NamelessIn(seen)
      /\ Picks(messages, Whole(queue), queue)
  BY DEF TrackerInv
<1>3. seen \in Seq(U) /\ deltas \in Seq(Fragments) /\ errors \in Seq(Nat)
  BY <1>2 DEF TrackerOK
<1>4. seen' \in Seq(U) /\ OneMore(seen, seen', n)
  <2> n \in U
    OBVIOUS
  <2> HIDE DEF U
  <2>1. Append(seen, n) \in Seq(U) /\ OneMore(seen, Append(seen, n), n)
    BY <1>3, OneMoreAppended
  <2> QED BY <2>1, <1>1
<1>5. /\ n.kind = "create_message" => n.tools \in SUBSET ToolIds
      /\ n.kind \in {"tool_call", "tool_result"} => n.id \in ToolIds
      /\ n.kind = "assistant_text_delta" => n.text \in Fragments
      /\ n.kind = "error" => n.id \in Nat
  BY NotificationFacts
<1>6. finalText' = LastTextIn(seen') /\ structured' = LastObjectIn(seen') /\ usage' = LastUsageIn(seen')
  BY <1>1, <1>2, <1>4, LastsGrow
<1>7. FirstErrorIs(seen', errors') /\ errors' \in Seq(Nat)
  <2>1. CASE n.kind = "error"
    BY <2>1, <1>1, <1>2, <1>3, <1>4, <1>5, ErrorsGrow, AppendProperties
  <2>2. CASE n.kind # "error"
    BY <2>2, <1>1, <1>2, <1>3, <1>4, ErrorsGrow
  <2> QED BY <2>1, <2>2
<1>8. DeltasAre(seen', deltas') /\ deltas' \in Seq(Fragments)
  <2>1. CASE n.kind = "assistant_text_delta"
    BY <2>1, <1>1, <1>2, <1>3, <1>4, <1>5, DeltasGrow, AppendProperties
  <2>2. CASE n.kind # "assistant_text_delta"
    BY <2>2, <1>1, <1>2, <1>3, <1>4, DeltasGrow
  <2> QED BY <2>1, <2>2
<1>9. names' = NamesIn(seen')
  <2>1. Named(n) = {id \in ToolIds : Announces(n, id)}
    BY <1>5 DEF Named, Announces
  <2> QED BY <2>1, <1>1, <1>2, <1>4, NamesGrow
<1>10. nameless' = NamelessIn(seen')
  <2>1. CASE n.kind = "tool_result"
    BY <2>1, <1>1, <1>2, <1>4, <1>5, NamesGrow
  <2>2. CASE n.kind # "tool_result"
    BY <2>2, <1>1, <1>2, <1>4, NamesGrow
  <2> QED BY <2>1, <2>2
<1>11. /\ queue' \in Seq(EventNames \X Nat) /\ messages' \in Seq(EventNames \X Nat)
       /\ Picks(messages', Whole(queue'), queue')
  BY <1>1, <1>2, QueueStep
<1>12. TrackerOK'
  BY <1>4, <1>7, <1>8, <1>11 DEF TrackerOK
<1>13. ResultTellsTurn'
  BY <1>1 DEF ResultTellsTurn
<1> QED BY <1>6, <1>7, <1>8, <1>9, <1>10, <1>11, <1>12, <1>13 DEF TrackerInv

\* A completion changes nothing of what has been gathered, and the result is made of that.
LEMMA CompleteStep ==
  ASSUME TrackerInv, NEW n \in Completions, Complete(n)
  PROVE  TrackerInv'
<1> DEFINE U == Notifications \cup Completions
<1>1. /\ seen' = Append(seen, n)
      /\ UNCHANGED <<adapter, queue, messages, names, nameless, deltas, finalText, usage, errors, structured>>
      /\ turn' = "completed" => result' = Result(n)
  BY DEF Complete, requestVars, eventVars
<1>2. /\ TrackerOK /\ FirstErrorIs(seen, errors) /\ DeltasAre(seen, deltas)
      /\ finalText = LastTextIn(seen) /\ structured = LastObjectIn(seen) /\ usage = LastUsageIn(seen)
      /\ names = NamesIn(seen) /\ nameless = NamelessIn(seen)
      /\ Picks(messages, Whole(queue), queue)
  BY DEF TrackerInv
<1>3. seen \in Seq(U) /\ deltas \in Seq(Fragments) /\ errors \in Seq(Nat)
  BY <1>2 DEF TrackerOK
<1>4. seen' \in Seq(U) /\ OneMore(seen, seen', n)
  <2> n \in U
    OBVIOUS
  <2> HIDE DEF U
  <2>1. Append(seen, n) \in Seq(U) /\ OneMore(seen, Append(seen, n), n)
    BY <1>3, OneMoreAppended
  <2> QED BY <2>1, <1>1
<1>5. n.kind = "agent_turn_completed"
  BY CompletionFacts
<1>6. finalText = LastTextIn(seen') /\ structured = LastObjectIn(seen') /\ usage = LastUsageIn(seen')
  BY <1>2, <1>4, <1>5, LastsGrow
<1>7. FirstErrorIs(seen', errors)
  BY <1>2, <1>3, <1>4, <1>5, ErrorsGrow
<1>8. DeltasAre(seen', deltas)
  BY <1>2, <1>3, <1>4, <1>5, DeltasGrow
<1>9. names = NamesIn(seen') /\ nameless = NamelessIn(seen')
  <2>1. {id \in ToolIds : Announces(n, id)} = {}
    BY <1>5 DEF Announces
  <2>2. /\ NamesIn(seen') = NamesIn(seen) \cup {id \in ToolIds : Announces(n, id)}
        /\ NamelessIn(seen') = NamelessIn(seen)
    BY <1>4, <1>5, NamesGrow
  <2> QED BY <2>1, <2>2, <1>2
<1>10. TrackerOK'
  BY <1>1, <1>2, <1>4 DEF TrackerOK
<1>11. ASSUME turn' = "completed" PROVE ResultTellsTurn'
  <2>1. seen'[Len(seen')] = n
    BY <1>4 DEF OneMore
  <2>2. /\ result'.type = Outcome(n.reason).type /\ result'.error = Outcome(n.reason).error
        /\ result'.text = Text /\ result'.messages = messages /\ result'.output = Output(Raw)
        /\ result'.usage = IF n.usage = 0 THEN usage ELSE n.usage
    BY <1>1, <1>11 DEF Result
  <2>3. LastText' = finalText /\ LastObject' = structured /\ LastUsage' = usage
    BY <1>6 DEF LastText, LastObject, LastUsage, Said, Places, LastTextIn, LastObjectIn, LastUsageIn,
       SaidIn, PlacesIn
  <2>4. nameless' = NamelessInOrder'
    BY <1>1, <1>9 DEF NamelessInOrder, NamelessIn
  <2>5. Picks(result'.messages, {i \in DOMAIN queue' : queue'[i][1] # "Partial"}, queue')
    BY <1>1, <1>2, <2>2 DEF Whole
  <2>6. TellsText(result.text)'
    <3>1. Picks(deltas, PlacesIn(seen', "assistant_text_delta"),
                [i \in PlacesIn(seen', "assistant_text_delta") |-> seen'[i].text])
      BY <1>8 DEF DeltasAre
    <3> QED BY <3>1, <2>2, <2>3 DEF TellsText, Text, Places, PlacesIn
  <2>7. result'.usage = IF n.usage # 0 THEN n.usage ELSE LastUsage'
    BY <2>2, <2>3
  <2>8. ObjectOf(result.text)' = Raw
    BY <2>2, <2>3 DEF ObjectOf, Raw, Parsed
  <2>9. result'.output # None => result'.output = Raw
    BY <2>2 DEF Output
  <2>10. result'.type = "success" <=>
           /\ n.reason \in {"completed", "spec_handoff"}
           /\ adapter' = "none" \/ (Raw # None /\ (adapter' = "model" => Raw = "fits"))
    BY <1>1, <2>2 DEF Outcome, Output
  <2>11. n.reason = "error" /\ Places("error")' # {} => result'.error = (seen[Earliest(Places("error"))].id)'
    <3>1. n.reason = "error" => result'.error = IF errors = <<>> THEN 0 ELSE errors[1]
      BY <2>2 DEF Outcome
    <3>2. Places("error")' = PlacesIn(seen', "error")
      BY DEF Places, PlacesIn
    <3>3. PlacesIn(seen', "error") # {} =>
            errors # <<>> /\ errors[1] = seen'[Earliest(PlacesIn(seen', "error"))].id
      BY <1>7 DEF FirstErrorIs
    <3>4. (seen[Earliest(Places("error"))].id)' = seen'[Earliest(PlacesIn(seen', "error"))].id
      BY DEF Places, PlacesIn, Earliest
    <3> QED BY <3>1, <3>2, <3>3, <3>4
  <2> QED BY <2>1, <2>4, <2>5, <2>6, <2>7, <2>8, <2>9, <2>10, <2>11 DEF ResultTellsTurn
<1>12. ResultTellsTurn'
  BY <1>11 DEF ResultTellsTurn
<1> QED BY <1>1, <1>2, <1>6, <1>7, <1>8, <1>9, <1>10, <1>12 DEF TrackerInv

LEMMA TrackerStep == TrackerInv /\ [TrackerNext]_trackerVars => TrackerInv'
<1> SUFFICES ASSUME TrackerInv, [TrackerNext]_trackerVars PROVE TrackerInv'
  OBVIOUS
<1>1. CASE UNCHANGED trackerVars
  <2>1. UNCHANGED <<adapter, messages, queue, names, deltas, finalText, structured, usage, errors, nameless,
                    turn, result, seen>>
    BY <1>1 DEF trackerVars, requestVars, eventVars
  <2>2. /\ UNCHANGED <<LastText, LastObject, LastUsage, NamelessInOrder>>
        /\ UNCHANGED <<Places("error"), Places("assistant_text_delta")>>
    BY <2>1 DEF LastText, LastObject, LastUsage, NamelessInOrder, Said, Places
  <2>3. ResultTellsTurn'
    BY <2>1, <2>2 DEF TrackerInv, ResultTellsTurn, TellsText, ObjectOf
  <2> QED BY <2>1, <2>3 DEF TrackerInv, TrackerOK
<1>2. ASSUME NEW n \in Notifications, Track(n) PROVE TrackerInv'
  BY <1>2, TrackStep
<1>3. CASE QueueError
  <2>1. [kind |-> "error", id |-> 2] \in Notifications
    BY DEF Notifications, ErrorNotifications
  <2> QED BY <2>1, <1>3, TrackStep DEF QueueError
<1>4. ASSUME NEW n \in Completions, Complete(n) PROVE TrackerInv'
  BY <1>4, CompleteStep
<1> QED BY <1>1, <1>2, <1>3, <1>4 DEF TrackerNext

\* For any number of notifications in any order and any number of tools: the result is that of
\* the whole turn, its text, object, usage, error and messages, as the tracker was told them.
THEOREM ResultIsOfTurn == TrackerSpec => []ResultTellsTurn
<1>1. TrackerInit => TrackerInv
  <2> SUFFICES ASSUME TrackerInit PROVE TrackerInv
    OBVIOUS
  <2>1. /\ messages = <<>> /\ queue = <<>> /\ deltas = <<>> /\ errors = <<>> /\ seen = <<>>
        /\ names = {} /\ nameless = {} /\ usage = 0 /\ finalText = <<>> /\ structured = None
        /\ turn = "running"
    BY DEF TrackerInit
  <2>2. TrackerOK
    BY <2>1, EmptySeq DEF TrackerOK
  <2>3. DOMAIN seen = {} /\ DOMAIN queue = {} /\ Len(deltas) = 0 /\ Len(messages) = 0
    BY <2>1
  <2>4. \A kind : PlacesIn(seen, kind) = {}
    BY <2>3 DEF PlacesIn
  <2>5. finalText = LastTextIn(seen) /\ structured = LastObjectIn(seen) /\ usage = LastUsageIn(seen)
    BY <2>1, <2>4 DEF LastTextIn, LastObjectIn, LastUsageIn, SaidIn
  <2>6. FirstErrorIs(seen, errors) /\ names = NamesIn(seen) /\ nameless = NamelessIn(seen)
    BY <2>1, <2>3, <2>4 DEF FirstErrorIs, NamesIn, NamelessIn
  <2>7. DeltasAre(seen, deltas) /\ Picks(messages, Whole(queue), queue)
    BY <2>3, <2>4, FS_EmptySet DEF DeltasAre, Whole, Picks
  <2> QED BY <2>1, <2>2, <2>5, <2>6, <2>7 DEF TrackerInv, ResultTellsTurn
<1>2. TrackerInv => ResultTellsTurn
  BY DEF TrackerInv
<1> QED BY <1>1, <1>2, TrackerStep, PTL DEF TrackerSpec

-----------------------------------------------------------------------------
(* OneShot *)

\* Whoever waits for the clean-up has begun it, and what cut it short.
CleanUpInv ==
  /\ at \in {"connect", "body"} <=> closer = "none"
  /\ at = "connect" \/ closer = "done" => ~alive
  /\ at = "close_after_all" => cancels >= 1 /\ owner # "query"
  /\ closer = "cut" => owner # "run" /\ cancels >= (IF owner = "query" THEN 1 ELSE 2)
  /\ at = "over" => closer \in {"done", "cut"} \/ owner = "run"

OneShotInv == OneShotTypeOK /\ CleanUpInv

LEMMA OneShotStep == OneShotInv /\ [OneShotNext]_oneShotVars => OneShotInv'
<1> SUFFICES ASSUME OneShotTypeOK, CleanUpInv, [OneShotNext]_oneShotVars
             PROVE  OneShotTypeOK' /\ CleanUpInv'
  BY DEF OneShotInv
<1> USE OneShotAssumption DEF oneShotVars, OneShotTypeOK, CleanUpInv, Closes
<1>1. CASE Connected \/ Engage \/ CleanUp
  BY <1>1 DEF Connected, Engage, CleanUp
<1>2. CASE EngineClosed \/ TransportClosed
  BY <1>2 DEF EngineClosed, TransportClosed
<1>3. CASE Cancel
  <2>1. CloserCancelled \/ UNCHANGED <<closer, alive>>
    BY <1>3 DEF Cancel
  <2>2. CASE UNCHANGED <<closer, alive>>
    BY <1>3, <2>2 DEF Cancel
  <2>3. CASE CloserCancelled
    <3>0. /\ at \in {"close", "close_after_all"} /\ cancels < MaxCancels
          /\ cancels' = cancels + 1 /\ owner' = owner /\ engaged' = engaged
      BY <1>3 DEF Cancel
    <3>a. CASE UNCHANGED <<closer, alive>>
      BY <2>2, <3>a
    <3>b. CASE closer = "engine" /\ closer' = "cut" /\ alive' = alive
      <4>1. CASE owner = "query" /\ at' = at
        BY <3>0, <3>b, <4>1
      <4>2. CASE owner = "managed" /\ at = "close_after_all" /\ at' = at
        BY <3>0, <3>b, <4>2
      <4>3. (owner = "query" \/ (owner = "managed" /\ at = "close_after_all")) /\ at' = at
        BY <1>3, <3>b DEF Cancel
      <4> QED BY <4>1, <4>2, <4>3
    <3>c. CASE closer = "transport" /\ closer' = "done" /\ alive' = FALSE
      <4>1. (owner = "query" \/ (owner = "managed" /\ at = "close_after_all")) /\ at' = at
        BY <1>3, <3>c DEF Cancel
      <4>2. ~alive' /\ closer' = "done" /\ owner' = owner /\ at' = at /\ engaged' = engaged
        BY <3>0, <3>c, <4>1
      <4>3. OneShotTypeOK'
        <5>1. alive' \in BOOLEAN
          BY <3>c
        <5> QED BY <3>0, <4>2, <5>1
      <4>4. cancels >= 0 /\ cancels' >= cancels
        BY <3>0
      <4>5. CleanUpInv'
        BY <3>0, <4>2, <4>4
      <4> QED BY <4>3, <4>5
    <3> QED BY <2>3, <3>a, <3>b, <3>c DEF CloserCancelled
  <2> QED BY <2>1, <2>2, <2>3
<1>4. CASE Over
  BY <1>4 DEF Over
<1>5. CASE Died
  BY <1>5 DEF Died
<1>6. CASE UNCHANGED oneShotVars
  BY <1>6
<1> QED BY <1>1, <1>2, <1>3, <1>4, <1>5, <1>6 DEF OneShotNext

\* For any number of cancellations: no owner of one call leaves a process that nobody will end,
\* but for those cancelled again while they clean up.
THEOREM OneShotLeavesNothing == OneShotSpec => []NothingLeft
<1>1. OneShotInit => OneShotInv
  <2> SUFFICES ASSUME OneShotInit PROVE OneShotTypeOK /\ CleanUpInv
    BY DEF OneShotInv
  <2>1. OneShotTypeOK
    <3>1. cancels \in 0..MaxCancels
      BY OneShotAssumption DEF OneShotInit
    <3>2. engaged \in BOOLEAN /\ alive \in BOOLEAN
      BY DEF OneShotInit
    <3>3. /\ owner \in {"query", "managed", "run"}
          /\ at = "connect" /\ closer = "none"
      BY DEF OneShotInit
    <3> QED BY <3>1, <3>2, <3>3 DEF OneShotTypeOK
  <2>2. CleanUpInv
    BY DEF OneShotInit, CleanUpInv
  <2> QED BY <2>1, <2>2
<1>2. OneShotInv => NothingLeft
  BY DEF OneShotInv, OneShotTypeOK, CleanUpInv, NothingLeft, Closes
<1> QED BY <1>1, <1>2, OneShotStep, PTL DEF OneShotSpec

-----------------------------------------------------------------------------
(* Interactions *)

\* As many indices as answers: no index is answered twice.
LEMMA AnswersInjective ==
  ASSUME NEW s \in Seq(Questions), Cardinality({q[1] : q \in ToSet(s)}) = Len(s)
  PROVE  \A i, j \in DOMAIN s : s[i][1] = s[j][1] => i = j
<1> DEFINE S == 1..Len(s)
           T == {q[1] : q \in ToSet(s)}
           f == [i \in S |-> s[i][1]]
<1>1. DOMAIN s = S /\ Len(s) \in Nat
  OBVIOUS
<1>2. f \in Surjection(S, T)
  <2>1. T = {s[i][1] : i \in S}
    BY <1>1 DEF ToSet
  <2>2. f \in [S -> T] /\ \A t \in T : \E i \in S : f[i] = t
    BY <2>1
  <2> QED BY <2>2 DEF Surjection
<1>3. IsFiniteSet(S) /\ Cardinality(S) = Len(s)
  <2>1. 1 \in Int /\ Len(s) \in Int
    BY <1>1
  <2>2. /\ IsFiniteSet(1..Len(s))
        /\ Cardinality(1..Len(s)) = IF 1 > Len(s) THEN 0 ELSE Len(s) - 1 + 1
    BY ONLY <2>1, FS_Interval
  <2>3. Cardinality(1..Len(s)) = Len(s)
    BY <1>1, <2>2
  <2> QED BY <2>2, <2>3
<1>4. f \in Injection(S, T)
  <2> HIDE DEF S, T, f
  <2> QED BY <1>2, <1>3, FS_Surjection DEF T
<1>5. \A i, j \in S : f[i] = f[j] => i = j
  <2> HIDE DEF S, T, f
  <2> QED BY <1>4 DEF Injection, IsInjective
<1> QED BY <1>1, <1>5

Safe(r, v) ==
  \/ v = Fallback(r.kind)
  \/ r.kind = "permission" /\ v.selected \in r.options /\ r.actions \cap Unsupported = {}
  \/ /\ r.kind = "question"
     /\ v.cancelled => v.answers = <<>>
     /\ \A i, j \in DOMAIN v.answers :
          v.answers[i] \in r.questions /\ (v.answers[i][1] = v.answers[j][1] => i = j)

LEMMA AcceptedIsSafe ==
  ASSUME NEW r \in Requests, NEW value, Accepted(r, value)
  PROVE  Safe(r, value)
<1>1. CASE value \in PermissionResponses /\ PermissionAccepted(r, value)
  <2>1. r.kind = "permission" /\ value.selected \in r.options /\ r.actions \subseteq Supported
    BY <1>1 DEF Accepted, Readable, PermissionAccepted
  <2>2. Supported \cap Unsupported = {}
    BY DEF Supported, Unsupported
  <2> QED BY <2>1, <2>2 DEF Safe
<1>2. CASE value \in QuestionResponses /\ AnswersAccepted(r, value)
  <2>1. /\ r.kind = "question" /\ (value.cancelled => value.answers = <<>>)
        /\ ToSet(value.answers) \subseteq r.questions
        /\ Cardinality({q[1] : q \in ToSet(value.answers)}) = Len(value.answers)
    BY <1>2 DEF AnswersAccepted
  <2>2. value.answers \in Seq(Questions)
    <3>1. value.answers \in SeqOf(Questions, MaxAnswers)
      BY <1>2 DEF QuestionResponses
    <3>2. PICK m \in 0..MaxAnswers : value.answers \in [1..m -> Questions]
      BY <3>1 DEF SeqOf
    <3>3. m \in Nat
      BY InteractionAssumption
    <3> HIDE DEF Questions
    <3> QED BY <3>2, <3>3
  <2>3. \A i, j \in DOMAIN value.answers : value.answers[i][1] = value.answers[j][1] => i = j
    BY <2>1, <2>2, AnswersInjective
  <2>4. \A i \in DOMAIN value.answers : value.answers[i] \in r.questions
    BY <2>1 DEF ToSet
  <2> QED BY <2>1, <2>3, <2>4 DEF Safe
<1> QED BY <1>1, <1>2 DEF Accepted

AskInv ==
  /\ asked \in [Asks -> Requests \cup {NoRequest}]
  /\ DOMAIN reply = Asks /\ DOMAIN wanted = Asks
  /\ \A a \in Asks : reply[a] # NoReply => Safe(wanted[a], reply[a])

LEMMA AskStep == AskInv /\ [AskNext]_askVars => AskInv'
<1> SUFFICES ASSUME AskInv, [AskNext]_askVars PROVE AskInv'
  OBVIOUS
<1> USE DEF askVars
<1>1. ASSUME NEW a \in Asks, NEW r \in Requests, AskArrives(a, r) PROVE AskInv'
  BY <1>1 DEF AskInv, AskArrives
<1>2. ASSUME NEW a \in Asks, NEW value \in Returned, HandlerReturns(a, value) \/ HandlerFails(a, value)
      PROVE  AskInv'
  <2>1. asked[a] \in Requests
    BY <1>2 DEF AskInv, HandlerReturns, HandlerFails
  <2>2. PICK v : Replies(a, v) /\ Safe(asked[a], v)
    BY <1>2, <2>1, AcceptedIsSafe DEF HandlerReturns, HandlerFails, Safe
  <2>3. /\ asked' = [asked EXCEPT ![a] = NoRequest]
        /\ DOMAIN reply' = Asks /\ DOMAIN wanted' = Asks
        /\ reply'[a] = v /\ wanted'[a] = asked[a]
        /\ \A b \in Asks : b # a => reply'[b] = reply[b] /\ wanted'[b] = wanted[b]
    BY <2>2 DEF Replies, AskInv
  <2>4. asked' \in [Asks -> Requests \cup {NoRequest}]
    BY <2>3 DEF AskInv
  <2>5. ASSUME NEW b \in Asks, reply'[b] # NoReply PROVE Safe(wanted'[b], reply'[b])
    BY <2>2, <2>3, <2>5 DEF AskInv
  <2> QED BY <2>3, <2>4, <2>5 DEF AskInv, Safe
<1>3. ASSUME NEW a \in Asks, AskCancelled(a) PROVE AskInv'
  BY <1>3 DEF AskInv, AskCancelled
<1>4. CASE SinkChanges \/ UNCHANGED askVars
  BY <1>4 DEF AskInv, SinkChanges
<1> QED BY <1>1, <1>2, <1>3, <1>4 DEF AskNext

\* For any number of requests and answers: whatever handlers return, the process is told what it
\* offered, the answers it asked for, each once, or the fallback.
THEOREM RepliesAreSafe == AskSpec => []ReplySafe
<1>1. AskInit => AskInv
  BY DEF AskInit, AskInv
<1>2. AskInv => ReplySafe
  BY DEF AskInv, ReplySafe, Safe
<1> QED BY <1>1, <1>2, AskStep, PTL DEF AskSpec
=============================================================================
