---------------------------- MODULE Attachments ----------------------------
(***************************************************************************)
(* Image.from_path() and Document.from_path(): a file is read while another *)
(* program may write it, or put another file in its place.  A file is a     *)
(* sequence of blocks, each written at some version; the time of its last   *)
(* change is that of a clock which may stand still between two writes.      *)
(***************************************************************************)
EXTENDS Naturals, Sequences

CONSTANTS MaxBlocks,     \* bound on the size of a file: one more than the limit
          MaxWrites      \* bound on the writes of the other program, and on the clock

ASSUME AttachmentAssumption == MaxBlocks \in Nat \ {0} /\ MaxWrites \in Nat

Limit == MaxBlocks - 1       \* MAX_ATTACHMENT_BYTES
Inodes == {1, 2}
NoStat == [ino |-> 0, size |-> 0, mtime |-> 0]

VARIABLES
  path,      \* the inode the path names (0: none)
  content,   \* blocks of each inode
  mtime,     \* time of the last change of each
  clock, writes,
  step,      \* the next system call of the reader, or how it ended
  stat,      \* path_stat, then `before'
  handle,    \* the inode it has open
  data,      \* blocks read
  contents,  \* contents of the open file since it was opened (history)
  untold     \* a write of it left size and mtime as they were (history)

fileVars   == <<path, content, mtime, clock, writes>>
readerVars == <<step, stat, handle, data>>
attachmentVars == <<fileVars, readerVars, contents, untold>>

Reading == {"stat", "open", "fstat", "read", "fstat_again"}

AttachmentTypeOK ==
  /\ path \in Inodes \cup {0} /\ handle \in Inodes \cup {0}
  /\ \A i \in Inodes : Len(content[i]) \in 0..MaxBlocks
  /\ step \in Reading \cup {"returned", "raised"}

AttachmentInit ==
  /\ path = 1
  /\ \E n \in 0..MaxBlocks : content = [i \in Inodes |-> [b \in 1..n |-> 0]]
  /\ mtime = [i \in Inodes |-> 0] /\ clock = 0 /\ writes = 0
  /\ step = "stat" /\ stat = NoStat /\ handle = 0 /\ data = <<>>
  /\ contents = {} /\ untold = FALSE

-----------------------------------------------------------------------------
(* _read_regular_file() *)

StatOf(i) == [ino |-> i, size |-> Len(content[i]), mtime |-> mtime[i]]

Raises == step' = "raised"
Proceeds(to) == step' = to

\* path.stat()
Stat ==
  /\ step = "stat"
  /\ IF path = 0 THEN Raises /\ UNCHANGED stat
     ELSE /\ stat' = StatOf(path)
          /\ IF stat'.size > Limit THEN Raises ELSE Proceeds("open")
  /\ UNCHANGED <<fileVars, handle, data, contents, untold>>

Open ==
  /\ step = "open"
  /\ IF path = 0 THEN Raises /\ UNCHANGED <<handle, contents>>
     ELSE Proceeds("fstat") /\ handle' = path /\ contents' = {content[path]}
  /\ UNCHANGED <<fileVars, stat, data, untold>>

\* The file that was opened must be the one that was looked at.
StatOpened ==
  /\ step = "fstat"
  /\ IF StatOf(handle) # stat THEN Raises ELSE Proceeds("read")
  /\ UNCHANGED <<fileVars, stat, handle, data, contents, untold>>

\* read(limit + 1): block by block, to the end of the file or past the limit.
ReadBlock ==
  /\ step = "read"
  /\ IF Len(data) < Len(content[handle]) /\ Len(data) < Limit + 1
       THEN data' = Append(data, content[handle][Len(data) + 1]) /\ UNCHANGED step
       ELSE Proceeds("fstat_again") /\ UNCHANGED data
  /\ UNCHANGED <<fileVars, stat, handle, contents, untold>>

\* Fault: only the size is compared again.
FaultStatAgain ==
  /\ step = "fstat_again"
  /\ IF Len(data) > Limit \/ Len(data) # Len(content[handle]) THEN Raises ELSE Proceeds("returned")
  /\ UNCHANGED <<fileVars, stat, handle, data, contents, untold>>

StatAgain ==
  /\ step = "fstat_again"
  /\ IF \/ Len(data) > Limit \/ Len(data) # Len(content[handle])
        \/ StatOf(handle) # stat
       THEN Raises ELSE Proceeds("returned")
  /\ UNCHANGED <<fileVars, stat, handle, data, contents, untold>>

-----------------------------------------------------------------------------
(* The other program *)

Written(i, blocks) ==
  /\ content' = [content EXCEPT ![i] = blocks]
  /\ mtime' = [mtime EXCEPT ![i] = clock]
  /\ contents' = IF handle = i THEN contents \cup {blocks} ELSE contents
  /\ untold' = (untold \/ (stat.ino = i /\ mtime[i] = clock))

\* It writes a block in place or behind the last, or cuts the file.
Write ==
  /\ writes < MaxWrites /\ writes' = writes + 1
  /\ \E i \in Inodes :
       \/ \E b \in 1..Len(content[i]) : Written(i, [content[i] EXCEPT ![b] = writes'])
       \/ Len(content[i]) < MaxBlocks /\ Written(i, Append(content[i], writes'))
       \/ Written(i, <<>>)
  /\ UNCHANGED <<path, clock, readerVars>>

\* It renames another file onto the path, or removes it.
Rename ==
  /\ writes < MaxWrites /\ writes' = writes + 1
  /\ path' \in (Inodes \cup {0}) \ {path}
  /\ UNCHANGED <<content, mtime, clock, readerVars, contents, untold>>

Tick ==
  /\ clock < MaxWrites
  /\ clock' = clock + 1
  /\ UNCHANGED <<path, content, mtime, writes, readerVars, contents, untold>>

AttachmentNext ==
  \/ Stat \/ Open \/ StatOpened \/ ReadBlock \/ StatAgain
  \/ Write \/ Rename \/ Tick

AttachmentSpec == AttachmentInit /\ [][AttachmentNext]_attachmentVars

-----------------------------------------------------------------------------
\* What is returned is a content the file had at one moment, within the limit, never
\* a mixture of two: unless a write in the same tick of the clock as the last one
\* left the time of its change as it was.
ReadIsSnapshot ==
  step = "returned" /\ ~untold => data \in contents /\ Len(data) <= Limit
=============================================================================
