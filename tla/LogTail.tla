------------------------------ MODULE LogTail ------------------------------
(***************************************************************************)
(* internal/condition/log.go: LogCondition follows a log file by offset,   *)
(* counts matching lines across polls, and starts over when the file was   *)
(* rotated. The other process writes, truncates, removes and replaces the  *)
(* file between two checks or between the system calls of one.             *)
(*                                                                         *)
(* A byte is "a", "b" or "n" (newline); the matchers together accept the   *)
(* lines that contain "ab". Names are reduced to the one path, the rest of *)
(* os.FileInfo to the inode and the size.                                  *)
(***************************************************************************)
EXTENDS Naturals, Sequences, FiniteSets

CONSTANTS
  Inodes,       (* inode numbers of the file system                         *)
  NoFile,       (* nothing at the path, or no FileInfo yet                  *)
  InitialData,  (* what may already be in the file when waiting starts      *)
  Writes,       (* what one write of the logging process may append         *)
  Starts,       (* the ways to start: "end", "start" or "tail"              *)
  TailLines,    (* --tail N                                                 *)
  MinMatches,   (* --min-matches                                            *)
  MaxScan,      (* maxLogScanBytes                                          *)
  MaxTailScan,  (* maxTailScanBytes                                         *)
  MaxSize,      (* bound: bytes in one file                                 *)
  MaxOps        (* bound: events outside the backend                        *)

Bytes == {"a", "b", "n"}

(* validateLogConfig, and what the logging process may write. *)
ASSUME LogAssumption ==
  /\ NoFile \notin Inodes \cup [ino : Inodes, size : 0..MaxSize]
  /\ Starts \subseteq {"end", "start", "tail"}   (* one of them at a time *)
  /\ TailLines \in Nat \ {0}
  /\ MinMatches \in Nat \ {0}
  /\ MaxScan \in Nat \ {0}
  /\ MaxTailScan \in Nat \ {0}
  /\ MaxSize \in Nat /\ MaxOps \in Nat
  /\ Writes \subseteq Seq(Bytes)
  /\ \A d \in InitialData : d \in Seq(Bytes) /\ Len(d) <= MaxSize

VARIABLES
  files,        (* contents of every inode                                  *)
  path,         (* the inode at the path, or NoFile                         *)
  gen,          (* history: how often the file at the path was replaced     *)
  ops,          (* history: events so far, bounded by MaxOps                *)
  start,        (* LogCondition.FromStart and Tail                          *)
  phase,        (* "idle", or what comes next: "tail", "open" or "read"     *)
  info,         (* what os.Stat returned to the check under way             *)
  handle,       (* the inode of the open file                               *)
  offset,       (* LogCondition.offset                                      *)
  prevInfo,     (* LogCondition.prevInfo                                    *)
  initialized,  (* LogCondition.initialized                                 *)
  missingInit,  (* LogCondition.missingInit                                 *)
  matchCount,   (* LogCondition.matchCount                                  *)
  result,       (* status and completeness of the last check                *)
  base,         (* history: where the present file is followed from         *)
  seenGen,      (* history: gen at the last stat                            *)
  blind,        (* history: a replacement the backend has not noticed       *)
  missed        (* history: a check found no file and none was read since   *)

disk == <<files, path, gen>>
state == <<offset, prevInfo, initialized, missingInit, matchCount>>
history == <<base, seenGen, blind>>
check == <<phase, info, handle>>
vars == <<disk, ops, start, check, state, result, history, missed>>

TypeOK ==
  /\ files \in [Inodes -> Seq(Bytes)]
  /\ \A i \in Inodes : Len(files[i]) <= MaxSize
  /\ path \in Inodes \cup {NoFile}
  /\ ops \in 0..MaxOps
  /\ start \in Starts
  /\ phase \in {"idle", "tail", "open", "read"}
  /\ info \in [ino : Inodes, size : 0..MaxSize] \cup {NoFile}
  /\ handle \in Inodes \cup {NoFile}
  /\ offset \in 0..MaxSize
  /\ prevInfo \in [ino : Inodes, size : 0..MaxSize] \cup {NoFile}
  /\ initialized \in BOOLEAN
  /\ missingInit \in BOOLEAN
  /\ matchCount \in Nat
  /\ result \in [status : {"none", "satisfied", "unsatisfied"}, complete : BOOLEAN]
  /\ base \in 0..MaxSize
  /\ gen \in Nat /\ seenGen \in Nat
  /\ blind \in BOOLEAN /\ missed \in BOOLEAN

Init ==
  /\ path \in Inodes \cup {NoFile}
  /\ files \in [Inodes -> InitialData]
  /\ \A i \in Inodes \ {path} : files[i] = <<>>
  /\ gen = 0
  /\ ops = 0
  /\ start \in Starts
  /\ phase = "idle"
  /\ info = NoFile
  /\ handle = NoFile
  /\ offset = 0
  /\ prevInfo = NoFile
  /\ initialized = FALSE
  /\ missingInit = FALSE
  /\ matchCount = 0
  /\ result = [status |-> "none", complete |-> FALSE]
  /\ base = 0
  /\ seenGen = 0
  /\ blind = FALSE /\ missed = FALSE
-----------------------------------------------------------------------------
(* Lines.                                                                  *)

From(data, k) == SubSeq(data, k + 1, Len(data))

Newlines(data) == {i \in DOMAIN data : data[i] = "n"}

(* scanLogLines over data: the last line need not end in a newline. Lines  *)
(* are numbered by the newlines before them.                               *)
Hits(data) == {i \in 1..Len(data) - 1 : data[i] = "a" /\ data[i + 1] = "b"}
Matches(data) ==
  Cardinality({Cardinality({j \in Newlines(data) : j < i}) : i \in Hits(data)})

Lines(data) ==
  Cardinality(Newlines(data))
    + (IF data = <<>> \/ data[Len(data)] = "n" THEN 0 ELSE 1)

(* Fault: the newline that ends the data counts as a line of its own. *)
FindTailStartCountsLast(data, first, n) ==
  LET cuts == {p \in Newlines(data) : Cardinality({q \in Newlines(data) : q >= p}) = n}
  IN  IF cuts = {} THEN first ELSE first + (CHOOSE p \in cuts : TRUE)

(* findTailStart: behind the n-th newline from the end, the one that ends  *)
(* the data not counted; "first" is the offset of data in the file.        *)
FindTailStart(data, first, n) ==
  LET ends == Newlines(data) \ {Len(data)}
      cuts == {p \in ends : Cardinality({q \in ends : q >= p}) = n}
  IN  IF cuts = {} THEN first ELSE first + (CHOOSE p \in cuts : TRUE)

(* computeTailOffset: MaxTailScan bytes are looked at, up to the size the  *)
(* file had at os.Stat or has now, and beyond it if there is room.         *)
ComputeTailOffset(data, size) ==
  LET end      == IF Len(data) < size THEN Len(data) ELSE size
      readFrom == IF end > MaxTailScan THEN end - MaxTailScan ELSE 0
      readTo   == IF readFrom + MaxTailScan < Len(data) THEN readFrom + MaxTailScan ELSE Len(data)
  IN  FindTailStart(SubSeq(data, readFrom + 1, readTo), readFrom, TailLines)
-----------------------------------------------------------------------------
(* The process that writes the log.                                        *)

MayAct ==
  /\ ops < MaxOps
  /\ ops' = ops + 1
  /\ UNCHANGED <<start, check, state, result, missed>>

(* The file at the path became another one. The history follows the file,  *)
(* not what the backend knows; a check under way has not noticed.          *)
Replaced ==
  /\ gen' = gen + 1
  /\ base' = 0
  /\ blind' = (blind \/ phase # "idle")
  /\ UNCHANGED seenGen

WriteLog(data) ==
  /\ MayAct
  /\ path # NoFile
  /\ Len(files[path]) + Len(data) <= MaxSize
  /\ files' = [files EXCEPT ![path] = @ \o data]
  /\ UNCHANGED <<path, gen, history>>

(* copytruncate: the inode stays. *)
TruncateLog ==
  /\ MayAct
  /\ path # NoFile
  /\ files[path] # <<>>
  /\ files' = [files EXCEPT ![path] = <<>>]
  /\ Replaced
  /\ UNCHANGED path

(* The file is renamed or removed; an open handle goes on reading it. *)
RemoveLog ==
  /\ MayAct
  /\ path # NoFile
  /\ path' = NoFile
  /\ Replaced
  /\ UNCHANGED files

(* A new file, on an inode nobody has open; it may be the last file's. *)
CreateLog(i) ==
  /\ MayAct
  /\ path = NoFile
  /\ i # handle
  /\ path' = i
  /\ files' = [files EXCEPT ![i] = <<>>]
  /\ Replaced
-----------------------------------------------------------------------------
(* LogCondition.Check.                                                     *)

(* The check ends here: nothing stays open. *)
Return(status, complete) ==
  /\ phase' = "idle"
  /\ info' = NoFile
  /\ handle' = NoFile
  /\ result' = [status |-> status, complete |-> complete]

(* os.Stat finds nothing. *)
StatMissing ==
  /\ phase = "idle"
  /\ path = NoFile
  /\ missingInit' = (missingInit \/ ~ initialized)
  /\ missed' = TRUE
  /\ Return("unsatisfied", FALSE)
  /\ UNCHANGED <<disk, ops, start, offset, prevInfo, initialized, matchCount, history>>

(* A replacement the code has no means to tell from growth: the same inode,*)
(* and at least as long as what was read of the old file.                  *)
LooksUnchanged(now) ==
  /\ prevInfo # NoFile
  /\ prevInfo.ino = now.ino
  /\ now.size >= offset

(* Fault: only the inode tells a new file. *)
RotatedByInode(now) ==
  /\ prevInfo # NoFile
  /\ prevInfo.ino # now.ino

(* resetOnRotation's condition. *)
Rotated(now) ==
  /\ prevInfo # NoFile
  /\ prevInfo.ino # now.ino \/ now.size < offset

(* Fault: a file that appeared while waiting is treated like one that was  *)
(* there from the start.                                                   *)
ReadsAllForgetsMissing == start = "start"

(* initOffset: the cases in which it sets the offset to zero. *)
ReadsAll == missingInit \/ start = "start"

(* os.Stat, resetOnRotation and, the first time, initOffset; for the tail  *)
(* of a file that is not empty that is a step of its own. missingInit is   *)
(* cleared by a rotation and by the first initOffset that looks at it; it  *)
(* can only be set before that.                                            *)
StatFile ==
  LET now   == [ino |-> path, size |-> Len(files[path])]
      first == ~ initialized /\ ~ Rotated(now)
      tail  == first /\ ~ ReadsAll /\ start = "tail" /\ now.size > 0
  IN  /\ phase = "idle"
      /\ path # NoFile
      /\ info' = now
      /\ offset' = IF Rotated(now) \/ (first /\ ReadsAll) THEN 0
                   ELSE IF first /\ ~ tail THEN now.size ELSE offset
      /\ matchCount' = IF Rotated(now) THEN 0 ELSE matchCount
      /\ missingInit' = FALSE
      /\ initialized' = ~ tail
      /\ prevInfo' = IF tail THEN prevInfo ELSE now
      /\ phase' = IF tail THEN "tail" ELSE "open"
      /\ base' = IF first THEN offset' ELSE base
      /\ seenGen' = gen
      /\ blind' = (LooksUnchanged(now) /\ (blind \/ gen # seenGen))
      /\ UNCHANGED <<disk, ops, start, handle, result, missed>>

(* computeTailOffset opens the file once more; if it is gone the check     *)
(* fails and the next one starts afresh.                                   *)
InitTail ==
  /\ phase = "tail"
  /\ IF path = NoFile
     THEN /\ Return("unsatisfied", FALSE)
          /\ UNCHANGED <<state, history>>
     ELSE /\ offset' = ComputeTailOffset(files[path], info.size)
          /\ initialized' = TRUE
          /\ prevInfo' = info
          /\ phase' = "open"
          /\ base' = IF seenGen = gen THEN offset' ELSE 0
          /\ UNCHANGED <<info, handle, missingInit, matchCount, result, seenGen, blind>>
  /\ UNCHANGED <<disk, ops, start, missed>>

(* openRegularFile and the comparison of the opened file's size. *)
OpenFile ==
  /\ phase = "open"
  /\ IF path = NoFile
     THEN /\ Return("unsatisfied", FALSE)
          /\ UNCHANGED offset
     ELSE /\ phase' = "read"
          /\ handle' = path
          /\ offset' = IF Len(files[path]) < offset THEN 0 ELSE offset
          /\ UNCHANGED <<info, result>>
  /\ UNCHANGED <<disk, ops, start, prevInfo, initialized, missingInit, matchCount, history, missed>>

Chunk == From(files[handle], offset)

Satisfies(count) ==
  IF count >= MinMatches /\ Matches(Chunk) > 0 THEN "satisfied" ELSE "unsatisfied"

(* Fault: what was read is read again by the next check. *)
ScanFileStays ==
  /\ phase = "read" /\ missed' = FALSE
  /\ matchCount' = matchCount + Matches(Chunk)
  /\ Return(Satisfies(matchCount'), TRUE)
  /\ UNCHANGED <<disk, ops, start, offset, prevInfo, initialized, missingInit, history>>

(* Fault: the length is added to an offset that has already moved. *)
ScanFileMovesTwice ==
  /\ phase = "read" /\ missed' = FALSE
  /\ offset' = offset + 2 * Len(Chunk)
  /\ matchCount' = matchCount + Matches(Chunk)
  /\ Return(Satisfies(matchCount'), TRUE)
  /\ UNCHANGED <<disk, ops, start, prevInfo, initialized, missingInit, history>>

(* The read of everything behind the offset and scanLines: too much data   *)
(* is an error and nothing is committed.                                   *)
ScanFile ==
  /\ phase = "read"
  /\ IF Len(Chunk) > MaxScan
     THEN /\ Return("unsatisfied", FALSE)
          /\ UNCHANGED <<offset, matchCount, missed>>
     ELSE /\ offset' = offset + Len(Chunk)
          /\ missed' = FALSE
          /\ matchCount' = matchCount + Matches(Chunk)
          /\ Return(Satisfies(matchCount'), TRUE)
  /\ UNCHANGED <<disk, ops, start, prevInfo, initialized, missingInit, history>>

(* The context ends while lines are scanned: nothing is committed either. *)
ScanCancelled ==
  /\ phase = "read"
  /\ ops < MaxOps
  /\ Chunk # <<>>
  /\ ops' = ops + 1
  /\ Return("unsatisfied", FALSE)
  /\ UNCHANGED <<disk, start, state, history, missed>>

Check == StatMissing \/ StatFile \/ InitTail \/ OpenFile \/ ScanFile

Next ==
  \/ \E data \in Writes : WriteLog(data)
  \/ TruncateLog
  \/ RemoveLog
  \/ \E i \in Inodes : CreateLog(i)
  \/ Check
  \/ ScanCancelled

(* The runner goes on polling; attempts are not cut short for ever. *)
Fairness == WF_vars(Check)

Spec == Init /\ [][Next]_vars /\ Fairness
-----------------------------------------------------------------------------
(* Properties.                                                             *)

(* Between two checks, with nothing replaced since the last one. *)
Following == phase = "idle" /\ initialized /\ seenGen = gen /\ ~ blind

(* Between two checks of one file the count is what a single scan of       *)
(* everything followed so far would find: no line is lost or counted twice *)
(* by polls, appends under a check, cancelled scans or rotations, as long  *)
(* as lines are written whole and no replacement happened under a check or *)
(* looked like growth (resetOnRotation); the next one that can be told     *)
(* from growth makes up for those.                                         *)
CountExact ==
  Following =>
    /\ offset \in base..Len(files[path])
    /\ matchCount = Matches(SubSeq(files[path], base + 1, offset))

(* What --tail asks for lies in the bytes that are looked at: TailLines    *)
(* lines begin in the last MaxTailScan bytes, or there are no more bytes.  *)
Begins(data) == {i \in 1..Len(data) : i = 1 \/ data[i - 1] = "n"}

InReach(data) ==
  \/ Len(data) <= MaxTailScan
  \/ Cardinality({i \in Begins(data) : i > Len(data) - MaxTailScan}) >= TailLines

(* The first scan of a file that was there from the start begins with a    *)
(* whole line and shows exactly its last TailLines lines, or all of them   *)
(* if there are fewer, unless the file changes while the start is looked   *)
(* for (initOffset, computeTailOffset, findTailStart).                     *)
TailStart ==
  [][ InitTail /\ initialized' /\ Len(files[path]) = info.size /\ InReach(files[path]) =>
        LET data == files[path] IN
        /\ offset' = 0 \/ data[offset'] = "n"
        /\ Lines(From(data, offset')) = IF Lines(data) < TailLines THEN Lines(data) ELSE TailLines
    ]_vars

(* Once a check has found no file, the next scan starts at the first byte, *)
(* whatever --tail says and however often the file comes and goes before   *)
(* one succeeds (missingInit, resetOnRotation): docs/SPEC.md, "Offset      *)
(* tracking". Exception: a file that looks like the one before, grown.     *)
AppearedIsReadInFull ==
  (missed /\ phase = "read" /\ ~ blind) => offset = 0

(* Once the log is left alone the backend has read all of it, unless there *)
(* is more behind the offset than one scan may read.                       *)
CatchesUp ==
  <>[](path # NoFile =>
         /\ initialized
         /\ \/ offset = Len(files[path])
            \/ Len(files[path]) - offset > MaxScan)

(* docs/SPEC.md, "Offset tracking": "Subsequent checks read up to 10 MiB   *)
(* of new content from the saved offset and advance it to the end of what  *)
(* was read", so that a check after another gets to the end of any log.    *)
CatchesUpAtLength ==
  <>[](path # NoFile => initialized /\ offset = Len(files[path]))

(* docs/SPEC.md, "Line matching": for each new line, one that passes the   *)
(* checks increments the count. A line that a poll finds half written is   *)
(* matched in two pieces.                                                  *)
EveryLineCounted ==
  Following /\ result.complete /\ files[path] # <<>> /\ offset = Len(files[path])
       /\ files[path][offset] = "n" =>
    matchCount = Matches(From(files[path], base))
=============================================================================
