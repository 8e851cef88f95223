---------------------------- MODULE LocalBackends ----------------------------
(***************************************************************************)
(* The backends that look at files and processes. For each: which command  *)
(* lines its parser accepts and the condition it makes of them (Parse: a   *)
(* set with one condition, or none), what its Check finds wrong with a     *)
(* condition (Valid), and what a check answers (Check) when it observes w. *)
(* Values are reduced to the cases that the code tells apart; a target is  *)
(* "none" or "two" for a command line without exactly one argument.        *)
(***************************************************************************)
EXTENDS Integers, FiniteSets

Unset == -99

One(o) == o.target \notin {"none", "two"}

AtMostOne(S) == Cardinality(S) <= 1

When(ok, c) == IF ok THEN {c} ELSE {}

Verdict(ok) == IF ok THEN "satisfied" ELSE "unsatisfied"

(***************************************************************************)
(* file: w.stat at the stat, w.open at the open that reads the content     *)
(***************************************************************************)
ParseFile(o) ==
  When(One(o) /\ AtMostOne(o.states) /\ ~ ("deleted" \in o.states /\ o.contains),
       [target |-> o.target, contains |-> o.contains,
        state |-> IF o.states = {} THEN "exists" ELSE CHOOSE s \in o.states : TRUE])

ValidFile(c) == c.target # "empty" /\ ~ (c.state = "deleted" /\ c.contains)

CheckFile(c, w) ==
  IF c.state = "deleted" THEN Verdict(w.stat = "missing")
  ELSE IF w.stat \in {"missing", "denied"} THEN "unsatisfied"
  ELSE IF c.state = "nonempty" /\ w.stat = "empty" THEN "unsatisfied"
  ELSE IF ~ c.contains THEN "satisfied"
  ELSE IF w.stat = "dir" THEN "fatal"
  ELSE Verdict(w.open = "regular" /\ w.text = "within-limit")

(***************************************************************************)
(* glob                                                                    *)
(***************************************************************************)
(* Fault: the default minimum stays when nothing is to match. *)
GlobMinimumKept(o) == IF o.min = Unset THEN 1 ELSE o.min

GlobMinimum(o) == IF o.min # Unset THEN o.min ELSE IF o.absent THEN 0 ELSE 1

ParseGlob(o) ==
  LET min == GlobMinimum(o)
      max == IF o.max = Unset THEN -1 ELSE o.max
  IN When(/\ One(o)
          /\ ~ (o.absent /\ o.min \notin {Unset, 0})
          /\ min >= 0 /\ max >= -1 /\ (max >= 0 => min <= max),
          [target |-> o.target, min |-> min, max |-> max, absent |-> o.absent])

ValidGlob(c) ==
  /\ c.target \notin {"empty", "blank", "dirs/*/x"}
  /\ c.min >= 0 /\ c.max >= -1 /\ (c.max >= 0 => c.min <= c.max)
  /\ ~ (c.absent /\ c.min > 0)

MaxGlobDirectoryEntries == 100000

MaxGlobMatches == 10000

(* A path without wildcards is there or not; with them a directory is      *)
(* listed.                                                                 *)
GlobCount(c, w) ==
  IF c.target = "literal" /\ w.matching > 1 THEN 1 ELSE w.matching

GlobTooMany(c, w) ==
  /\ c.target # "literal"
  /\ w.names > MaxGlobDirectoryEntries \/ w.matching > MaxGlobMatches

(* A malformed pattern is noticed when there is a name to match it with,   *)
(* and every error ends the run, also one that may pass.                   *)
CheckGlob(c, w) ==
  IF w.dir = "denied" THEN "fatal"
  ELSE IF c.target = "dir/[" /\ w.names > 0 THEN "misconfigured"
  ELSE IF GlobTooMany(c, w) THEN "fatal"
  ELSE IF c.absent THEN Verdict(GlobCount(c, w) = 0)
  ELSE Verdict(GlobCount(c, w) >= c.min /\ (c.max >= 0 => GlobCount(c, w) <= c.max))

(***************************************************************************)
(* process, and pidfile: w.pid when the pid is looked up                   *)
(***************************************************************************)
ParseState(o) == IF "stopped" \in o.states THEN "stopped" ELSE "running"

ParseProcess(o) ==
  When(/\ o.target = "none" /\ AtMostOne(o.states)
       /\ o.pid >= 0
       /\ (o.pid = 0) # (o.label \in {"empty", "blank"}),
       [pid |-> o.pid, label |-> o.label, state |-> ParseState(o)])

ValidProcess(c) ==
  (c.pid <= 0) # (c.label \in {"empty", "blank"})

CheckFound(found, state) == Verdict(found = (state = "running"))

(* A pid whose owner is somebody else exists. *)
PIDExists(answer) == answer \in {"ours", "not-permitted"}

CheckProcess(c, w) ==
  IF c.pid > 0
  THEN IF w.pid = "error" THEN "unsatisfied" ELSE CheckFound(PIDExists(w.pid), c.state)
  ELSE CASE w.list = "no-ps" -> "fatal"
         [] w.list = "error" -> "unsatisfied"
         [] OTHER -> CheckFound(w.list = "named", c.state)

ParsePIDFile(o) ==
  When(One(o) /\ AtMostOne(o.states), [target |-> o.target, state |-> ParseState(o)])

ValidPIDFile(c) == c.target \notin {"empty", "blank"}

CheckPIDFileReadError(c, w) == Verdict(w.file = "missing" /\ c.state = "stopped")

CheckPIDFile(c, w) ==
  IF w.file # "pid" THEN CheckPIDFileReadError(c, w)
  ELSE IF w.pid = "error" THEN "unsatisfied"
  ELSE CheckFound(PIDExists(w.pid), c.state)

(***************************************************************************)
(* lockfile                                                                *)
(***************************************************************************)
ParseLockfile(o) ==
  LET present == "present" \in o.states \/ o.older # "unset" IN
  When(One(o) /\ ~ (present /\ "absent" \in o.states) /\ o.older # "bad",
       [target |-> o.target, state |-> IF present THEN "present" ELSE "absent",
        older |-> CASE o.older = "-1s" -> -1 [] o.older = "5s" -> 5 [] OTHER -> 0])

ValidLockfile(c) ==
  /\ c.target \notin {"empty", "blank"}
  /\ c.older >= 0 /\ (c.older > 0 => c.state = "present")

LockfileExists(c, w) == w.lstat = "exists" /\ (c.older > 0 => w.age >= c.older)

CheckLockfile(c, w) ==
  IF w.lstat = "denied" THEN "unsatisfied"
  ELSE IF c.state = "absent" THEN Verdict(w.lstat = "missing")
  ELSE Verdict(LockfileExists(c, w))

(***************************************************************************)
(* permission: a mode of 0 and a negative --uid are no requirement         *)
(***************************************************************************)
(* Of the two ways to name an owner or a group: <<accepted, id>>. *)
ParseOwner(id, text) ==
  IF id >= 0 THEN IF text = "unset" THEN <<TRUE, id>> ELSE <<FALSE, Unset>>
  ELSE CASE text = "unset" -> <<TRUE, Unset>>
         [] text = "root" -> <<FALSE, Unset>>
         [] OTHER -> <<TRUE, IF text = "1" THEN 1 ELSE -5>>

ParseMode(text) ==
  CASE text \in {"unset", "0000"} -> 0 [] text = "0644" -> 420 [] OTHER -> 1024

ParsePermission(o) ==
  LET owner == ParseOwner(o.uid, o.user)
      group == ParseOwner(o.gid, o.group)
  IN When(One(o) /\ o.mode # "rw" /\ owner[1] /\ group[1],
          [target |-> o.target, mode |-> ParseMode(o.mode), type |-> o.type,
           uid |-> owner[2], gid |-> group[2]])

ValidPermission(c) ==
  /\ c.target \notin {"empty", "blank"}
  /\ c.type \in {"any", "file", "dir", "symlink"}
  /\ ~ (c.mode = 0 /\ c.uid = Unset /\ c.gid = Unset /\ c.type = "any")
  /\ c.mode < 512

PermissionsFit(c, w) ==
  /\ c.type = "any" \/ c.type = w.type
  /\ c.mode = 0 \/ c.mode = w.mode
  /\ c.uid = Unset \/ c.uid = w.uid
  /\ c.gid = Unset \/ c.gid = w.gid

CheckPermission(c, w) == Verdict(w.lstat = "exists" /\ PermissionsFit(c, w))

(***************************************************************************)
(* checksum: expected has a prefix, a length in hex digits, and is hex     *)
(***************************************************************************)
HexLength(a) ==
  CASE a = "sha1" -> 40 [] a = "sha256" -> 64 [] a = "sha512" -> 128 [] OTHER -> 0

Algorithms == {"sha1", "sha256", "sha512"}

ParseChecksum(o) ==
  When(One(o), [target |-> o.target, algorithm |-> o.algorithm, expected |-> o.equals])

(* The algorithm by prefix, flag or length; none if these do not give one. *)
ResolvedChecksum(c) ==
  IF c.expected.prefix # "unset"
  THEN IF c.algorithm \in {"auto", c.expected.prefix} THEN c.expected.prefix ELSE "none"
  ELSE IF c.algorithm # "auto" THEN c.algorithm
  ELSE IF c.expected.digits \in {40, 64, 128}
  THEN CHOOSE a \in Algorithms : HexLength(a) = c.expected.digits
  ELSE "none"

ValidChecksum(c) ==
  /\ c.target \notin {"empty", "blank"}
  /\ ResolvedChecksum(c) \in Algorithms
  /\ c.expected.hex
  /\ c.expected.digits = HexLength(ResolvedChecksum(c))

FileChecksumIs(algorithm, w) == w.open = "regular" /\ w.digestOf = algorithm

CheckChecksum(c, w) == Verdict(FileChecksumIs(ResolvedChecksum(c), w))

(***************************************************************************)
(* archive: a member or a pattern; blank text is neither and yet text      *)
(***************************************************************************)
ParseArchive(o) ==
  When(One(o), [target |-> o.target, member |-> o.member, matches |-> o.matches,
                format |-> o.format])

ValidArchive(c) ==
  /\ c.target \notin {"empty", "blank"}
  /\ (c.member = "m") # (c.matches \in {"m*", "["})
  /\ c.format \in {"auto", "tar", "tgz", "zip"}
  /\ c.matches # "["

ResolveArchiveFormat(c) ==
  IF c.format # "auto" THEN c.format
  ELSE CASE c.target = "a.zip" -> "zip" [] c.target = "a.tgz" -> "tgz" [] OTHER -> "tar"

(* Members are looked at until one matches or the scan limit is passed. *)
ArchiveContains(c, w) ==
  /\ w.open = "regular"
  /\ ResolveArchiveFormat(c) = w.archive
  /\ c.member # "blank"
  /\ w.member = "within-limit"

CheckArchive(c, w) == Verdict(ArchiveContains(c, w))
=============================================================================
