------------------------------ MODULE Promises ------------------------------
(***************************************************************************)
(* What a command line asks for, said of the command line and the world    *)
(* alone: the columns "Satisfied when" and "Meaning" of SPEC.md. The way   *)
(* through a parsed condition and its check is not used here.              *)
(***************************************************************************)
EXTENDS NetworkBackends, ProtocolBackends, CommandBackends

Codes(status) ==
  CASE status = "2xx" -> 200..299 [] status = "404" -> {404} [] status = "204" -> {204}
    [] status = "103" -> {103}    [] OTHER -> {200}

HTTPHeadersGiven(o) ==
  HTTPHeaderNames(o.headers)
    \cup (IF o.bearer # "unset" \/ o.user THEN {"Authorization"} ELSE {})

(* The headers go to the origin of the URL, the credentials only as long   *)
(* as no other host was led to.                                            *)
HTTPAnswer(o, w) ==
  LET back == w.hops[Len(w.hops)] = "first"
      near == \A i \in DOMAIN w.hops : w.hops[i] \in {"first", "other-port"}
  IN IF w.hops = <<>> THEN w.status
     ELSE IF o.stay THEN 302
     ELSE IF \A h \in w.wants : /\ back /\ h \in HTTPHeadersGiven(o)
                                /\ h = "Authorization" => near
     THEN w.status ELSE 401

HTTPPromise(o, w) ==
  /\ w.link = "answers" \/ (w.link = "untrusted" /\ o.insecure)
  /\ HTTPAnswer(o, w) \in Codes(o.status)
  /\ IF o.method = "HEAD" \/ HTTPAnswer(o, w) \in {204, 304}
     THEN o.contains = "unset" /\ o.matches \in {"unset", ".*"} /\ o.json = "unset"
     ELSE /\ o.contains # "unset" => "contains" \in w.has
          /\ o.matches \notin {"unset", ".*"} => "matches" \in w.has
          /\ o.json # "unset" => "json" \in w.has
          /\ \/ w.body = "ok"
             \/ /\ w.body = "too-large"
                /\ o.contains = "unset" /\ o.matches = "unset" /\ o.json = "unset"

(* After the handshake a pong, if asked for; then either the close frame,  *)
(* and with it no text but the empty one, or the first text.               *)
WebSocketPromise(o, w) ==
  /\ w.link = "switches" /\ (o.ping => w.pong)
  /\ o.close >= 0 => w.closed = o.close
  /\ o.contains \/ o.matches \notin {"unset", ".*"} => o.close < 0 /\ w.text = "marked"
  /\ o.matches = ".*" /\ w.text = "none" => o.close >= 0

(* All ports, or any, open when their turn came and before the deadline.   *)
PortsPromise(o, w) ==
  LET range == o.range[1]..o.range[2] IN
  IF o.any THEN \E p \in range : p \in w.opened /\ p < w.deadline
           ELSE \A p \in range : p \in w.opened /\ p < w.deadline

(* The certificate is trusted, names the server, and holds from now until  *)
(* the end of the time asked for.                                          *)
TLSPromise(o, w) ==
  LET need == IF ValidForDays(o.validFor) = Unset THEN 0 ELSE ValidForDays(o.validFor) IN
  /\ w.issuer \in {"system"} \cup (IF o.ca = "pem" THEN {"ca"} ELSE {})
  /\ (IF o.name = "unset" THEN "h" ELSE o.name) \in w.names
  /\ \A day \in {w.day, w.day + need} : w.from <= day /\ day <= w.until

SSHPromise(o, w) ==
  /\ w.dial = "connected"
  /\ o.user => w.admits
  /\ o.key # "unset" => w.key = o.key
  /\ ~ o.user => w.line # 0 /\ w.line <= BannerLines
  /\ o.banner # "unset" => w.marked /\ o.banner # "two-lines"

S3Promise(o, w) ==
  /\ w.served = (IF o.endpoint = "unset" THEN "aws"
                 ELSE IF o.virtual THEN "bucket.endpoint" ELSE "endpoint/bucket")
  /\ o.access \/ w.public
  /\ o.target = "object" => w.object # "missing"
  /\ o.contains => w.object \in {"marked", "too-large"}
  /\ o.metadata # "none" => w.metadata

(* A name and the aliases an answer gives for it, directly or through      *)
(* another alias: what is in every set that has the name and the alias of  *)
(* each name it has.                                                       *)
Aliases(answer, name) ==
  LET names == {name} \cup {r.value : r \in answer}
      Follows(S) == \A r \in answer : r.type = "CNAME" /\ r.owner \in S => r.value \in S
  IN {n \in names : \A S \in SUBSET names : name \in S /\ Follows(S) => n \in S}

(* A record counts if it has the type asked for and is about the name      *)
(* asked for or an alias of it.                                            *)
DNSAnswers(o, w) ==
  LET answer == IF w.truncated /\ o.resolver = "wire" /\ ~ o.tcp THEN w.overTCP ELSE w.records
  IN {r \in answer :
        /\ o.type = "ANY" \/ r.type = o.type
        /\ (o.resolver = "system" /\ o.type = "ANY") => r.type \in {"A", "AAAA"}
        /\ r.owner \in Aliases(answer, o.target)}

DNSAbsence(o, w) ==
  IF o.resolver = "system" THEN DNSAnswers(o, w) = {}
  ELSE CASE o.mode = "nxdomain" -> w.rcode = "NXDOMAIN"
         [] o.mode = "nodata" -> w.rcode = "NOERROR" /\ DNSAnswers(o, w) = {}
         [] OTHER -> w.rcode = "NXDOMAIN" \/ DNSAnswers(o, w) = {}

DNSPromise(o, w) ==
  LET found == DNSAnswers(o, w)
      only == ~ o.contains /\ o.equals = {} /\ o.min = 0
  IN \/ w.link = "not-found" /\ o.resolver = "system" /\ o.absent
     \/ /\ w.link = "answers"
        /\ o.resolver = "wire" => w.echoes
        /\ o.rcode # "unset" => w.rcode = o.rcode
        /\ IF o.absent THEN DNSAbsence(o, w)
           ELSE \/ o.rcode # "unset" /\ only
                \/ /\ found # {} /\ Cardinality(found) >= o.min
                   /\ o.contains => \E r \in found : r.marked
                   /\ \A v \in o.equals : \E r \in found : r.value = v

NTPPromise(o, w) ==
  /\ w.link = "answers" /\ w.header = "good"
  /\ o.maxOffset = "5s" => Abs(w.ahead) <= 5

GRPCPromise(o, w) ==
  /\ w.listens = (IF o.tls \/ o.target \in {"grpcs://h:1", "https://h:1"} THEN "tls"
                  ELSE "cleartext")
  /\ o.target \notin {"h", "ftp://h:1", "grpc://u@h:1"}
  /\ o.reflect => (IF o.method # "unset" THEN "service-of-method"
                   ELSE IF o.service # "unset" THEN o.service ELSE "health") \in w.symbols
  /\ w.reply = "one-frame-grpc-status-0"
  /\ o.status = (IF w.health = "omitted" THEN "UNKNOWN" ELSE w.health)

FilePromise(o, w) ==
  IF "deleted" \in o.states THEN w.stat = "missing"
  ELSE /\ w.stat \in {"regular", "dir", "empty"}
       /\ "nonempty" \in o.states => w.stat # "empty"
       /\ o.contains => w.stat # "dir" /\ w.open = "regular" /\ w.text = "within-limit"

GlobPromise(o, w) ==
  LET paths == IF o.target = "literal" /\ w.matching > 0 THEN 1 ELSE w.matching IN
  /\ w.dir = "readable"
  /\ IF o.absent THEN paths = 0
     ELSE /\ paths >= (IF o.min = Unset THEN 1 ELSE o.min)
          /\ o.max \in {Unset, -1} \/ paths <= o.max

(* Running, or stopped, said of the process the command line points to.    *)
ProcessPromise(o, w) ==
  LET seen == IF o.pid > 0 THEN w.pid ELSE w.list
  IN seen \in (IF "stopped" \in o.states THEN {"gone", "unnamed"}
               ELSE {"ours", "not-permitted", "named"})

PIDFilePromise(o, w) ==
  IF "stopped" \in o.states THEN w.file = "missing" \/ (w.file = "pid" /\ w.pid = "gone")
  ELSE w.file = "pid" /\ w.pid \in {"ours", "not-permitted"}

LockfilePromise(o, w) ==
  IF "present" \notin o.states /\ o.older = "unset" THEN w.lstat = "missing"
  ELSE w.lstat = "exists" /\ (o.older = "5s" => w.age >= 5)

OwnerPromise(id, text, actual) ==
  IF id >= 0 THEN actual = id ELSE text = "unset" \/ (text = "1" /\ actual = 1)

PermissionPromise(o, w) ==
  /\ w.lstat = "exists"
  /\ o.type # "any" => w.type = o.type
  /\ o.mode = "0644" => w.mode = 420
  /\ o.mode = "0000" => w.mode = 0
  /\ OwnerPromise(o.uid, o.user, w.uid) /\ OwnerPromise(o.gid, o.group, w.gid)

(* The digest that was asked for: by its prefix, by the flag or by length. *)
ChecksumPromise(o, w) ==
  /\ w.open = "regular"
  /\ w.digestOf \in {o.equals.prefix, o.algorithm}
     \/ (/\ o.equals.prefix = "unset" /\ o.algorithm = "auto"
         /\ HexLength(w.digestOf) = o.equals.digits)

ArchivePromise(o, w) ==
  /\ w.open = "regular" /\ w.member = "within-limit"
  /\ w.archive = (IF o.format # "auto" THEN o.format
                  ELSE CASE o.target = "a.zip" -> "zip" [] o.target = "a.tgz" -> "tgz"
                         [] OTHER -> "tar")

DockerPromise(o, w) ==
  w.tool = "ok" /\ o.status \in {"any", w.status} /\ (o.health # "unset" => w.health = o.health)

SystemdPromise(o, w) ==
  /\ w.tool = "ok" /\ w.load = "loaded"
  /\ w.state \in (IF o.states = {} THEN {"active"} ELSE o.states)

LaunchdPromise(o, w) == w.tool = "ok" /\ ("loaded" \in o.states \/ w.pid = "7")

CosignPromise(o, w) ==
  /\ w.tool = "ok"
  /\ [command |-> IF o.blob THEN "verify-blob" ELSE "verify",
      signature |-> IF o.blob THEN o.signature ELSE "unset", key |-> o.key,
      certificate |-> o.certificate, identity |-> o.identity, issuer |-> o.issuer]
       \in w.verifies

(* A command that ended with the code, the substring within what is kept   *)
(* of its output, and a true expression about its stdout.                  *)
ExecPromise(o, w) ==
  /\ w.run = "ended" /\ w.code = o.exit
  /\ o.contains = 0 \/ w.at \in 1..(o.limit + 1 - o.contains)
  /\ o.json # "unset" => w.doc = "true"

(* The lines that count: new ones, those of the tail, or all; with all     *)
(* that is asked for, and without what excludes them.                      *)
LogHits(o, w) ==
  {i \in DOMAIN w.lines :
     /\ i > w.old \/ o.fromStart \/ w.old - i < o.tail
     /\ o.contains # "unset" => "contains" \in w.lines[i] /\ o.contains # "two-lines"
     /\ o.matches # "unset" => "matches" \in w.lines[i]
     /\ o.json # "unset" => "json" \in w.lines[i]
     /\ "excluded" \in w.lines[i] => o.exclude = "unset"
     /\ o.exclude # ".*"}

LogPromise(o, w) == w.file = "regular" /\ Cardinality(LogHits(o, w)) >= o.min

(* A rollout is complete when the controller has seen the current spec,    *)
(* every replica it wants is a new one in service, and a deployment has no *)
(* old ones left.                                                          *)
RolledOut(obj) ==
  /\ obj.observed >= obj.generation
  /\ IF obj.kind = "statefulset" THEN obj.new.available + obj.new.ready >= obj.desired
                                 ELSE obj.new.available >= obj.desired
  /\ obj.kind = "deployment" => obj.old = 0 /\ ~ obj.deadline

ObjectPromise(for, obj) ==
  CASE for = "ready" -> obj.phase # "Failed" /\ obj.conditions["Ready"] = "True"
    [] for = "complete" -> /\ obj.conditions["Failed"] # "True"
                           /\ obj.conditions["Complete"] = "True"
    [] OTHER -> RolledOut(obj)

(* A selected object that has failed for good spoils the wait.             *)
Lost(for, obj) ==
  CASE for = "ready" -> obj.phase = "Failed"
    [] for = "complete" -> obj.conditions["Failed"] = "True"
    [] OTHER -> obj.kind = "deployment" /\ obj.deadline

K8sPromise(o, w) ==
  LET meant == {obj \in w.objects : /\ obj.kind = o.resource.kind
                                    /\ o.selector # "unset" \/ obj.named}
      done == {obj \in meant : ObjectPromise(o.for, obj)}
  IN /\ w.api = "ok" /\ meant # {}
     /\ IF o.selector # "unset"
        THEN /\ ~ w.many /\ \A obj \in meant : ~ Lost(o.for, obj)
             /\ IF o.all THEN done = meant ELSE done # {}
        ELSE IF o.for # "unset" THEN done # {}
        ELSE IF o.json # "unset" THEN \A obj \in meant : obj.matches = "true"
        ELSE LET name == IF o.condition = "unset" THEN "Ready" ELSE o.condition
             IN \A obj \in meant : obj.conditions[name] = "True"

Promise(b, o, w) ==
  CASE b = "http" -> HTTPPromise(o, w)     [] b \in {"tcp", "unix"} -> w.dial = "connected"
    [] b = "ports" -> PortsPromise(o, w)   [] b = "tls" -> TLSPromise(o, w)
    [] b = "ssh" -> SSHPromise(o, w)       [] b = "s3" -> S3Promise(o, w)
    [] b = "dns" -> DNSPromise(o, w)       [] b = "ntp" -> NTPPromise(o, w)
    [] b = "grpc" -> GRPCPromise(o, w)     [] b = "file" -> FilePromise(o, w)
    [] b = "glob" -> GlobPromise(o, w)     [] b = "process" -> ProcessPromise(o, w)
    [] b = "pidfile" -> PIDFilePromise(o, w)
    [] b = "lockfile" -> LockfilePromise(o, w)
    [] b = "permission" -> PermissionPromise(o, w)
    [] b = "checksum" -> ChecksumPromise(o, w)
    [] b = "archive" -> ArchivePromise(o, w)
    [] b = "docker" -> DockerPromise(o, w) [] b = "systemd" -> SystemdPromise(o, w)
    [] b = "launchd" -> LaunchdPromise(o, w)
    [] b = "cosign" -> CosignPromise(o, w) [] b = "icmp" -> w.tool = "ok" /\ w.replies
    [] b = "k8s" -> K8sPromise(o, w)       [] b = "exec" -> ExecPromise(o, w)
    [] b = "log" -> LogPromise(o, w)       [] b = "websocket" -> WebSocketPromise(o, w)
=============================================================================
