----------------------------- MODULE Invocation -----------------------------
(***************************************************************************)
(* One condition of an invocation, from the words of the command line to   *)
(* the verdict of its checks: the words are parsed, the condition they     *)
(* make is checked again and again in a world that may be another one each *)
(* time, until a check answers or the run gives up (when, and how often,   *)
(* is the business of Runner and PollTiming). A condition that Check finds *)
(* misconfigured ends the run as a fatal one.                              *)
(***************************************************************************)
EXTENDS Promises, CommandLines

CONSTANTS Inputs,  \* the command lines of each backend
          Worlds   \* what a check of each backend may observe

Backends == DOMAIN Inputs

ASSUME InvocationAssumption ==
  /\ Backends \subseteq BackendNames
  /\ \A b \in Backends : Inputs[b] \subseteq OptionsOf(b) /\ Worlds[b] \subseteq WorldsOf(b)

VARIABLES backend, given, cond, stage, world, verdict

vars == <<backend, given, cond, stage, world, verdict>>

-----------------------------------------------------------------------------

ParseOf(b, o) ==
  CASE b = "http" -> ParseHTTP(o)         [] b = "tcp" -> ParseTCP(o)
    [] b = "unix" -> ParseUnix(o)         [] b = "ports" -> ParsePorts(o)
    [] b = "tls" -> ParseTLS(o)           [] b = "ssh" -> ParseSSH(o)
    [] b = "s3" -> ParseS3(o)             [] b = "dns" -> ParseDNS(o)
    [] b = "ntp" -> ParseNTP(o)           [] b = "grpc" -> ParseGRPC(o)
    [] b = "file" -> ParseFile(o)         [] b = "glob" -> ParseGlob(o)
    [] b = "process" -> ParseProcess(o)   [] b = "pidfile" -> ParsePIDFile(o)
    [] b = "lockfile" -> ParseLockfile(o) [] b = "permission" -> ParsePermission(o)
    [] b = "checksum" -> ParseChecksum(o) [] b = "archive" -> ParseArchive(o)
    [] b = "docker" -> ParseDocker(o)     [] b = "systemd" -> ParseSystemd(o)
    [] b = "launchd" -> ParseLaunchd(o)   [] b = "cosign" -> ParseCosign(o)
    [] b = "icmp" -> ParseICMP(o)         [] b = "exec" -> ParseExec(o)
    [] b = "log" -> ParseLog(o)           [] b = "k8s" -> ParseK8s(o)
    [] b = "websocket" -> ParseWebSocket(o)

ValidOf(b, c) ==
  CASE b = "http" -> ValidHTTP(c)         [] b = "tcp" -> ValidTCP(c)
    [] b = "unix" -> ValidUnix(c)         [] b = "ports" -> ValidPorts(c)
    [] b = "tls" -> ValidTLS(c)           [] b = "ssh" -> ValidSSH(c)
    [] b = "s3" -> ValidS3(c)             [] b = "dns" -> ValidDNS(c)
    [] b = "ntp" -> ValidNTP(c)           [] b = "grpc" -> ValidGRPC(c)
    [] b = "file" -> ValidFile(c)         [] b = "glob" -> ValidGlob(c)
    [] b = "process" -> ValidProcess(c)   [] b = "pidfile" -> ValidPIDFile(c)
    [] b = "lockfile" -> ValidLockfile(c) [] b = "permission" -> ValidPermission(c)
    [] b = "checksum" -> ValidChecksum(c) [] b = "archive" -> ValidArchive(c)
    [] b = "docker" -> ValidDocker(c)     [] b = "systemd" -> ValidSystemd(c)
    [] b = "launchd" -> ValidLaunchd(c)   [] b = "cosign" -> ValidCosign(c)
    [] b = "icmp" -> ValidICMP(c)         [] b = "exec" -> ValidExec(c)
    [] b = "log" -> ValidLog(c)           [] b = "k8s" -> ValidK8s(c)
    [] b = "websocket" -> ValidWebSocket(c)

Observation(b, c, w) ==
  CASE b = "http" -> CheckHTTP(c, w)         [] b \in {"tcp", "unix"} -> CheckDial(c, w)
    [] b = "ports" -> CheckPorts(c, w)       [] b = "tls" -> CheckTLS(c, w)
    [] b = "ssh" -> CheckSSH(c, w)           [] b = "s3" -> CheckS3(c, w)
    [] b = "dns" -> CheckDNS(c, w)           [] b = "ntp" -> CheckNTP(c, w)
    [] b = "grpc" -> CheckGRPC(c, w)         [] b = "file" -> CheckFile(c, w)
    [] b = "glob" -> CheckGlob(c, w)         [] b = "process" -> CheckProcess(c, w)
    [] b = "pidfile" -> CheckPIDFile(c, w)   [] b = "lockfile" -> CheckLockfile(c, w)
    [] b = "permission" -> CheckPermission(c, w)
    [] b = "checksum" -> CheckChecksum(c, w) [] b = "archive" -> CheckArchive(c, w)
    [] b = "docker" -> CheckDocker(c, w)     [] b = "systemd" -> CheckSystemd(c, w)
    [] b = "launchd" -> CheckLaunchd(c, w)   [] b = "cosign" -> CheckCosign(c, w)
    [] b = "icmp" -> CheckICMP(c, w)         [] b = "k8s" -> CheckK8s(c, w)
    [] b = "exec" -> CheckExec(c, w)         [] b = "log" -> CheckLog(c, w)
    [] b = "websocket" -> CheckWebSocket(c, w)

Check(b, c, w) == IF ValidOf(b, c) THEN Observation(b, c, w) ELSE "misconfigured"

-----------------------------------------------------------------------------

Init ==
  /\ backend \in Backends
  /\ given \in Inputs[backend]
  /\ cond = {} /\ stage = "given" /\ world = {} /\ verdict = "none"

Parse ==
  /\ stage = "given"
  /\ cond' = ParseOf(backend, given)
  /\ stage' = IF cond' = {} THEN "refused" ELSE "polling"
  /\ UNCHANGED <<backend, given, world, verdict>>

Poll(w) ==
  /\ stage = "polling"
  /\ \E c \in cond : verdict' = Check(backend, c, w)
  /\ stage' = IF verdict' = "unsatisfied" THEN "waiting" ELSE "done"
  /\ world' = {w}
  /\ UNCHANGED <<backend, given, cond>>

(* The interval between two checks passes: the world may change. *)
Wait ==
  /\ stage = "waiting" /\ stage' = "polling"
  /\ world' = {} /\ verdict' = "none"
  /\ UNCHANGED <<backend, given, cond>>

GiveUp ==
  /\ stage = "waiting" /\ stage' = "gave-up"
  /\ world' = {} /\ verdict' = "none"
  /\ UNCHANGED <<backend, given, cond>>

Next ==
  \/ Parse
  \/ \E w \in Worlds[backend] : Poll(w)
  \/ Wait
  \/ GiveUp

Spec == Init /\ [][Next]_vars

-----------------------------------------------------------------------------
(***************************************************************************)
(* Properties                                                              *)
(***************************************************************************)

(* A condition exists exactly from an accepted command line on, and what a *)
(* stage says has happened.                                                *)
TypeOK ==
  /\ backend \in Backends /\ given \in Inputs[backend]
  /\ stage \in {"given", "refused", "polling", "waiting", "gave-up", "done"}
  /\ verdict \in {"none", "satisfied", "unsatisfied", "fatal", "misconfigured"}
  /\ cond = IF stage \in {"given", "refused"} THEN {} ELSE ParseOf(backend, given)
  /\ (stage = "done") = (verdict \in {"satisfied", "fatal", "misconfigured"})
  /\ (stage = "waiting") = (verdict = "unsatisfied")
  /\ (world = {}) = (verdict = "none")

(* What the parser of a backend leaves for the check to find: a target ... *)
LateTarget(b, o) ==
  CASE b = "http" -> o.target \in {"userinfo", "fragment", "no-hostname", "empty-port",
                                    "port-0"}
    [] b = "websocket" -> ~ ValidWebSocketURL(o.target)
    [] b = "tcp" -> o.target = "h:"
    [] b = "tls" -> o.target = ":1" /\ o.name = "unset"
    [] b = "glob" -> o.target \in {"empty", "blank", "dirs/*/x", "dir/["}
    [] b = "ntp" -> o.target \in {"blank", ":1", "h:0", "h:", "[h]"}
    [] b = "exec" -> o.command = "empty"
    [] b = "k8s" -> \/ o.resource.kind \notin K8sKinds
                    \/ o.selector = "unset" /\ ~ (o.resource.slash /\ o.resource.name)
    [] b \in {"docker", "systemd", "launchd", "icmp"} -> o.target \in {"blank", "-x"}
    [] b = "cosign" -> \/ "-x" \in {o.target, o.key, o.signature, o.certificate, o.identity,
                                    o.issuer}
                       \/ o.target = "blank"
    [] b \in {"ports", "grpc"} -> o.target = "blank"
    [] b \in {"pidfile", "lockfile", "permission", "checksum", "archive"} ->
         o.target \in {"empty", "blank"}
    [] b \in {"file", "log"} -> o.target = "empty"
    [] OTHER -> FALSE

(* ... or an option.                                                       *)
LateOption(b, o) ==
  CASE b = "http" -> \/ o.method = "bad-token" \/ "too-large" \in {o.body, o.contains}
                     \/ o.headers \in {"65", "33KiB"} \/ o.bearer = "control-character"
                     \/ o.headers \in {"64", "32KiB"} /\ (o.bearer # "unset" \/ o.user)
    [] b = "websocket" -> \/ "-1s" \in {o.timeout, o.read} \/ o.close > 65535
                          \/ o.send = "too-large" \/ ~ ValidWebSocketHeaders(o.headers)
    [] b = "ssh" -> o.key = "not-base64"
    [] b = "s3" -> o.access # o.secret
    [] b = "dns" -> o.size > 0 /\ o.size < 512
    [] b = "ntp" -> "-1s" \in {o.maxOffset, o.timeout}
    [] b = "grpc" -> \/ o.status \notin GRPCStatuses \/ o.timeout = "-1s"
                     \/ (o.tls /\ GRPCCleartext(o.target))
                     \/ o.service = "too-long" \/ o.method \in {"S/M", "/S?"}
    [] b = "lockfile" -> o.older = "-1s"
    [] b = "permission" -> \/ o.mode = "1644" \/ o.type = "bad"
                           \/ o.mode \in {"unset", "0000"} /\ o.type = "any"
    [] b \in {"checksum", "archive"} -> TRUE
    [] b = "cosign" -> o.blob /\ o.signature = "unset"
    [] b = "icmp" -> o.count <= 0 \/ o.timeout \in {"-1s", "25h"}
    [] b = "log" -> o.tail < 0
    [] OTHER -> FALSE

(* A command line that was accepted is not found wrong by a check, minutes *)
(* into a wait, except for what is listed above: the parsers in cli.go and *)
(* the validation in the conditions hold the same rules twice.             *)
UsableOnceAccepted ==
  verdict = "misconfigured" => LateTarget(backend, given) \/ LateOption(backend, given)

(* Command lines that ask for something else than what their check looks   *)
(* at: a mode of 0 is no requirement, a blank member is none of the        *)
(* archive's, a host key is looked at only in a login and the banner only  *)
(* without one, a zero health status is on the wire as no field at all, a  *)
(* clock beyond the era of the wire format is behind, and the system       *)
(* resolver answers for a CNAME with a canonical name. A directory of very *)
(* many names is not listed, an object of more than 10 MiB not searched, a *)
(* tenth redirect followed only with headers of the user; lines of a log   *)
(* that satisfied an earlier check do not satisfy another, and of the pods *)
(* of a stateful set those in surplus are counted as well.                 *)
SaysOtherwise(b, o, w) ==
  CASE b = "permission" -> o.mode = "0000"
    [] b = "archive" -> o.member = "blank"
    [] b = "ssh" -> IF o.user THEN o.banner # "unset" ELSE o.key # "unset"
    [] b = "glob" -> /\ o.target # "literal"
                     /\ w.names > MaxGlobDirectoryEntries \/ w.matching > MaxGlobMatches
    [] b = "s3" -> o.contains /\ w.object = "too-large"
    [] b = "http" -> Len(w.hops) > 9 /\ ~ o.stay /\ HTTPHeadersGiven(o) = {}
    [] b = "log" -> Cardinality({i \in LogHits(o, w) : i <= w.read}) >= o.min
    [] b = "k8s" -> \E obj \in w.objects :
                      obj.kind = "statefulset" /\ Updated(obj) + obj.old > obj.desired
    [] b = "grpc" -> o.status = "UNKNOWN"
    [] b = "ntp" -> w.clock + w.ahead + w.held >= Era
    [] b = "dns" -> /\ o.resolver = "system" /\ o.type = "CNAME"
                    /\ \A r \in w.records : {s \in w.records : s.type = "CNAME"} = {r}
                                           => r.owner # o.target \/ r.value = o.target
    [] OTHER -> FALSE

(* The wait ends satisfied only when the world was as the command line     *)
(* asks, and goes on or fails only when it was not: nothing that was said  *)
(* is lost, or added, between the flags and the comparison in the check.   *)
VerdictIsTrue ==
  \A w \in world :
    verdict = "misconfigured" \/ SaysOtherwise(backend, given, w)
    \/ (verdict = "satisfied" <=> Promise(backend, given, w))

(* What SPEC.md says of --contains for objects in S3: up to the first 10   *)
(* MiB are downloaded and searched, so that an object with the marker      *)
(* there satisfies. The check refuses every object that is longer.         *)
S3BeginningSearched ==
  backend = "s3" /\ verdict = "unsatisfied" => \A w \in world : ~ S3Promise(given, w)

(* Accepted command lines that no world satisfies: among them a body that  *)
(* the answer cannot have, a text that ends a line in what is one line, a  *)
(* count or a code beyond what there can be, lines of a log of which all   *)
(* are excluded, and a text from a server that is to close the connection. *)
Hopeless(b, o) ==
  CASE b = "grpc" -> o.status = "UNKNOWN" \/ o.target \in {"h", "ftp://h:1", "grpc://u@h:1"}
    [] b = "archive" -> o.member = "blank"
    [] b = "permission" -> "-5" \in {o.user, o.group}
    [] b = "http" -> \/ o.status = "103"
                     \/ /\ o.method = "HEAD" \/ o.status = "204"
                        /\ \/ o.contains # "unset" \/ o.json # "unset"
                           \/ o.matches \notin {"unset", ".*"}
    [] b = "websocket" -> o.close >= 0 /\ (o.contains \/ o.matches \notin {"unset", ".*"})
    [] b = "glob" -> o.min > (IF o.target = "literal" THEN 1 ELSE MaxGlobMatches)
    [] b = "ssh" -> ~ o.user /\ o.banner = "two-lines"
    [] b = "log" -> o.contains = "two-lines" \/ o.exclude = ".*"
    [] b = "exec" -> o.exit > 255 \/ o.contains > o.limit
    [] b = "dns" -> \/ /\ o.absent /\ o.rcode # "unset"
                       /\ \/ o.mode = "nxdomain" /\ o.rcode # "NXDOMAIN"
                          \/ o.mode = "nodata" /\ o.rcode # "NOERROR"
                    \/ /\ o.resolver = "system" /\ o.type = "CNAME"
                       /\ \/ o.min > 1 \/ Cardinality(o.equals) > 1
                          \/ o.contains /\ o.equals \notin {{}, {"1"}}
    [] OTHER -> FALSE

(* Waiting makes sense: for every accepted command line there is a world   *)
(* that satisfies it, or in which the check finds it wrong, so a wait that *)
(* times out says something about the world and not the command line; what *)
(* is excepted really is in vain.                                          *)
CanBeSatisfied ==
  stage = "polling" =>
    \A c \in cond :
      IF Hopeless(backend, given)
      THEN \A w \in Worlds[backend] : Check(backend, c, w) # "satisfied"
      ELSE \E w \in Worlds[backend] :
             Check(backend, c, w) \in {"satisfied", "misconfigured"}
=============================================================================
