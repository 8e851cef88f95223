--------------------------- MODULE CommandBackends ---------------------------
(***************************************************************************)
(* The backends that run a tool and read what it prints (docker, systemd,  *)
(* launchd, cosign, icmp) or any command (exec), that follow a log, and    *)
(* the cluster: Kubernetes objects. Each as Parse, Valid and Check (see    *)
(* LocalBackends). How a command is run and a log is read is in Exec and   *)
(* in LogTail; here is what one check makes of the outcome.                *)
(***************************************************************************)
EXTENDS LocalBackends, Sequences

(* A name that a tool would take for an option, or none at all. *)
Refused(name) == name \in {"blank", "-x"}

(* What a tool's run comes to: w.tool says how it ended. *)
ToolVerdict(w, fatal, ok) ==
  IF w.tool \in fatal THEN "fatal" ELSE IF w.tool # "ok" THEN "unsatisfied" ELSE Verdict(ok)

(***************************************************************************)
(* docker, systemd, launchd                                                *)
(***************************************************************************)
DockerStatuses ==
  {"any", "created", "running", "paused", "restarting", "removing", "exited", "dead"}

DockerHealths == {"unset", "healthy", "unhealthy", "starting", "none"}

ParseDocker(o) ==
  When(One(o) /\ o.status \in DockerStatuses /\ o.health \in DockerHealths,
       [container |-> o.target, status |-> o.status, health |-> o.health])

ValidDocker(c) ==
  ~ Refused(c.container) /\ c.status \in DockerStatuses /\ c.health \in DockerHealths

(* w.health is "none" for a container without health configuration.        *)
CheckDockerHealth(c, w) == c.health \in {"unset", w.health}

CheckDocker(c, w) ==
  ToolVerdict(w, {"no-binary"},
              c.status \in {"any", w.status} /\ CheckDockerHealth(c, w))

ParseSystemd(o) ==
  When(One(o) /\ AtMostOne(o.states),
       [unit |-> o.target,
        state |-> IF o.states = {} THEN "active" ELSE CHOOSE s \in o.states : TRUE])

ValidSystemd(c) == ~ Refused(c.unit) /\ c.state \in {"active", "inactive", "failed"}

(* A host without systemd never becomes one that has it; any other failure *)
(* may pass. A unit that does not exist is in no state.                    *)
CheckSystemd(c, w) ==
  ToolVerdict(w, {"no-binary", "no-systemd"}, w.load # "not-found" /\ w.state = c.state)

ParseLaunchd(o) ==
  When(One(o) /\ AtMostOne(o.states),
       [label |-> o.target, state |-> IF "loaded" \in o.states THEN "loaded" ELSE "running"])

ValidLaunchd(c) == ~ Refused(c.label)

CheckLaunchd(c, w) ==
  ToolVerdict(w, {"no-binary"}, c.state = "loaded" \/ w.pid \notin {"none", "0"})

(***************************************************************************)
(* cosign, icmp: the exit status of the tool is the answer                 *)
(***************************************************************************)
ParseCosign(o) ==
  When(One(o), [target |-> o.target, blob |-> o.blob, key |-> o.key,
                signature |-> o.signature, certificate |-> o.certificate,
                identity |-> o.identity, issuer |-> o.issuer])

ValidCosign(c) ==
  /\ "-x" \notin {c.target, c.key, c.signature, c.certificate, c.identity, c.issuer}
  /\ c.target # "blank"
  /\ c.blob => c.signature # "unset"

(* What the tool is asked to verify. *)
CosignArgs(c) ==
  [command |-> IF c.blob THEN "verify-blob" ELSE "verify",
   signature |-> IF c.blob THEN c.signature ELSE "unset",
   key |-> c.key, certificate |-> c.certificate, identity |-> c.identity,
   issuer |-> c.issuer]

CheckCosign(c, w) == ToolVerdict(w, {"no-binary"}, CosignArgs(c) \in w.verifies)

ICMPTimeout(text) ==
  CASE text = "bad" -> Unset [] text = "-1s" -> -1 [] text = "25h" -> 90000 [] OTHER -> 1

ParseICMP(o) ==
  When(One(o) /\ ICMPTimeout(o.timeout) # Unset,
       [host |-> o.target, count |-> o.count, timeout |-> ICMPTimeout(o.timeout)])

ValidICMP(c) == ~ Refused(c.host) /\ c.count > 0 /\ c.timeout >= 0 /\ c.timeout <= 86400

CheckICMP(c, w) == ToolVerdict(w, {"no-binary"}, w.replies)

(***************************************************************************)
(* exec: w.at is where the substring begins in the output, stdout first, 0 *)
(* if it is not there; the code of a command killed by a signal is -1      *)
(***************************************************************************)
ParseExec(o) ==
  When(/\ o.separator /\ o.command # "none" /\ o.target = "none"
       /\ o.env # "K" /\ o.exit >= 0 /\ o.limit > 0 /\ o.json # "bad",
       [command |-> o.command, exit |-> o.exit, limit |-> o.limit,
        contains |-> o.contains, json |-> o.json # "unset"])

ValidExec(c) == c.command \notin {"none", "empty"} /\ c.exit >= 0 /\ c.limit > 0

(* Of the output the beginning is searched, the document is all of stdout. *)
CheckExecOutput(c, w) ==
  /\ c.contains > 0 => w.at > 0 /\ w.at + c.contains <= c.limit + 1
  /\ c.json => w.doc = "true"

CheckExec(c, w) ==
  IF w.run = "not-started" THEN "fatal"
  ELSE Verdict(w.run = "ended" /\ w.code = c.exit /\ CheckExecOutput(c, w))

(***************************************************************************)
(* log: w.lines are in the file, the first w.old were when the wait began, *)
(* the first w.read have been read by earlier checks. The file is not      *)
(* rotated, and no read meets a limit (see LogTail for both)               *)
(***************************************************************************)
LogMatchers(o) ==
  (CASE o.contains = "unset" -> {} [] o.contains = "two-lines" -> {"two-lines"}
     [] OTHER -> {"contains"})
    \cup (IF o.matches # "unset" THEN {"matches"} ELSE {})
    \cup (IF o.json # "unset" THEN {"json"} ELSE {})

ParseLog(o) ==
  When(/\ One(o)
       /\ o.contains # "unset" \/ o.matches # "unset" \/ o.json # "unset"
       /\ ~ (o.fromStart /\ o.tail > 0)
       /\ o.min >= 1
       /\ o.matches # "(" /\ o.exclude # "(" /\ o.json # "bad",
       [path |-> o.target, matchers |-> LogMatchers(o), exclude |-> o.exclude,
        fromStart |-> o.fromStart, tail |-> o.tail, min |-> o.min])

ValidLog(c) ==
  /\ c.path # "empty" /\ c.matchers # {}
  /\ ~ (c.fromStart /\ c.tail > 0)
  /\ c.tail >= 0 /\ c.min >= 1

(* The lines that are skipped when the wait begins.                        *)
InitOffset(c, w) ==
  IF c.fromStart \/ c.tail >= w.old THEN 0 ELSE w.old - c.tail

(* A line is what is found in it; .* excludes every line.                  *)
MatchLine(c, line) ==
  /\ c.exclude # ".*" /\ (c.exclude # "unset" => "excluded" \notin line)
  /\ c.matchers \subseteq line

(* The count goes on from check to check, and a check that adds nothing to *)
(* it is not satisfied.                                                    *)
CheckLog(c, w) ==
  LET matching == {i \in DOMAIN w.lines : i > InitOffset(c, w) /\ MatchLine(c, w.lines[i])}
  IN Verdict(/\ w.file = "regular"
             /\ Cardinality(matching) >= c.min
             /\ \E i \in matching : i > w.read)

(***************************************************************************)
(* k8s: a resource is [kind, slash, name]; kind is the canonical name of   *)
(* its aliases                                                             *)
(***************************************************************************)
K8sKinds == {"pod", "service", "deployment", "replicaset", "statefulset", "daemonset",
             "job", "namespace"}

WaitSupportsKind(for, kind) ==
  CASE for = "ready" -> kind = "pod"
    [] for = "complete" -> kind = "job"
    [] for = "rollout" -> kind \in {"deployment", "statefulset", "daemonset"}
    [] OTHER -> FALSE

K8sMatchers(q) ==
  {f \in {"condition", "json", "for"} :
     \/ f = "condition" /\ q.condition # "unset"
     \/ f = "json" /\ q.json # "unset"
     \/ f = "for" /\ q.for # "unset"}

K8sSelectorFits(q) ==
  /\ q.selector # "unset" => q.for # "unset"
  /\ q.all => q.selector # "unset"

ParseK8s(o) ==
  When(/\ One(o)
       /\ Cardinality(K8sMatchers(o)) <= 1
       /\ K8sSelectorFits(o)
       /\ o.selector # "unset" => ~ o.resource.slash
       /\ o.selector # "bad"
       /\ o.for # "unset" => WaitSupportsKind(o.for, o.resource.kind)
       /\ o.json # "bad",
       [resource |-> o.resource, condition |-> o.condition, json |-> o.json, for |-> o.for,
        selector |-> o.selector, all |-> o.all])

ValidK8s(c) ==
  /\ Cardinality(K8sMatchers(c)) <= 1
  /\ K8sSelectorFits(c)
  /\ c.for # "unset" => WaitSupportsKind(c.for, c.resource.kind)
  /\ c.resource.kind \in K8sKinds
  /\ IF c.selector # "unset" THEN ~ c.resource.slash
                        ELSE c.resource.slash /\ c.resource.name

NamedCondition(obj, name) == Verdict(obj.conditions[name] = "True")

(* The counters of a workload's status.                                    *)
Updated(obj) == obj.new.available + obj.new.ready + obj.new.starting

Total(obj) == Updated(obj) + obj.old

Ready(obj) == obj.new.available + obj.new.ready + obj.old

Available(obj) == obj.new.available + obj.old

(* Without a generation there is nothing to catch up with. *)
Observed(obj) == obj.generation = 0 \/ obj.observed >= obj.generation

(* Fault: old replicas that still run are overlooked. *)
DeploymentRolloutIgnoresOld(obj) ==
  IF obj.deadline THEN "fatal"
  ELSE Verdict(/\ Observed(obj)
               /\ Updated(obj) >= obj.desired
               /\ Available(obj) >= obj.desired)

DeploymentRollout(obj) ==
  IF obj.deadline THEN "fatal"
  ELSE Verdict(/\ Observed(obj)
               /\ Updated(obj) >= obj.desired
               /\ Total(obj) <= Updated(obj)
               /\ Available(obj) >= obj.desired)

StatefulSetRollout(obj) ==
  Verdict(Observed(obj) /\ Updated(obj) >= obj.desired /\ Ready(obj) >= obj.desired)

DaemonSetRollout(obj) ==
  Verdict(/\ Observed(obj)
          /\ Updated(obj) >= obj.desired
          /\ Ready(obj) >= obj.desired
          /\ Available(obj) >= obj.desired)

WaitFor(for, obj) ==
  CASE for = "ready" ->
         IF obj.phase = "Failed" THEN "fatal" ELSE NamedCondition(obj, "Ready")
    [] for = "complete" ->
         IF obj.conditions["Failed"] = "True" THEN "fatal"
         ELSE NamedCondition(obj, "Complete")
    [] OTHER -> CASE obj.kind = "deployment" -> DeploymentRollout(obj)
                  [] obj.kind = "statefulset" -> StatefulSetRollout(obj)
                  [] OTHER -> DaemonSetRollout(obj)

(* One object that failed ends the wait, whatever the others are.          *)
Selected(c, objects) ==
  LET verdicts == {WaitFor(c.for, obj) : obj \in objects}
  IN IF objects = {} THEN "unsatisfied"
     ELSE IF "fatal" \in verdicts THEN "fatal"
     ELSE IF c.all THEN Verdict(verdicts = {"satisfied"})
     ELSE Verdict("satisfied" \in verdicts)

(* A name picks one object of the kind, a selector any number of them.     *)
Found(c, w) ==
  {obj \in w.objects : obj.kind = c.resource.kind /\ (c.selector = "unset" => obj.named)}

(* An error of the API that will not pass ends the run.                    *)
ClassifyGetterError(w) ==
  IF w.api \in {"no-config", "permanent-error"} THEN "fatal" ELSE "unsatisfied"

JSONExpr(obj) ==
  IF obj.matches = "error" THEN "fatal" ELSE Verdict(obj.matches = "true")

CheckK8s(c, w) ==
  IF w.api # "ok" THEN ClassifyGetterError(w)
  ELSE IF c.selector # "unset" THEN IF w.many THEN "fatal" ELSE Selected(c, Found(c, w))
  ELSE IF Found(c, w) = {} THEN "unsatisfied"
  ELSE LET obj == CHOOSE any \in Found(c, w) : TRUE
           name == IF c.condition = "unset" THEN "Ready" ELSE c.condition
       IN IF c.for # "unset" THEN WaitFor(c.for, obj)
          ELSE IF c.json # "unset" THEN JSONExpr(obj) ELSE NamedCondition(obj, name)
=============================================================================
