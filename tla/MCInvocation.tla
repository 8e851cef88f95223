----------------------------- MODULE MCInvocation -----------------------------
(***************************************************************************)
(* Command lines and worlds for Invocation: around a command line that is  *)
(* accepted, and around a world that satisfies it, everything that differs *)
(* in at most two fields; where there are few, all combinations.           *)
(***************************************************************************)
EXTENDS Invocation

Near(base, alts) ==
  UNION {{[base EXCEPT ![f] = v, ![g] = u] : v \in alts[f] \cup {base[f]},
          u \in alts[g] \cup {base[g]}} :
           f, g \in DOMAIN alts}

-----------------------------------------------------------------------------
(* Files and processes *)

FileInputs ==
  [target : {"none", "two", "empty", "given"},
   states : SUBSET {"exists", "deleted", "nonempty"}, contains : BOOLEAN]

FileWorlds ==
  [stat : {"regular", "dir", "empty", "missing", "denied"},
   open : {"regular", "missing"}, text : {"within-limit", "beyond-limit", "none"}]

GlobInputs ==
  [target : {"none", "two", "empty", "blank", "given", "literal", "dirs/*/x", "dir/["},
   min : {Unset, -1, 0, 1, 2, MaxGlobMatches, MaxGlobMatches + 1},
   max : {Unset, -2, -1, 0, 1, 2}, absent : BOOLEAN]

GlobWorlds ==
  {w \in [dir : {"readable", "denied"},
          names : {0, 3, MaxGlobDirectoryEntries, MaxGlobDirectoryEntries + 1},
          matching : (0..3) \cup {MaxGlobMatches, MaxGlobMatches + 1}] :
     w.matching <= w.names}

ProcessInputs ==
  [target : {"none", "given"}, pid : {-1, 0, 7}, label : {"empty", "blank", "named"},
   states : SUBSET {"running", "stopped"}]

ProcessWorlds ==
  [pid : {"ours", "not-permitted", "gone", "error"},
   list : {"named", "unnamed", "no-ps", "error"}]

PIDFileInputs ==
  [target : {"none", "two", "empty", "blank", "given"},
   states : SUBSET {"running", "stopped"}]

PIDFileWorlds ==
  [file : {"missing", "no-pid", "pid"}, pid : {"ours", "not-permitted", "gone", "error"}]

LockfileInputs ==
  [target : {"none", "empty", "blank", "given"},
   states : SUBSET {"present", "absent"}, older : {"unset", "bad", "-1s", "0s", "5s"}]

LockfileWorlds == [lstat : {"exists", "missing", "denied"}, age : {0, 4, 5, 6}]

PermissionInputs ==
  Near([target |-> "given", mode |-> "0644", uid |-> Unset, gid |-> Unset, user |-> "unset",
        group |-> "unset", type |-> "any"],
       [target |-> {"none", "two", "empty", "blank"}, mode |-> {"unset", "0000", "1644", "rw"},
        uid |-> {0, 1}, gid |-> {0, 1}, user |-> {"1", "-5", "root"},
        group |-> {"1", "-5", "root"}, type |-> {"file", "dir", "symlink", "bad"}])

PermissionWorlds ==
  [lstat : {"exists", "missing", "denied"}, type : {"file", "dir", "symlink"},
   mode : {0, 420}, uid : {0, 1}, gid : {0, 1}]

ChecksumInputs ==
  [target : {"none", "empty", "blank", "given"},
   equals : [prefix : {"unset", "sha256", "md5"}, digits : {0, 40, 63, 64, 128}, hex : BOOLEAN],
   algorithm : {"auto", "sha1", "sha256", "md5"}]

ChecksumWorlds ==
  [open : {"regular", "dir", "missing", "denied"},
   digestOf : {"sha1", "sha256", "sha512", "another-file"}]

ArchiveInputs ==
  Near([target |-> "a.zip", member |-> "m", matches |-> "unset", format |-> "auto"],
       [target |-> {"none", "two", "empty", "blank", "a.tgz", "a"},
        member |-> {"unset", "blank"},
        matches |-> {"m*", "["}, format |-> {"tar", "tgz", "zip", "rar"}])

ArchiveWorlds ==
  [open : {"regular", "dir", "missing"}, archive : {"tar", "tgz", "zip", "garbage"},
   member : {"within-limit", "beyond-limit", "none"}]

-----------------------------------------------------------------------------
(* Servers *)

HTTPInputs ==
  Near([target |-> "given", method |-> "GET", status |-> "unset", body |-> "unset",
        file |-> "unset",
        contains |-> "unset", matches |-> "unset", json |-> "unset", headers |-> "none",
        bearer |-> "unset", user |-> FALSE, password |-> FALSE, cert |-> "unset", key |-> "unset",
        stay |-> FALSE, insecure |-> FALSE],
       [target |-> {"none", "relative", "ftp", "userinfo", "fragment", "no-hostname",
                    "empty-port", "port-0"},
        method |-> {"POST", "HEAD", "bad-token"},
        status |-> {"200", "2xx", "404", "204", "103", "bad"},
        body |-> {"text", "too-large"}, file |-> {"readable", "missing"},
        contains |-> {"text", "too-large"},
        matches |-> {"re", ".*", "("}, json |-> {".a", "bad"},
        headers |-> {"Authorization", "X", "malformed", "bad-name", "bad-value", "twice",
                     "64", "65", "32KiB", "33KiB"},
        bearer |-> {"token", "control-character"}, user |-> {TRUE}, password |-> {TRUE},
        cert |-> {"pem", "missing"}, key |-> {"pem", "missing"},
        stay |-> {TRUE}, insecure |-> {TRUE}])

HTTPHops ==
  {<<"first">>, <<"other-port">>, <<"other-host">>, <<"other-port", "first">>,
   <<"other-host", "first">>, <<"first", "other-host">>}
  \cup {[i \in 1..n |-> "first"] : n \in {9, 10}}

HTTPWorlds ==
  Near([link |-> "answers", hops |-> <<>>, status |-> 200, wants |-> {}, body |-> "ok",
        has |-> {"contains", "matches", "json"}],
       [link |-> {"refused", "untrusted", "times-out"}, hops |-> HTTPHops,
        status |-> {101, 204, 302, 404, 500}, wants |-> {{"X"}, {"Authorization"}},
        body |-> {"too-large", "error"}, has |-> SUBSET {"contains", "matches", "json"}])

WebSocketInputs ==
  Near([target |-> "given", matches |-> "unset", headers |-> "none", send |-> "unset",
        timeout |-> "unset",
        read |-> "unset", close |-> -1, ping |-> FALSE, contains |-> FALSE],
       [target |-> {"none", "two", "http", "no-host", "userinfo", "fragment", "empty-port",
                    "port-0"},
        matches |-> {"re", ".*", "("},
        headers |-> {"X", "malformed", "bad-name", "twice", "33", "65", "17KiB", "33KiB",
                     "reserved"},
        ping |-> {TRUE}, contains |-> {TRUE},
        send |-> {"text", "too-large"}, timeout |-> {"bad", "-1s", "5s"},
        read |-> {"bad", "-1s", "5s"}, close |-> {-2, 1000, 65535, 65536}])

WebSocketWorlds ==
  [link : {"switches", "refused", "status-200", "times-out"}, pong : BOOLEAN,
   closed : {-1, 1000, 1005, 65535}, text : {"marked", "plain", "empty", "none"}]

TCPInputs == [target : Addresses \cup {"none", "two"}]

UnixInputs == [target : {"none", "two", "blank", "given"}]

DialWorlds == [dial : {"connected", "refused", "times-out"}]

PortsInputs ==
  [target : {"none", "blank", "h"},
   range : {<<>>, <<0, 1>>, <<1, 1>>, <<1, 3>>, <<2, 3>>, <<3, 2>>, <<2, 65536>>},
   any : BOOLEAN, all : BOOLEAN]

PortsWorlds == [opened : SUBSET (1..3), deadline : 1..4]

TLSInputs ==
  [target : {"none"} \cup Addresses, name : {"unset", "n"},
   validFor : {"unset", "0d", "720h", "30d", "106751d", "106752d", "-1d", "bad"},
   ca : {"unset", "pem", "missing"}]

TLSWorlds ==
  [issuer : {"system", "ca", "unknown"}, names : SUBSET {"h", "n"}, day : {10}, from : {5, 11},
   until : {9, 30, 40, 200000}]

SSHInputs ==
  [target : {"none", "h:1", "bad"}, banner : {"unset", "text", "two-lines"}, user : BOOLEAN, password : BOOLEAN,
   key : {"unset", "K1", "not-base64"}]

SSHWorlds ==
  [dial : {"connected", "refused"}, key : {"K1", "K2"}, admits : BOOLEAN,
   line : {0, 1, BannerLines, BannerLines + 1}, marked : BOOLEAN]

S3Inputs ==
  Near([target |-> "object", contains |-> FALSE, metadata |-> "none", region |-> "unset",
        endpoint |-> "unset", virtual |-> FALSE, access |-> FALSE, secret |-> FALSE],
       [target |-> {"none", "bucket", "not-s3"}, contains |-> {TRUE},
        metadata |-> {"malformed", "k=v"}, region |-> {"eu", "blank"},
        endpoint |-> {"https", "http", "bad"}, virtual |-> {TRUE},
        access |-> {TRUE}, secret |-> {TRUE}])
  \cup [target : {"bucket", "object"}, contains : {FALSE, TRUE}, metadata : {"none", "k=v"},
        region : {"unset"}, endpoint : {"https", "http"}, virtual : {TRUE},
        access : BOOLEAN, secret : BOOLEAN]

S3Worlds ==
  [served : {"aws", "bucket.endpoint", "endpoint/bucket"}, public : BOOLEAN,
   object : {"missing", "plain", "marked", "too-large"}, metadata : BOOLEAN]

-----------------------------------------------------------------------------
(* dns: n is asked for; m is an alias; x is somebody else *)

Record(owner, type, value) ==
  [owner |-> owner, type |-> type, value |-> value, marked |-> value = "1"]

Answers ==
  SUBSET {Record("n", "A", "1"), Record("n", "CNAME", "m"), Record("m", "A", "2"),
          Record("x", "A", "1")}
  \cup {{Record("n", "CNAME", "1")}, {Record("n", "CNAME", "1"), Record("1", "CNAME", "2")},
        {Record("n", "MX", "1"), Record("n", "MX", "2")},
        {Record("n", "CNAME", "m"), Record("m", "CNAME", "x"), Record("x", "CNAME", "2"),
         Record("2", "A", "1")},
        {Record("n", "A", "1"), Record("n", "A", "2"), Record("n", "AAAA", "2")}}

SystemDNS ==
  [target |-> "n", type |-> "A", resolver |-> "system", contains |-> FALSE, equals |-> {},
   min |-> 0, absent |-> FALSE, mode |-> "any", server |-> "unset", rcode |-> "unset",
   tcp |-> FALSE,
   edns0 |-> FALSE, size |-> 0]

DNSAlternatives ==
  [target |-> {"none", "bad"}, type |-> {"CNAME", "MX", "ANY", "bad"},
   contains |-> {TRUE}, equals |-> {{"1"}, {"2"}, {"1", "2"}}, min |-> {-1, 1, 2},
   absent |-> {TRUE}, mode |-> {"nxdomain", "nodata", "bad"}, server |-> {"s", "s:53", "bad"},
   rcode |-> RCodes \cup {"bad"}, tcp |-> {TRUE}, edns0 |-> {TRUE},
   size |-> {-1, 511, 512, 65535, 65536}]

DNSInputs ==
  Near(SystemDNS, DNSAlternatives)
  \cup Near([SystemDNS EXCEPT !.resolver = "wire", !.server = "s"],
            [DNSAlternatives EXCEPT !.server = {"unset", "s:53", "bad"}])
  \cup Near([SystemDNS EXCEPT !.resolver = "wire", !.server = "s", !.absent = TRUE],
            [DNSAlternatives EXCEPT !.absent = {FALSE}])

DNSWorlds ==
  [link : {"answers", "not-found", "other"}, echoes : {TRUE}, truncated : {FALSE},
   rcode : RCodes, records : Answers, overTCP : {{}}]
  \cup [link : {"answers"}, echoes : BOOLEAN, truncated : {TRUE}, rcode : {"NOERROR"},
        records : {{}, {Record("n", "A", "1")}}, overTCP : Answers]

NTPInputs ==
  [target : {"none", "blank", "h", "h:1", ":1", "h:0", "h:", "[h]"},
   maxOffset : {"unset", "bad", "-1s", "0s", "5s"}, timeout : {"unset", "bad", "-1s", "5s"}]

NTPWorlds ==
  [link : {"answers", "times-out"}, header : {"good", "unsynchronized", "kiss-of-death"},
   clock : {100, Era - 3}, ahead : {-6, -5, 0, 5, 6}, held : {0, 1}]

GRPCInputs ==
  Near([target |-> "h:1", service |-> "unset", method |-> "unset", status |-> "SERVING",
        tls |-> FALSE,
        reflect |-> FALSE, timeout |-> "unset"],
       [target |-> {"none", "blank", "h", "grpc://h:1", "http://h:1", "grpcs://h:1",
                    "https://h:1",
                    "ftp://h:1", "grpc://u@h:1"},
        service |-> {"S", "too-long"}, method |-> {"/S/M", "S/M", "/S?"},
        status |-> (GRPCStatuses \ {"SERVING"}) \cup {"bad"}, tls |-> {TRUE},
        reflect |-> {TRUE},
        timeout |-> {"bad", "-1s", "5s"}])

GRPCWorlds ==
  [listens : {"tls", "cleartext"}, symbols : SUBSET {"health", "S", "service-of-method"},
   reply : {"one-frame-grpc-status-0", "two-frames", "grpc-status-5", "none"},
   health : (GRPCStatuses \ {"UNKNOWN"}) \cup {"omitted", "beyond-the-enum"}]

-----------------------------------------------------------------------------
(* Tools *)

ToolEnds == {"ok", "no-binary", "no-systemd", "fails", "times-out", "output-limit"}

DockerInputs ==
  [target : {"none", "blank", "-x", "c"}, status : DockerStatuses \cup {"bad"},
   health : DockerHealths \cup {"bad"}]

DockerWorlds ==
  [tool : ToolEnds \ {"no-systemd"}, status : DockerStatuses \ {"any"},
   health : DockerHealths \ {"unset"}]

SystemdInputs ==
  [target : {"none", "blank", "-x", "u"}, states : SUBSET {"active", "inactive", "failed"}]

SystemdWorlds ==
  [tool : ToolEnds, load : {"loaded", "not-found"},
   state : {"active", "inactive", "failed", "activating"}]

LaunchdInputs ==
  [target : {"none", "blank", "-x", "l"}, states : SUBSET {"loaded", "running"}]

LaunchdWorlds == [tool : ToolEnds \ {"no-systemd"}, pid : {"none", "0", "7"}]

CosignInputs ==
  Near([target |-> "t", blob |-> FALSE, key |-> "unset", signature |-> "unset",
        certificate |-> "unset", identity |-> "unset", issuer |-> "unset"],
       [target |-> {"none", "blank", "-x"}, blob |-> {TRUE}, key |-> {"k", "-x"},
        signature |-> {"s", "-x"}, certificate |-> {"c", "-x"}, identity |-> {"i", "-x"},
        issuer |-> {"o", "-x"}])

CosignWorlds ==
  LET asked == [command : {"verify", "verify-blob"}, signature : {"unset", "s"},
                key : {"unset", "k"}, certificate : {"unset", "c"}, identity : {"unset", "i"},
                issuer : {"unset", "o"}]
  IN [tool : ToolEnds \ {"no-systemd"}, verifies : {{}} \cup {{a} : a \in asked}]

ICMPInputs ==
  [target : {"none", "blank", "-x", "h"}, count : {-1, 0, 1, 3},
   timeout : {"bad", "-1s", "1s", "25h"}]

ICMPWorlds == [tool : ToolEnds \ {"no-systemd"}, replies : BOOLEAN]

ExecInputs ==
  Near([separator |-> TRUE, command |-> "given", target |-> "none", env |-> "none", exit |-> 0,
        limit |-> 3, contains |-> 0, json |-> "unset"],
       [separator |-> {FALSE}, command |-> {"none", "empty"}, target |-> {"given"},
        env |-> {"K=v", "K"}, exit |-> {-1, 1, 255, 256}, limit |-> {-1, 0, 1},
        contains |-> {1, 2, 3, 4}, json |-> {".a", "bad"}])

ExecWorlds ==
  [run : {"ended", "not-started", "cancelled"}, code : {-1, 0, 1, 255}, at : 0..4,
   doc : {"true", "false", "invalid"}]

LogInputs ==
  Near([target |-> "given", contains |-> "text", matches |-> "unset", json |-> "unset",
        exclude |-> "unset",
        fromStart |-> FALSE, tail |-> 0, min |-> 1],
       [target |-> {"none", "two", "empty"}, contains |-> {"unset", "two-lines"},
        matches |-> {"re", "("},
        json |-> {".a", "bad"}, exclude |-> {"re", ".*", "("}, fromStart |-> {TRUE},
        tail |-> {-1, 2}, min |-> {0, 2}])

LogLines ==
  {{}, {"contains"}, {"contains", "matches", "json"},
   {"contains", "matches", "json", "excluded"}}

LogWorlds ==
  {w \in [file : {"regular", "missing", "dir", "denied"},
          lines : UNION {[1..n -> LogLines] : n \in 0..3}, old : 0..3, read : 0..3] :
     /\ w.old <= Len(w.lines) /\ w.read <= Len(w.lines)
     /\ w.file # "regular" => Len(w.lines) = 1}

-----------------------------------------------------------------------------
(* k8s *)

Resource(kind, slash, name) == [kind |-> kind, slash |-> slash, name |-> name]

K8sInputs ==
  Near([target |-> "given", resource |-> Resource("pod", TRUE, TRUE), condition |-> "unset",
        json |-> "unset", for |-> "unset", selector |-> "unset", all |-> FALSE],
       [target |-> {"none", "two"},
        resource |-> {Resource("job", TRUE, TRUE), Resource("widget", TRUE, TRUE),
                      Resource("pod", FALSE, FALSE), Resource("pod", TRUE, FALSE)},
        condition |-> {"Complete"}, json |-> {".a", "bad"},
        for |-> {"ready", "complete", "rollout"}, selector |-> {"app=x", "bad"},
        all |-> {TRUE}])
  \cup {[target |-> "given", resource |-> Resource(want[1], slash, slash),
         condition |-> "unset",
         json |-> "unset", for |-> want[2], selector |-> IF slash THEN "unset" ELSE "app=x",
         all |-> all] :
          want \in {<<"pod", "ready">>, <<"job", "complete">>, <<"deployment", "rollout">>,
                    <<"statefulset", "rollout">>, <<"daemonset", "rollout">>},
          slash \in BOOLEAN, all \in BOOLEAN}

Object(kind) ==
  [kind |-> kind, named |-> TRUE, phase |-> "Running",
   conditions |-> [Ready |-> "True", Failed |-> "none", Complete |-> "True"],
   matches |-> "true", generation |-> 2, observed |-> 2, desired |-> 2, deadline |-> FALSE,
   new |-> [available |-> 2, ready |-> 0, starting |-> 0], old |-> 0]

PlainObjects ==
  UNION {Near(Object(kind),
              [named |-> {FALSE}, phase |-> {"Failed", "Pending"},
               matches |-> {"false", "error"},
               conditions |-> [Ready : {"True", "False", "none"}, Failed : {"True", "none"},
                               Complete : {"True", "none"}]]) : kind \in {"pod", "job"}}

(* Counters of a rollout.                                                  *)
Workloads ==
  {[Object(kind) EXCEPT !.generation = g[1], !.observed = g[2], !.desired = desired,
                        !.deadline = deadline, !.old = old,
                        !.new = [available |-> n[1], ready |-> n[2], starting |-> n[3]]] :
     kind \in {"deployment", "statefulset", "daemonset"}, g \in {<<0, 0>>, <<2, 1>>, <<2, 2>>},
     desired \in {0, 2}, deadline \in BOOLEAN, old \in 0..1,
     n \in (0..2) \X (0..1) \X (0..1)}

RealWorkloads ==
  {obj \in Workloads :
     obj.kind = "daemonset" => Updated(obj) + obj.old <= obj.desired}

(* The one that is named, and others that the selector picks.              *)
Pairs ==
  LET kinds == {"pod", "job", "deployment", "daemonset"}
      several(kind) ==
        {Object(kind), [Object(kind) EXCEPT !.phase = "Failed", !.deadline = TRUE,
                                            !.conditions["Failed"] = "True"],
         [Object(kind) EXCEPT !.phase = "Pending", !.observed = 1,
                              !.conditions = [Ready |-> "False", Failed |-> "none",
                                              Complete |-> "none"]]}
  IN UNION {{{x, [y EXCEPT !.named = FALSE]} : x, y \in several(kind)} : kind \in kinds}

K8sWorlds ==
  [api : {"ok"}, many : {FALSE},
   objects : {{}} \cup {{obj} : obj \in PlainObjects \cup RealWorkloads} \cup Pairs]
  \cup [api : {"ok", "no-config", "permanent-error", "not-found", "times-out"},
        many : BOOLEAN, objects : {{Object("pod")}, {Object("job")}, {Object("deployment")}}]

-----------------------------------------------------------------------------

MCInputs ==
  [http |-> HTTPInputs, tcp |-> TCPInputs, unix |-> UnixInputs, ports |-> PortsInputs,
   tls |-> TLSInputs, ssh |-> SSHInputs, s3 |-> S3Inputs, dns |-> DNSInputs, ntp |-> NTPInputs,
   grpc |-> GRPCInputs, file |-> FileInputs, glob |-> GlobInputs, process |-> ProcessInputs,
   pidfile |-> PIDFileInputs, lockfile |-> LockfileInputs, permission |-> PermissionInputs,
   checksum |-> ChecksumInputs, archive |-> ArchiveInputs, docker |-> DockerInputs,
   systemd |-> SystemdInputs, launchd |-> LaunchdInputs, cosign |-> CosignInputs,
   icmp |-> ICMPInputs, exec |-> ExecInputs, log |-> LogInputs,
   websocket |-> WebSocketInputs, k8s |-> K8sInputs]

MCWorlds ==
  [http |-> HTTPWorlds, tcp |-> DialWorlds, unix |-> DialWorlds, ports |-> PortsWorlds,
   tls |-> TLSWorlds, ssh |-> SSHWorlds, s3 |-> S3Worlds, dns |-> DNSWorlds, ntp |-> NTPWorlds,
   grpc |-> GRPCWorlds, file |-> FileWorlds, glob |-> GlobWorlds, process |-> ProcessWorlds,
   pidfile |-> PIDFileWorlds, lockfile |-> LockfileWorlds, permission |-> PermissionWorlds,
   checksum |-> ChecksumWorlds, archive |-> ArchiveWorlds, docker |-> DockerWorlds,
   systemd |-> SystemdWorlds, launchd |-> LaunchdWorlds, cosign |-> CosignWorlds,
   icmp |-> ICMPWorlds, exec |-> ExecWorlds, log |-> LogWorlds,
   websocket |-> WebSocketWorlds, k8s |-> K8sWorlds]
=============================================================================
