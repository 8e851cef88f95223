----------------------------- MODULE CommandLines -----------------------------
(***************************************************************************)
(* For each backend: the options of a command line, any text or number     *)
(* where the flag takes any, and what a check may observe.                 *)
(***************************************************************************)
EXTENDS NetworkBackends, ProtocolBackends, CommandBackends

(***************************************************************************)
(* Files and processes                                                     *)
(***************************************************************************)
FileOptions ==
  [target : STRING, states : SUBSET {"exists", "deleted", "nonempty"}, contains : BOOLEAN]

FileWorld ==
  [stat : {"regular", "dir", "empty", "missing", "denied"},
   open : {"regular", "missing"}, text : {"within-limit", "beyond-limit", "none"}]

GlobOptions == [target : STRING, min : Int, max : Int, absent : BOOLEAN]

GlobWorld ==
  {w \in [dir : {"readable", "denied"}, names : Nat, matching : Nat] : w.matching <= w.names}

ProcessOptions ==
  [target : STRING, pid : Int, label : STRING, states : SUBSET {"running", "stopped"}]

PIDs == {"ours", "not-permitted", "gone", "error"}

ProcessWorld == [pid : PIDs, list : {"named", "unnamed", "no-ps", "error"}]

PIDFileOptions == [target : STRING, states : SUBSET {"running", "stopped"}]

PIDFileWorld == [file : {"missing", "no-pid", "pid"}, pid : PIDs]

LockfileOptions ==
  [target : STRING, states : SUBSET {"present", "absent"},
   older : {"unset", "bad", "-1s", "0s", "5s"}]

LockfileWorld == [lstat : {"exists", "missing", "denied"}, age : Nat]

Owners == {"unset", "1", "-5", "root"}

PermissionOptions ==
  [target : STRING, mode : {"unset", "0000", "0644", "1644", "rw"}, uid : Int, gid : Int,
   user : Owners, group : Owners, type : {"any", "file", "dir", "symlink", "bad"}]

PermissionWorld ==
  [lstat : {"exists", "missing", "denied"}, type : {"file", "dir", "symlink"},
   mode : Nat, uid : Nat, gid : Nat]

Digests == [prefix : {"unset"} \cup Algorithms \cup {"md5"}, digits : Nat, hex : BOOLEAN]

ChecksumOptions ==
  [target : STRING, equals : Digests, algorithm : {"auto", "md5"} \cup Algorithms]

ChecksumWorld ==
  [open : {"regular", "dir", "missing", "denied"}, digestOf : Algorithms \cup {"another-file"}]

ArchiveOptions ==
  [target : STRING, member : {"unset", "blank", "m"}, matches : {"unset", "m*", "["},
   format : STRING]

ArchiveWorld ==
  [open : {"regular", "dir", "missing"}, archive : STRING,
   member : {"within-limit", "beyond-limit", "none"}]

(***************************************************************************)
(* Servers                                                                 *)
(***************************************************************************)
HTTPOptions ==
  [target : STRING, method : STRING, status : STRING, body : STRING, file : STRING,
   contains : STRING, matches : STRING, json : STRING, headers : STRING,
   bearer : STRING, user : BOOLEAN, password : BOOLEAN, cert : STRING, key : STRING,
   stay : BOOLEAN, insecure : BOOLEAN]

(* The client passes over other informational answers than 101.            *)
HTTPWorld ==
  [link : STRING, hops : Seq({"first", "other-port", "other-host"}),
   status : {101} \cup 200..599, wants : SUBSET STRING, body : {"ok", "too-large", "error"},
   has : SUBSET {"contains", "matches", "json"}]

WebSocketOptions ==
  [target : STRING, matches : STRING, headers : STRING, send : STRING, timeout : STRING,
   read : STRING, close : Int, ping : BOOLEAN, contains : BOOLEAN]

(* The code of a close frame, -1 without one.                              *)
CloseCodes == {code \in Int : -1 <= code /\ code <= 65535}

WebSocketWorld ==
  [link : STRING, pong : BOOLEAN, closed : CloseCodes,
   text : {"marked", "plain", "empty", "none"}]

TargetOptions == [target : STRING]

DialWorld == [dial : STRING]

PortsOptions ==
  [target : STRING, range : {<<>>} \cup (Int \X Int), any : BOOLEAN, all : BOOLEAN]

PortsWorld == [opened : SUBSET Nat, deadline : Nat]

TLSOptions == [target : STRING, name : STRING, validFor : STRING, ca : STRING]

TLSWorld ==
  [issuer : {"system", "ca", "unknown"}, names : SUBSET STRING, day : Nat, from : Nat,
   until : Nat]

SSHOptions ==
  [target : STRING, banner : STRING, user : BOOLEAN, password : BOOLEAN, key : STRING]

SSHWorld ==
  [dial : STRING, key : STRING, admits : BOOLEAN, line : Nat, marked : BOOLEAN]

S3Options ==
  [target : STRING, contains : BOOLEAN, metadata : STRING, region : STRING,
   endpoint : STRING, virtual : BOOLEAN, access : BOOLEAN, secret : BOOLEAN]

S3World ==
  [served : STRING, public : BOOLEAN, object : {"missing", "plain", "marked", "too-large"},
   metadata : BOOLEAN]

DNSOptions ==
  {o \in [target : STRING, type : STRING, resolver : STRING, contains : BOOLEAN,
          equals : SUBSET STRING, min : Int, absent : BOOLEAN, mode : STRING,
          server : STRING, rcode : STRING, tcp : BOOLEAN, edns0 : BOOLEAN, size : Int] :
     IsFiniteSet(o.equals)}

(* Marked is what --contains looks for.                                    *)
DNSRecord ==
  {r \in [owner : STRING, type : STRING, value : STRING, marked : BOOLEAN] :
     r.marked = (r.value = "1")}

DNSWorld ==
  {w \in [link : {"answers", "not-found", "other"}, echoes : BOOLEAN, truncated : BOOLEAN,
          rcode : RCodes, records : SUBSET DNSRecord, overTCP : SUBSET DNSRecord] :
     IsFiniteSet(w.records) /\ IsFiniteSet(w.overTCP)}

NTPOptions == [target : STRING, maxOffset : STRING, timeout : STRING]

(* The clock of the server is ahead, or behind, and not before its era.    *)
NTPWorld ==
  {w \in [link : STRING, header : STRING, clock : Nat, ahead : Int, held : Nat] :
     w.clock + w.ahead > 0}

GRPCOptions ==
  [target : STRING, service : STRING, method : STRING, status : STRING, tls : BOOLEAN,
   reflect : BOOLEAN, timeout : STRING]

GRPCWorld ==
  [listens : {"tls", "cleartext"}, symbols : SUBSET STRING, reply : STRING,
   health : (GRPCStatuses \ {"UNKNOWN"}) \cup {"omitted", "beyond-the-enum"}]

(***************************************************************************)
(* Tools and the cluster                                                   *)
(***************************************************************************)
DockerOptions == [target : STRING, status : STRING, health : STRING]

DockerWorld ==
  [tool : STRING, status : DockerStatuses \ {"any"}, health : DockerHealths \ {"unset"}]

SystemdOptions == [target : STRING, states : SUBSET {"active", "inactive", "failed"}]

SystemdWorld == [tool : STRING, load : {"loaded", "not-found"}, state : STRING]

LaunchdOptions == [target : STRING, states : SUBSET {"loaded", "running"}]

LaunchdWorld == [tool : STRING, pid : {"none", "0", "7"}]

CosignOptions ==
  [target : STRING, blob : BOOLEAN, key : STRING, signature : STRING, certificate : STRING,
   identity : STRING, issuer : STRING]

CosignWorld ==
  [tool : STRING,
   verifies : SUBSET [command : {"verify", "verify-blob"}, signature : STRING, key : STRING,
                      certificate : STRING, identity : STRING, issuer : STRING]]

ICMPOptions == [target : STRING, count : Int, timeout : STRING]

ICMPWorld == [tool : STRING, replies : BOOLEAN]

ExecOptions ==
  [separator : BOOLEAN, command : STRING, target : STRING, env : STRING, exit : Int,
   limit : Int, contains : Nat, json : STRING]

ExecWorld ==
  [run : {"ended", "not-started", "cancelled"}, code : -1..255, at : Nat, doc : STRING]

LogOptions ==
  [target : STRING, contains : STRING, matches : STRING, json : STRING, exclude : STRING,
   fromStart : BOOLEAN, tail : Int, min : Int]

LogWorld ==
  {w \in [file : STRING, lines : Seq(SUBSET {"contains", "matches", "json", "excluded"}),
          old : Nat, read : Nat] : w.old <= Len(w.lines)}

K8sOptions ==
  [target : STRING, resource : [kind : STRING, slash : BOOLEAN, name : BOOLEAN],
   condition : {"unset", "Ready", "Failed", "Complete"}, json : STRING, for : STRING,
   selector : STRING, all : BOOLEAN]

(* A daemon set counts one pod for each node that wants one; the other     *)
(* workloads may have more pods than they want.                            *)
K8sObject ==
  {obj \in [kind : STRING, named : BOOLEAN, phase : STRING,
            conditions : [{"Ready", "Failed", "Complete"} -> {"True", "False", "none"}],
            matches : {"true", "false", "error"}, generation : Nat, observed : Nat,
            desired : Nat, deadline : BOOLEAN, old : Nat,
            new : [available : Nat, ready : Nat, starting : Nat]] :
     obj.kind = "daemonset" => Updated(obj) + obj.old <= obj.desired}

(* A name is given to one object of a kind.                                *)
K8sWorld ==
  {w \in [api : STRING, many : BOOLEAN, objects : SUBSET K8sObject] :
     \A x, y \in w.objects : x.named /\ y.named /\ x.kind = y.kind => x = y}

-----------------------------------------------------------------------------

BackendNames ==
  {"http", "tcp", "unix", "ports", "tls", "ssh", "s3", "dns", "ntp", "grpc", "file", "glob",
   "process", "pidfile", "lockfile", "permission", "checksum", "archive", "docker", "systemd",
   "launchd", "cosign", "icmp", "exec", "log", "k8s", "websocket"}

OptionsOf(b) ==
  CASE b = "http" -> HTTPOptions         [] b \in {"tcp", "unix"} -> TargetOptions
    [] b = "ports" -> PortsOptions       [] b = "tls" -> TLSOptions
    [] b = "ssh" -> SSHOptions           [] b = "s3" -> S3Options
    [] b = "dns" -> DNSOptions           [] b = "ntp" -> NTPOptions
    [] b = "grpc" -> GRPCOptions         [] b = "file" -> FileOptions
    [] b = "glob" -> GlobOptions         [] b = "process" -> ProcessOptions
    [] b = "pidfile" -> PIDFileOptions   [] b = "lockfile" -> LockfileOptions
    [] b = "permission" -> PermissionOptions
    [] b = "checksum" -> ChecksumOptions [] b = "archive" -> ArchiveOptions
    [] b = "docker" -> DockerOptions     [] b = "systemd" -> SystemdOptions
    [] b = "launchd" -> LaunchdOptions   [] b = "cosign" -> CosignOptions
    [] b = "icmp" -> ICMPOptions         [] b = "exec" -> ExecOptions
    [] b = "log" -> LogOptions           [] b = "k8s" -> K8sOptions
    [] b = "websocket" -> WebSocketOptions

WorldsOf(b) ==
  CASE b = "http" -> HTTPWorld           [] b \in {"tcp", "unix"} -> DialWorld
    [] b = "ports" -> PortsWorld         [] b = "tls" -> TLSWorld
    [] b = "ssh" -> SSHWorld             [] b = "s3" -> S3World
    [] b = "dns" -> DNSWorld             [] b = "ntp" -> NTPWorld
    [] b = "grpc" -> GRPCWorld           [] b = "file" -> FileWorld
    [] b = "glob" -> GlobWorld           [] b = "process" -> ProcessWorld
    [] b = "pidfile" -> PIDFileWorld     [] b = "lockfile" -> LockfileWorld
    [] b = "permission" -> PermissionWorld
    [] b = "checksum" -> ChecksumWorld   [] b = "archive" -> ArchiveWorld
    [] b = "docker" -> DockerWorld       [] b = "systemd" -> SystemdWorld
    [] b = "launchd" -> LaunchdWorld     [] b = "cosign" -> CosignWorld
    [] b = "icmp" -> ICMPWorld           [] b = "k8s" -> K8sWorld
    [] b = "exec" -> ExecWorld           [] b = "log" -> LogWorld
    [] b = "websocket" -> WebSocketWorld
=============================================================================
