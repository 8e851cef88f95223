--------------------------- MODULE NetworkBackends ---------------------------
(***************************************************************************)
(* The backends that connect to a server, each as Parse, Valid and Check   *)
(* (see LocalBackends). An address is "h:1", or a case that net.SplitHost- *)
(* Port or a later test tells apart from it.                               *)
(***************************************************************************)
EXTENDS LocalBackends, Sequences

Addresses == {"h:1", "h:", ":1", "bad", "blank"}

SplitHostPort(a) == a \notin {"bad", "blank"}

(***************************************************************************)
(* http: the URL is tested by the parser and, more strictly, by the check  *)
(***************************************************************************)
HTTPHeaderNames(headers) ==
  CASE headers = "none" -> {}
    [] headers = "Authorization" -> {"Authorization"}
    [] OTHER -> {"X"}

ParseHTTPURL(url) == url \notin {"relative", "ftp"}

ParseBodyContent(o) ==
  /\ ~ (o.body # "unset" /\ o.file # "unset")
  /\ o.file \in {"unset", "readable"}

CompileMatchers(o) == o.matches # "(" /\ o.json # "bad"

ParseHTTPHeaders(o) == o.headers \notin {"malformed", "bad-name", "bad-value", "twice"}

HTTPAuthMode(o) ==
  IF o.bearer # "unset" THEN IF o.user \/ o.password THEN "conflict" ELSE "bearer"
  ELSE IF o.user # o.password THEN "incomplete-basic"
  ELSE IF o.user THEN "basic" ELSE "none"

ApplyHTTPAuth(o) ==
  \/ HTTPAuthMode(o) = "none"
  \/ (HTTPAuthMode(o) \in {"bearer", "basic"} /\ o.headers # "Authorization")

LoadClientCertificate(o) == o.cert = o.key /\ o.cert \in {"unset", "pem"}

StatusMatchers == {"unset", "200", "2xx", "404", "204", "103"}

(* What validateHTTPHeaders will say of the headers, the one of the login  *)
(* included: "64" are as many as there may be, "32KiB" as much.            *)
HTTPHeadersPass(o) ==
  /\ o.headers \notin {"65", "33KiB"}
  /\ o.headers \in {"64", "32KiB"} => HTTPAuthMode(o) = "none"
  /\ o.bearer # "control-character"

(* What is looked for in the body. *)
HTTPMatchers(o) ==
  (IF o.contains # "unset" THEN {"contains"} ELSE {})
    \cup (IF o.matches # "unset" THEN {"matches"} ELSE {})
    \cup (IF o.json # "unset" THEN {"json"} ELSE {})

ParseHTTP(o) ==
  When(/\ One(o) /\ ParseHTTPURL(o.target)
       /\ o.status \in StatusMatchers
       /\ ParseBodyContent(o) /\ CompileMatchers(o) /\ ParseHTTPHeaders(o)
       /\ ApplyHTTPAuth(o) /\ LoadClientCertificate(o),
       [url |-> o.target, method |-> o.method,
        status |-> IF o.status = "unset" THEN "200" ELSE o.status,
        body |-> o.body, contains |-> o.contains,
        matchers |-> HTTPMatchers(o), any |-> o.matches = ".*",
        headers |-> HTTPHeaderNames(o.headers)
                    \cup (IF HTTPAuthMode(o) = "none" THEN {} ELSE {"Authorization"}),
        pass |-> HTTPHeadersPass(o), stay |-> o.stay, insecure |-> o.insecure])

ValidHTTP(c) ==
  /\ ParseHTTPURL(c.url)
  /\ c.url \notin {"userinfo", "fragment", "no-hostname", "empty-port", "port-0"}
  /\ c.method # "bad-token"
  /\ c.body # "too-large" /\ c.contains # "too-large"
  /\ c.pass

StatusMatches(matcher, code) ==
  CASE matcher = "2xx" -> code \div 100 = 2
    [] matcher = "404" -> code = 404
    [] matcher = "204" -> code = 204
    [] matcher = "103" -> code = 103
    [] OTHER -> code = 200

(* w.hops are the origins that redirects lead through, compared with the   *)
(* one of the URL: "first", "other-port", "other-host". Without headers of *)
(* the user the client's own policy stops at the tenth redirect.           *)
Redirected(c, w) == w.hops # <<>> /\ ~ c.stay

RedirectsFollowed(c, w) == Redirected(c, w) => c.headers # {} \/ Len(w.hops) < 10

(* The headers that reach the server at the end: none if it is of another  *)
(* origin, all again back at the first, but the client gives no more       *)
(* credentials once a redirect led to another host.                        *)
HeadersAfter(c, w) ==
  IF w.hops[Len(w.hops)] # "first" THEN {}
  ELSE IF \E i \in DOMAIN w.hops : w.hops[i] = "other-host"
  THEN c.headers \ {"Authorization"} ELSE c.headers

(* The status of the last response; the server at the end of a redirect    *)
(* wants what w.wants names.                                               *)
FinalStatus(c, w) ==
  IF w.hops = <<>> THEN w.status
  ELSE IF ~ Redirected(c, w) THEN 302
  ELSE IF w.wants \subseteq HeadersAfter(c, w) THEN w.status ELSE 401

(* An answer to HEAD has no body, nor has one with such a status.          *)
HasBody(c, code) == c.method # "HEAD" /\ code \notin {204, 304}

(* The pattern .*, for those that the empty text matches, is found without *)
(* a body too.                                                             *)
CheckResponseBody(c, has) ==
  c.matchers \subseteq has \cup (IF c.any THEN {"matches"} ELSE {})

ReadHTTPBody(c, w) ==
  w.body # "error" /\ ~ (c.matchers # {} /\ w.body = "too-large")

(* The body is read before the status is looked at.                        *)
CheckHTTP(c, w) ==
  LET code == FinalStatus(c, w) IN
  Verdict(/\ w.link = "answers" \/ (w.link = "untrusted" /\ c.insecure)
          /\ RedirectsFollowed(c, w)
          /\ HasBody(c, code) => ReadHTTPBody(c, w)
          /\ StatusMatches(c.status, code)
          /\ CheckResponseBody(c, IF HasBody(c, code) THEN w.has ELSE {}))

(***************************************************************************)
(* websocket: the parser leaves the URL to the check; the talk with the    *)
(* server is in WebSocket, here only what it comes to: w.closed is the     *)
(* code of the close frame, -1 without one, w.text the first message       *)
(***************************************************************************)
ParseWebSocket(o) ==
  When(/\ One(o) /\ ParseHTTPHeaders(o)
       /\ o.matches # "(" /\ o.timeout # "bad" /\ o.read # "bad",
       [url |-> o.target, headers |-> o.headers, send |-> o.send, timeout |-> o.timeout,
        read |-> o.read, close |-> o.close, ping |-> o.ping, contains |-> o.contains,
        matches |-> o.matches])

ValidWebSocketURL(url) ==
  url \notin {"http", "no-host", "userinfo", "fragment", "empty-port", "port-0"}

(* Of headers 32 are allowed, and 16 KiB, and none that the handshake      *)
(* itself sends.                                                           *)
ValidWebSocketHeaders(headers) ==
  headers \notin {"33", "64", "65", "17KiB", "32KiB", "33KiB", "reserved"}

ValidWebSocket(c) ==
  /\ ValidWebSocketURL(c.url)
  /\ c.send # "too-large"
  /\ "-1s" \notin {c.timeout, c.read}
  /\ c.close <= 65535
  /\ ValidWebSocketHeaders(c.headers)

ReadsText(c) == c.contains \/ c.matches # "unset"

WebSocketMatches(c, message) ==
  /\ c.contains => message = "marked"
  /\ c.matches # "unset" => message = "marked" \/ c.matches = ".*"

(* With a close code the message that is matched is empty.                 *)
CheckWebSocket(c, w) ==
  Verdict(/\ w.link = "switches"
          /\ c.ping => w.pong
          /\ IF c.close >= 0
             THEN w.closed = c.close /\ WebSocketMatches(c, "empty")
             ELSE ReadsText(c) => w.text # "none" /\ WebSocketMatches(c, w.text))

(***************************************************************************)
(* tcp, unix, ports                                                        *)
(***************************************************************************)
ParseTCP(o) == When(One(o) /\ SplitHostPort(o.target), [address |-> o.target])

ValidTCP(c) == SplitHostPort(c.address) /\ c.address # "h:"

ParseUnix(o) == When(One(o) /\ o.target # "blank", [path |-> o.target])

ValidUnix(c) == c.path # "blank"

CheckDial(c, w) == Verdict(w.dial = "connected")

PortRange(first, last) == first >= 1 /\ last <= 65535 /\ first <= last

ParsePorts(o) ==
  When(One(o) /\ o.range # <<>> /\ PortRange(o.range[1], o.range[2]) /\ ~ (o.any /\ o.all),
       [host |-> o.target, range |-> o.range, any |-> o.any])

ValidPorts(c) ==
  /\ c.host # "blank"
  /\ \A i \in 1..2 : c.range[i] >= 1 /\ c.range[i] <= 65535
  /\ c.range[1] <= c.range[2]

(* The ports are dialled one after another: w.opened are open when their   *)
(* turn is up; the deadline of the attempt passes at w.deadline. One open  *)
(* port ends the scan if any will do.                                      *)
Scanned(c, w) ==
  LET range == c.range[1]..c.range[2]
      hit == range \cap w.opened
  IN IF c.any /\ hit # {} THEN {p \in range : \A h \in hit : p <= h} ELSE range

CheckPorts(c, w) ==
  LET scanned == Scanned(c, w)
  IN Verdict(/\ \A p \in scanned : p < w.deadline
             /\ IF c.any THEN scanned \cap w.opened # {}
                         ELSE scanned \subseteq w.opened)

(***************************************************************************)
(* tls: times are days; the handshake itself verifies chain and name       *)
(***************************************************************************)
TLSServerName(c) ==
  IF c.name # "unset" THEN c.name ELSE IF c.address = ":1" THEN "unset" ELSE "h"

(* --valid-for in days or as a duration; Unset stands for what is refused. *)
ValidForDays(text) ==
  CASE text \in {"unset", "0d"} -> 0
    [] text \in {"720h", "30d"} -> 30
    [] text = "106751d" -> 106751
    [] OTHER -> Unset

ParseTLS(o) ==
  When(/\ One(o) /\ SplitHostPort(o.target)
       /\ ValidForDays(o.validFor) # Unset
       /\ o.ca \in {"unset", "pem"},
       [address |-> o.target, name |-> o.name, validFor |-> ValidForDays(o.validFor),
        ca |-> o.ca = "pem"])

ValidTLS(c) == SplitHostPort(c.address) /\ TLSServerName(c) # "unset" /\ c.validFor >= 0

InWindow(c, w) ==
  /\ w.day >= w.from /\ w.day <= w.until
  /\ c.validFor > 0 => w.day + c.validFor <= w.until

CheckTLS(c, w) ==
  Verdict(/\ w.issuer = "system" \/ (w.issuer = "ca" /\ c.ca)
          /\ TLSServerName(c) \in w.names
          /\ InWindow(c, w))

(***************************************************************************)
(* ssh: a login needs the fingerprint of the host key; without a login the *)
(* banner is all that is looked at                                         *)
(***************************************************************************)
ParseSSH(o) ==
  When(/\ One(o) /\ SplitHostPort(o.target)
       /\ o.user = o.password
       /\ o.user => o.key # "unset",
       [address |-> o.target, banner |-> o.banner, login |-> o.user, key |-> o.key])

ValidSSH(c) ==
  /\ SplitHostPort(c.address)
  /\ c.login => c.key # "unset"
  /\ c.key # "not-base64"

BannerLines == 20

(* w.line is the number of the banner among the lines sent, 0 for none; it *)
(* is one line of printable text. A login does not look for c.banner.      *)
BannerContains(c, w) == c.banner # "unset" => c.banner # "two-lines" /\ w.marked

CheckSSH(c, w) ==
  Verdict(/\ w.dial = "connected"
          /\ IF c.login
             THEN w.key = c.key /\ w.admits
             ELSE w.line \in 1..BannerLines /\ BannerContains(c, w))

(***************************************************************************)
(* s3                                                                      *)
(***************************************************************************)
S3Objects == {"bucket", "object"}

EndpointURLs == {"unset", "https", "http"}

S3Region(o) == IF o.region = "unset" THEN "us-east-1" ELSE o.region

ParseS3(o) ==
  When(/\ One(o) /\ o.target \in S3Objects
       /\ o.metadata # "malformed"
       /\ (o.contains \/ o.metadata # "none") => o.target = "object"
       /\ S3Region(o) # "blank"
       /\ o.endpoint \in EndpointURLs
       /\ ~ (o.endpoint = "http" /\ o.access),
       [url |-> o.target, contains |-> o.contains, metadata |-> o.metadata # "none",
        region |-> S3Region(o), endpoint |-> o.endpoint, virtual |-> o.virtual,
        access |-> o.access, secret |-> o.secret])

ValidS3(c) ==
  /\ c.url \in S3Objects
  /\ (c.contains \/ c.metadata) => c.url = "object"
  /\ c.region # "blank"
  /\ c.endpoint \in EndpointURLs
  /\ c.access = c.secret
  /\ ~ (c.endpoint = "http" /\ c.access)

(* Where the bucket is looked for, and whether the request is signed.      *)
S3Host(c) ==
  IF c.endpoint = "unset" THEN "aws"
  ELSE IF c.virtual THEN "bucket.endpoint" ELSE "endpoint/bucket"

(* What is required of the object itself; "too-large" has the marker at    *)
(* its beginning and is longer than what is read.                          *)
CheckS3Object(c, w) ==
  /\ c.url = "object" => w.object # "missing"
  /\ c.metadata => w.metadata
  /\ c.contains => w.object = "marked"

CheckS3(c, w) ==
  Verdict(/\ w.served = S3Host(c)
          /\ w.public \/ c.access
          /\ CheckS3Object(c, w))
=============================================================================
