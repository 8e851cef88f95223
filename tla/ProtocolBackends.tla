--------------------------- MODULE ProtocolBackends ---------------------------
(***************************************************************************)
(* dns, ntp and grpc: the backends that decode an answer of their own      *)
(* protocol, each as Parse, Valid and Check (see LocalBackends).           *)
(***************************************************************************)
EXTENDS LocalBackends

(***************************************************************************)
(* dns                                                                     *)
(***************************************************************************)
SystemRecordTypes == {"A", "AAAA", "CNAME", "TXT", "ANY"}

RecordTypes == SystemRecordTypes \cup {"MX", "SRV", "NS", "CAA", "HTTPS", "SVCB"}

RCodes == {"NOERROR", "NXDOMAIN", "SERVFAIL"}

(* A server without a port gets port 53. *)
NormalizeDNSServer(s) ==
  CASE s \in {"unset", "bad"} -> s
    [] OTHER -> "s:53"

DNSMatchersFit(q) ==
  /\ q.min >= 0
  /\ q.absent => ~ q.contains /\ q.equals = {} /\ q.min <= 0

WireOnly(o) == o.rcode # "unset" \/ o.tcp \/ o.edns0 \/ o.size > 0

NormalizeDNSOptions(o) ==
  /\ o.type \in RecordTypes
  /\ o.resolver \in {"system", "wire"}
  /\ o.resolver = "system" => o.type \in SystemRecordTypes
  /\ DNSMatchersFit(o)
  /\ o.mode \in {"any", "nxdomain", "nodata"}
  /\ o.mode # "any" => o.resolver = "wire"
  /\ o.rcode \in RCodes \cup {"unset"}
  /\ WireOnly(o) => o.resolver = "wire"
  /\ o.size >= 0 /\ o.size <= 65535
  /\ NormalizeDNSServer(o.server) # "bad"
  /\ o.resolver = "wire" => o.server # "unset"

ParseDNS(o) ==
  When(One(o) /\ o.target # "bad" /\ NormalizeDNSOptions(o),
       [o EXCEPT !.server = NormalizeDNSServer(o.server)])

ValidDNS(c) ==
  /\ c.target # "bad"
  /\ NormalizeDNSServer(c.server) # "bad"
  /\ c.type \in RecordTypes
  /\ c.resolver \in {"system", "wire"} /\ c.mode \in {"any", "nxdomain", "nodata"}
  /\ c.rcode \in RCodes \cup {"unset"}
  /\ c.size > 0 => c.size >= 512
  /\ c.resolver = "wire" => c.server # "unset"
  /\ DNSMatchersFit(c)
  /\ c.resolver = "system" => /\ c.rcode = "unset" /\ c.mode = "any"
                              /\ c.type \in SystemRecordTypes

(* The names an answer may be about: the one asked for and, round by       *)
(* round, what a CNAME record of an accepted name points to, until nothing *)
(* changes: there are no more such rounds than records.                    *)
Round(records, owners) ==
  owners \cup {r.value : r \in {s \in records : s.type = "CNAME" /\ s.owner \in owners}}

AcceptedOwners(records, host) ==
  LET reach[n \in 0..Cardinality(records)] ==
        IF n = 0 THEN {host} ELSE Round(records, reach[n - 1])
  IN reach[Cardinality(records)]

WireValues(c, records) ==
  {r \in records : /\ r.owner \in AcceptedOwners(records, c.target)
                   /\ c.type \in {"ANY", r.type}}

(* The resolver of the system follows the aliases: asked for a CNAME it    *)
(* gives the last name of the chain, the name itself if there is no chain; *)
(* ANY is any address.                                                     *)
SystemValues(c, records) ==
  LET owners == AcceptedOwners(records, c.target)
      canonical == CHOOSE n \in owners :
                     ~ \E r \in records : r.type = "CNAME" /\ r.owner = n
      types == IF c.type = "ANY" THEN {"A", "AAAA"} ELSE {c.type}
  IN IF c.type = "CNAME"
     THEN {[owner |-> c.target, type |-> "CNAME", value |-> canonical,
             marked |-> canonical = "1"]}
     ELSE {r \in records : r.owner \in owners /\ r.type \in types}

(* What the lookup returns: an error, or the response code and the values. *)
(* The system resolver has an error for a name without an answer. A        *)
(* truncated answer over udp is asked for again over tcp; the answer must  *)
(* repeat the question.                                                    *)
Lookup(c, w) ==
  LET system == c.resolver = "system"
      nothing == w.link = "not-found"
                 \/ (w.link = "answers" /\ SystemValues(c, w.records) = {})
      reply == IF w.truncated /\ ~ c.tcp THEN w.overTCP ELSE w.records
  IN [error |-> IF system /\ nothing THEN "not-found"
                ELSE IF w.link # "answers" \/ (~ system /\ ~ w.echoes) THEN "other"
                ELSE "none",
      rcode |-> IF system THEN "NOERROR" ELSE w.rcode,
      values |-> IF system THEN SystemValues(c, w.records) ELSE WireValues(c, reply)]

Absent(c, found) ==
  CASE c.mode = "nxdomain" -> found.rcode = "NXDOMAIN"
    [] c.mode = "nodata" -> found.rcode = "NOERROR" /\ found.values = {}
    [] OTHER -> found.rcode = "NXDOMAIN" \/ found.values = {}

CheckDNS(c, w) ==
  LET found == Lookup(c, w)
      plain == ~ c.contains /\ c.equals = {} /\ c.min = 0
  IN IF found.error # "none"
     THEN Verdict(found.error = "not-found" /\ c.absent /\ c.mode = "any")
     ELSE IF c.rcode \notin {"unset", found.rcode} THEN "unsatisfied"
     ELSE IF c.absent THEN Verdict(Absent(c, found))
     ELSE IF c.rcode # "unset" /\ plain THEN "satisfied"
     ELSE Verdict(/\ found.values # {}
                  /\ Cardinality(found.values) >= c.min
                  /\ c.contains => \E r \in found.values : r.marked
                  /\ c.equals \subseteq {r.value : r \in found.values})

(***************************************************************************)
(* ntp: seconds since 1900; a timestamp on the wire has them modulo Era    *)
(***************************************************************************)
Era == 1000

Duration(text) ==
  CASE text = "bad" -> Unset [] text = "-1s" -> -1 [] text = "5s" -> 5 [] OTHER -> 0

ParseNTP(o) ==
  When(One(o) /\ Duration(o.maxOffset) # Unset /\ Duration(o.timeout) # Unset,
       [address |-> o.target, maxOffset |-> Duration(o.maxOffset),
        timeout |-> Duration(o.timeout)])

ValidNTP(c) ==
  /\ c.address \notin {"blank", ":1", "h:0", "h:", "[h]"}
  /\ c.maxOffset >= 0 /\ c.timeout >= 0

NTPHeaderFits(h) == h = "good"

Abs(n) == IF n < 0 THEN - n ELSE n

(* w.clock: the time here; w.ahead: by how much the server's is ahead;     *)
(* w.held: how long the server kept the request.                           *)
NTPOffset(w) ==
  LET received == (w.clock + w.ahead) % Era
      sent == (w.clock + w.ahead + w.held) % Era
  IN ((received - w.clock) + (sent - (w.clock + w.held))) \div 2

CheckNTP(c, w) ==
  LET stamp(t) == (w.clock + w.ahead + t) % Era
  IN Verdict(/\ w.link = "answers" /\ NTPHeaderFits(w.header)
             /\ stamp(0) # 0 /\ stamp(w.held) # 0
             /\ stamp(0) <= stamp(w.held)
             /\ c.maxOffset > 0 => Abs(NTPOffset(w)) <= c.maxOffset)

(***************************************************************************)
(* grpc                                                                    *)
(***************************************************************************)
GRPCStatuses == {"SERVING", "NOT_SERVING", "UNKNOWN", "SERVICE_UNKNOWN"}

ParseGRPC(o) ==
  When(One(o) /\ Duration(o.timeout) # Unset,
       [address |-> o.target, service |-> o.service, method |-> o.method,
        status |-> o.status, tls |-> o.tls, reflect |-> o.reflect,
        timeout |-> Duration(o.timeout)])

GRPCCleartext(a) == a \in {"grpc://h:1", "http://h:1"}

ValidGRPC(c) ==
  /\ c.address # "blank"
  /\ c.status \in GRPCStatuses
  /\ c.timeout >= 0
  /\ ~ (c.tls /\ GRPCCleartext(c.address))
  /\ c.service # "too-long"
  /\ c.method \notin {"S/M", "/S?"}

(* The URL is built when the check asks; an address that gives none is an  *)
(* answer that is not there yet.                                           *)
GRPCTransport(c) ==
  IF c.address \in {"h", "ftp://h:1", "grpc://u@h:1"} THEN "none"
  ELSE IF c.tls \/ c.address \in {"grpcs://h:1", "https://h:1"} THEN "tls" ELSE "cleartext"

(* What reflection is asked about. *)
(* Fault: about the method itself. *)
ReflectionSymbolMethod(c) ==
  IF c.method # "unset" THEN "method"
  ELSE IF c.service # "unset" THEN c.service ELSE "health"

ReflectionSymbol(c) ==
  IF c.method # "unset" THEN "service-of-method"
  ELSE IF c.service # "unset" THEN c.service ELSE "health"

(* The status in the payload; a zero status is left out by proto3 encoders *)
(* and then is an error.                                                   *)
DecodeHealth(w) == IF w.health \in GRPCStatuses THEN w.health ELSE "error"

(* Content type, trailers and framing of the answer.                       *)
PayloadIsGood(w) == w.reply = "one-frame-grpc-status-0"

ReflectionKnows(c, w) == ReflectionSymbol(c) \in w.symbols

CheckGRPC(c, w) ==
  Verdict(/\ GRPCTransport(c) = w.listens
          /\ c.reflect => ReflectionKnows(c, w)
          /\ PayloadIsGood(w)
          /\ DecodeHealth(w) = c.status)
=============================================================================
