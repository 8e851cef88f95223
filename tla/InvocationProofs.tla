--------------------------- MODULE InvocationProofs ---------------------------
(***************************************************************************)
(* What one command line comes to. Its global options: precedence of their *)
(* sources and validity of what a run starts with, for all flags, profiles *)
(* and recipes (Options). Its conditions, for any text or number where an  *)
(* option takes any and whatever a check may observe: what is accepted is  *)
(* usable but for the exceptions listed, and a verdict is what the words   *)
(* ask for (Invocation).                                                   *)
(***************************************************************************)
EXTENDS Invocation, Options, FiniteSetTheorems, WellFoundedInduction, TLAPS

-----------------------------------------------------------------------------
(***************************************************************************)
(* The global options                                                      *)
(***************************************************************************)
(* The options after parseGlobal, and after a recipe was applied to them.  *)
First == MaxDefaulted(FlagsApplied(ProfileDefaults(profile)))
Filled == IF config THEN MaxDefaulted(RecipeApplied(First)) ELSE First

PolledList == IF cliList = "none" THEN recipeList ELSE cliList

InputInv ==
  /\ flags \in FlagChoices
  /\ config => recipe \in RecipeChoices
  /\ ~ config => recipe = [f \in Fields |-> NotGiven]
  /\ cliList \in Lists /\ recipeList \in Lists

(* What each function of the sequence may rely on.                         *)
StageInv ==
  /\ pc = "recipe" => config /\ opts = First
  /\ pc = "conditions" => opts = Filled /\ Valid(opts) /\ cliList # "none"
  /\ pc = "run" => opts = Filled /\ Valid(opts) /\ conditions = PolledList
  /\ result # "none" => pc = "done"
  /\ Done => opts = Filled /\ RunnerValid(opts) /\ conditions = PolledList /\ conditions = "good"

OptionsInv == OptionsTypeOK /\ InputInv /\ StageInv

-----------------------------------------------------------------------------
(* A default for the maximum changes no other field.                       *)
LEMMA MaxDefaultedFields ==
  ASSUME NEW o, DOMAIN o = Fields, o = [f \in Fields |-> o[f]]
  PROVE  /\ MaxDefaulted(o) = [f \in Fields |-> MaxDefaulted(o)[f]]
         /\ DOMAIN MaxDefaulted(o) = Fields
         /\ \A f \in Fields \ {"maxInterval"} : MaxDefaulted(o)[f] = o[f]
         /\ o["maxInterval"] # 0 => MaxDefaulted(o)["maxInterval"] = o["maxInterval"]
  BY DEF MaxDefaulted, Fields, Durations, Words

(* A profile changes neither the count of successes nor the maximum.       *)
LEMMA DefaultsAreOptions ==
  /\ ProfileDefaults(profile) = [f \in Fields |-> ProfileDefaults(profile)[f]]
  /\ DOMAIN ProfileDefaults(profile) = Fields
  /\ ProfileDefaults(profile)["requiredSuccesses"] = 1
  /\ ProfileDefaults(profile)["maxInterval"] = 0
<1>1. /\ Default = [f \in Fields |-> Default[f]]
      /\ DOMAIN Default = Fields
      /\ Default["requiredSuccesses"] = 1
      /\ Default["maxInterval"] = 0
  BY DEF Default, Fields, Durations, Words
<1>2. {"timeout", "interval", "output", "verbose", "requiredSuccesses", "maxInterval"} \subseteq Fields
  BY DEF Fields, Durations, Words
<1> DEFINE Timed(t) == [Default EXCEPT !["timeout"] = t]
           Paced(t, i) == [Timed(t) EXCEPT !["interval"] = i]
<1>3. ASSUME NEW t
      PROVE  /\ Timed(t) = [f \in Fields |-> Timed(t)[f]]
             /\ DOMAIN Timed(t) = Fields
             /\ Timed(t)["requiredSuccesses"] = 1
             /\ Timed(t)["maxInterval"] = 0
  BY <1>1, <1>2
<1> HIDE DEF Timed
<1>4. ASSUME NEW t, NEW i
      PROVE  /\ Paced(t, i) = [f \in Fields |-> Paced(t, i)[f]]
             /\ DOMAIN Paced(t, i) = Fields
             /\ Paced(t, i)["requiredSuccesses"] = 1
             /\ Paced(t, i)["maxInterval"] = 0
  BY <1>2, <1>3
<1> HIDE DEF Paced
<1> DEFINE Said(t, i, f, v) == [Paced(t, i) EXCEPT ![f] = v]
<1>5. ASSUME NEW t, NEW i, NEW v, NEW g \in {"output", "verbose"}
      PROVE  /\ Said(t, i, g, v) = [f \in Fields |-> Said(t, i, g, v)[f]]
             /\ DOMAIN Said(t, i, g, v) = Fields
             /\ Said(t, i, g, v)["requiredSuccesses"] = 1
             /\ Said(t, i, g, v)["maxInterval"] = 0
  BY <1>2, <1>4
<1> HIDE DEF Said
<1>6. CASE profile = "ci"
  <2>1. ProfileDefaults(profile) = Said(1200, 2, "output", "json")
    BY <1>6 DEF ProfileDefaults, Paced, Timed, Said
  <2> QED
    BY <1>5, <2>1
<1>7. CASE profile = "local"
  <2>1. PICK v : v = TRUE
    OBVIOUS
  <2>2. ProfileDefaults(profile) = Said(240, 1, "verbose", v)
    BY <1>7, <2>1, Zenon DEF ProfileDefaults, Paced, Timed, Said
  <2> QED
    BY <1>5, <2>2
<1>8. CASE profile \notin {"ci", "local"}
  <2>1. ProfileDefaults(profile) = Default
    BY <1>8 DEF ProfileDefaults
  <2> QED
    BY <1>1, <2>1
<1> QED
  BY <1>6, <1>7, <1>8

(* What the flags leave: every field but the maximum is the flag's or the  *)
(* profile's.                                                              *)
LEMMA FirstFields ==
  /\ First = [f \in Fields |-> First[f]]
  /\ DOMAIN First = Fields
  /\ \A f \in Fields \ {"maxInterval"} :
       First[f] = IF Changed(f) THEN FlagValue(f) ELSE ProfileDefaults(profile)[f]
  /\ Changed("maxInterval") /\ FlagValue("maxInterval") # 0 =>
       First["maxInterval"] = FlagValue("maxInterval")
<1> DEFINE o == FlagsApplied(ProfileDefaults(profile))
<1>1. /\ o = [f \in Fields |-> o[f]]
      /\ DOMAIN o = Fields
      /\ \A f \in Fields : o[f] = IF Changed(f) THEN FlagValue(f) ELSE ProfileDefaults(profile)[f]
  BY DEF FlagsApplied
<1>2. "maxInterval" \in Fields
  BY DEF Fields, Durations
<1> HIDE DEF o
<1>3. First = MaxDefaulted(o)
  BY DEF First, o
<1> QED
  BY <1>1, <1>2, <1>3, MaxDefaultedFields

(* The options that were filled in step by step are the expected ones.     *)
LEMMA FilledIsExpected ==
  ASSUME InputInv
  PROVE  /\ DOMAIN Filled = Fields
         /\ \A f \in Fields \ {"maxInterval"} : Filled[f] = Expected(f)
         /\ Expected("maxInterval") # 0 => Filled["maxInterval"] = Expected("maxInterval")
<1>1. "maxInterval" \in Fields
  BY DEF Fields, Durations
<1>2. CASE ~ config
  <2>1. \A f \in Fields : ~ Stated(f)
    BY <1>2 DEF InputInv, Stated
  <2>2. \A f \in Fields :
          Expected(f) = IF Changed(f) THEN FlagValue(f) ELSE ProfileDefaults(profile)[f]
    BY <2>1 DEF Expected
  <2> QED
    BY <1>1, <1>2, <2>2, FirstFields, DefaultsAreOptions DEF Filled
<1>3. CASE config
  <2> DEFINE o == RecipeApplied(First)
  <2>1. /\ o = [f \in Fields |-> o[f]]
        /\ DOMAIN o = Fields
        /\ \A f \in Fields :
             o[f] = IF Stated(f) /\ ~ Changed(f) THEN RecipeValue(f) ELSE First[f]
    BY DEF RecipeApplied
  <2> HIDE DEF o
  <2>2. Filled = MaxDefaulted(o)
    BY <1>3 DEF Filled, o
  <2>3. /\ DOMAIN Filled = Fields
        /\ \A f \in Fields \ {"maxInterval"} : Filled[f] = o[f]
        /\ o["maxInterval"] # 0 => Filled["maxInterval"] = o["maxInterval"]
    BY <2>1, <2>2, MaxDefaultedFields
  <2>4. ASSUME NEW f \in Fields \ {"maxInterval"}  PROVE Filled[f] = Expected(f)
    BY <2>1, <2>3, FirstFields DEF Expected
  <2>5. ASSUME Expected("maxInterval") # 0
        PROVE  Filled["maxInterval"] = Expected("maxInterval")
    <3>1. o["maxInterval"] = Expected("maxInterval")
      BY <1>1, <2>1, <2>5, FirstFields, DefaultsAreOptions DEF Expected
    <3> QED
      BY <2>3, <2>5, <3>1
  <2> QED
    BY <2>3, <2>4, <2>5
<1> QED
  BY <1>2, <1>3

(* The count of successes is a number, whoever stated it.                  *)
LEMMA SuccessesAreCounted ==
  ASSUME InputInv
  PROVE  Filled["requiredSuccesses"] \in Int
<1>1. "requiredSuccesses" \in Fields \ {"maxInterval"}
  BY DEF Fields
<1>2. Changed("requiredSuccesses") => FlagValue("requiredSuccesses") \in Int
  BY OptionsAssumption DEF InputInv, Changed, FlagValue
<1>3. Stated("requiredSuccesses") => RecipeValue("requiredSuccesses") \in Int
  <2>1. CASE config
    BY <2>1, OptionsAssumption DEF InputInv, Stated, RecipeValue, Words
  <2>2. CASE ~ config
    BY <1>1, <2>2 DEF InputInv, Stated
  <2> QED
    BY <2>1, <2>2
<1> QED
  BY <1>1, <1>2, <1>3, FilledIsExpected, DefaultsAreOptions DEF Expected

-----------------------------------------------------------------------------

LEMMA OptionsInitInv == OptionsInit => OptionsInv
<1> SUFFICES ASSUME OptionsInit PROVE OptionsInv
  OBVIOUS
<1>1. OptionsTypeOK
  BY DEF OptionsInit, OptionsTypeOK, Default, Fields, Durations, Words
<1>2. InputInv
  BY DEF OptionsInit, InputInv, Lists
<1>3. StageInv
  BY DEF OptionsInit, StageInv, Done
<1> QED
  BY <1>1, <1>2, <1>3 DEF OptionsInv

(* The inputs stay, and with them all that is computed from them.          *)
LEMMA InputsStay ==
  ASSUME UNCHANGED input, InputInv
  PROVE  InputInv' /\ First' = First /\ Filled' = Filled /\ PolledList' = PolledList
<1> USE DEF input
<1>1. InputInv'
  BY DEF InputInv
<1>2. First' = First
  BY DEF First, FlagsApplied, Changed, FlagValue
<1>3. Filled' = Filled
  BY <1>2 DEF Filled, RecipeApplied, Stated, Changed, RecipeValue
<1> QED
  BY <1>1, <1>2, <1>3 DEF PolledList

LEMMA OptionsStepInv == OptionsInv /\ [OptionsNext]_optionVars => OptionsInv'
<1> SUFFICES ASSUME OptionsInv, [OptionsNext]_optionVars PROVE OptionsInv'
  OBVIOUS
<1> USE DEF OptionsInv
<1>1. CASE ParseGlobal
  <2>1. UNCHANGED input
    BY <1>1 DEF ParseGlobal
  <2>2. opts' = First /\ conditions' = conditions
    BY <1>1 DEF ParseGlobal, First
  <2>3. OptionsTypeOK'
    BY <1>1, <2>2, FirstFields DEF ParseGlobal, OptionsTypeOK, Refuse
  <2>4. StageInv'
    <3>1. CASE Refuse
      BY <3>1 DEF Refuse, StageInv, Done
    <3>2. CASE pc' = "recipe" /\ config /\ result' = result
      BY <1>1, <2>1, <2>2, <3>2, InputsStay DEF ParseGlobal, StageInv, Done, input
    <3>3. CASE pc' = "conditions" /\ ~ config /\ cliList # "none" /\ Valid(opts') /\ result' = result
      BY <1>1, <2>1, <2>2, <3>3, InputsStay DEF ParseGlobal, StageInv, Done, Filled, input
    <3> QED
      BY <1>1, <3>1, <3>2, <3>3 DEF ParseGlobal
  <2> QED
    BY <2>1, <2>3, <2>4, InputsStay
<1>2. CASE ApplyRecipe
  <2>1. UNCHANGED input
    BY <1>2 DEF ApplyRecipe
  <2>2. opts' = Filled
    BY <1>2 DEF ApplyRecipe, StageInv, Filled
  <2>3. OptionsTypeOK'
    BY <1>2, <2>2, FilledIsExpected DEF ApplyRecipe, OptionsTypeOK, Refuse, InputInv, Lists
  <2>4. StageInv'
    BY <1>2, <2>1, <2>2, InputsStay DEF ApplyRecipe, StageInv, Done, Refuse, PolledList, input
  <2> QED
    BY <2>1, <2>3, <2>4, InputsStay
<1>3. CASE ParseConditions
  <2>1. UNCHANGED input /\ opts' = opts
    BY <1>3 DEF ParseConditions
  <2>2. OptionsTypeOK'
    BY <1>3, <2>1 DEF ParseConditions, OptionsTypeOK, Refuse, InputInv, StageInv, Lists
  <2>3. StageInv'
    BY <1>3, <2>1, InputsStay DEF ParseConditions, StageInv, Done, Refuse, PolledList, input
  <2> QED
    BY <2>1, <2>2, <2>3, InputsStay
<1>4. CASE RunWithOptions
  <2>1. UNCHANGED input /\ opts' = opts /\ conditions' = conditions
    BY <1>4 DEF RunWithOptions
  <2>2. OptionsTypeOK'
    BY <1>4, <2>1 DEF RunWithOptions, OptionsTypeOK
  <2>3. StageInv'
    BY <1>4, <2>1, InputsStay DEF RunWithOptions, StageInv, Done
  <2> QED
    BY <2>1, <2>2, <2>3, InputsStay
<1>5. CASE Terminated \/ UNCHANGED optionVars
  <2>1. UNCHANGED <<input, pc, opts, conditions, result>>
    BY <1>5 DEF Terminated, optionVars
  <2>2. OptionsTypeOK' /\ StageInv'
    BY <2>1, InputsStay DEF OptionsTypeOK, StageInv, Done, input
  <2> QED
    BY <2>1, <2>2, InputsStay
<1> QED
  BY <1>1, <1>2, <1>3, <1>4, <1>5 DEF OptionsNext

(* What each step of the sequence may rely on, for all inputs.             *)
THEOREM OptionsInvariance == OptionsSpec => []OptionsInv
  BY OptionsInitInv, OptionsStepInv, PTL DEF OptionsSpec

(* Types hold: a list that did not parse never becomes the one polled, and *)
(* options have all their fields (globalOptions).                          *)
THEOREM OptionsTypeCorrect == OptionsSpec => []OptionsTypeOK
<1>1. OptionsInv => OptionsTypeOK
  BY DEF OptionsInv
<1> QED
  BY <1>1, OptionsInvariance, PTL

(* Whatever the flags, the profile and the recipe say, every field comes   *)
(* from the first of them that says something (applyRecipeOptions).        *)
THEOREM SourcesInOrder == OptionsSpec => []Precedence
<1>1. OptionsInv => Precedence
  BY FilledIsExpected DEF OptionsInv, StageInv, Precedence, PolledList
<1> QED
  BY <1>1, OptionsInvariance, PTL

(* The runner's own validation never refuses an option (runWithOptions).   *)
THEOREM RunnerNeverRefuses == OptionsSpec => []RunnerAccepts
<1>1. ASSUME OptionsInv, Valid(opts), opts = Filled
      PROVE  RunnerValid(opts) /\ opts.requiredSuccesses > 0
  <2>1. opts.requiredSuccesses \in Int
    BY <1>1, SuccessesAreCounted DEF OptionsInv
  <2> QED
    BY <1>1, <2>1 DEF Valid, RunnerValid
<1>2. OptionsInv => RunnerAccepts
  BY <1>1 DEF OptionsInv, StageInv, RunnerAccepts
<1> QED
  BY <1>2, OptionsInvariance, PTL

-----------------------------------------------------------------------------
(***************************************************************************)
(* Whatever a parser accepts and the check then refuses is on the list.    *)
(***************************************************************************)
LEMMA FileUsable ==
  ASSUME NEW o \in FileOptions, NEW c \in ParseFile(o), ~ ValidFile(c)
  PROVE  LateTarget("file", o) \/ LateOption("file", o)
  BY SMT DEF ParseFile, When, LateTarget, LateOption, ValidFile, FileOptions,
             AtMostOne

LEMMA GlobUsable ==
  ASSUME NEW o \in GlobOptions, NEW c \in ParseGlob(o), ~ ValidGlob(c)
  PROVE  LateTarget("glob", o) \/ LateOption("glob", o)
<1>1. GlobMinimum(o) \in Int
  BY DEF GlobMinimum, GlobOptions
<1> QED
  BY <1>1, SMT DEF ParseGlob, When, LateTarget, LateOption, ValidGlob,
                   GlobOptions, GlobMinimum, Unset

LEMMA ProcessUsable ==
  ASSUME NEW o \in ProcessOptions, NEW c \in ParseProcess(o), ~ ValidProcess(c)
  PROVE  LateTarget("process", o) \/ LateOption("process", o)
  BY SMT DEF ParseProcess, When, LateTarget, LateOption, ValidProcess,
             ProcessOptions

LEMMA PIDFileUsable ==
  ASSUME NEW o \in PIDFileOptions, NEW c \in ParsePIDFile(o), ~ ValidPIDFile(c)
  PROVE  LateTarget("pidfile", o) \/ LateOption("pidfile", o)
  BY SMT DEF ParsePIDFile, When, LateTarget, LateOption, ValidPIDFile,
             PIDFileOptions

LEMMA LockfileUsable ==
  ASSUME NEW o \in LockfileOptions, NEW c \in ParseLockfile(o), ~ ValidLockfile(c)
  PROVE  LateTarget("lockfile", o) \/ LateOption("lockfile", o)
  BY SMT DEF ParseLockfile, When, LateTarget, LateOption, ValidLockfile,
             LockfileOptions

LEMMA PermissionUsable ==
  ASSUME NEW o \in PermissionOptions, NEW c \in ParsePermission(o), ~ ValidPermission(c)
  PROVE  LateTarget("permission", o) \/ LateOption("permission", o)
  BY SMT DEF ParsePermission, When, LateTarget, LateOption, ValidPermission,
             PermissionOptions, ParseOwner, ParseMode, Owners, Unset

LEMMA ChecksumUsable ==
  ASSUME NEW o \in ChecksumOptions, NEW c \in ParseChecksum(o), ~ ValidChecksum(c)
  PROVE  LateTarget("checksum", o) \/ LateOption("checksum", o)
  BY SMT DEF ParseChecksum, When, LateTarget, LateOption, ValidChecksum,
             ChecksumOptions

LEMMA ArchiveUsable ==
  ASSUME NEW o \in ArchiveOptions, NEW c \in ParseArchive(o), ~ ValidArchive(c)
  PROVE  LateTarget("archive", o) \/ LateOption("archive", o)
  BY SMT DEF ParseArchive, When, LateTarget, LateOption, ValidArchive,
             ArchiveOptions

LEMMA HTTPUsable ==
  ASSUME NEW o \in HTTPOptions, NEW c \in ParseHTTP(o), ~ ValidHTTP(c)
  PROVE  LateTarget("http", o) \/ LateOption("http", o)
<1>1. /\ ParseHTTPURL(o.target) /\ ApplyHTTPAuth(o)
      /\ c.url = o.target /\ c.method = o.method /\ c.body = o.body /\ c.contains = o.contains
      /\ c.pass = HTTPHeadersPass(o)
  BY DEF ParseHTTP, When, HTTPOptions
<1>2. HTTPAuthMode(o) # "none" => o.bearer # "unset" \/ o.user
  BY <1>1 DEF ApplyHTTPAuth, HTTPAuthMode
<1>3. \/ c.url \in {"userinfo", "fragment", "no-hostname", "empty-port", "port-0"}
      \/ c.method = "bad-token" \/ "too-large" \in {c.body, c.contains}
      \/ ~ HTTPHeadersPass(o)
  BY <1>1 DEF ValidHTTP
<1>4. ~ HTTPHeadersPass(o) =>
        \/ o.headers \in {"65", "33KiB"} \/ o.bearer = "control-character"
        \/ o.headers \in {"64", "32KiB"} /\ (o.bearer # "unset" \/ o.user)
  BY <1>2 DEF HTTPHeadersPass
<1> QED
  BY <1>1, <1>3, <1>4 DEF LateTarget, LateOption

LEMMA WebSocketUsable ==
  ASSUME NEW o \in WebSocketOptions, NEW c \in ParseWebSocket(o), ~ ValidWebSocket(c)
  PROVE  LateTarget("websocket", o) \/ LateOption("websocket", o)
<1>1. /\ c.url = o.target /\ c.headers = o.headers /\ c.send = o.send
      /\ c.timeout = o.timeout /\ c.read = o.read /\ c.close = o.close /\ o.close \in Int
  BY DEF ParseWebSocket, When, WebSocketOptions
<1>2. c.close <= 65535 \/ o.close > 65535
  BY <1>1
<1>3. LateTarget("websocket", o) <=> ~ ValidWebSocketURL(o.target)
  BY DEF LateTarget
<1>4. LateOption("websocket", o) <=>
        \/ o.timeout = "-1s" \/ o.read = "-1s" \/ o.close > 65535
        \/ o.send = "too-large" \/ ~ ValidWebSocketHeaders(o.headers)
  BY DEF LateOption
<1>5. /\ ValidWebSocketURL(c.url) <=> ValidWebSocketURL(o.target)
      /\ ValidWebSocketHeaders(c.headers) <=> ValidWebSocketHeaders(o.headers)
  BY <1>1
<1>6. \/ ~ ValidWebSocketURL(c.url) \/ c.send = "too-large" \/ c.timeout = "-1s" \/ c.read = "-1s"
      \/ ~ (c.close <= 65535) \/ ~ ValidWebSocketHeaders(c.headers)
  BY DEF ValidWebSocket
<1> QED
  BY <1>1, <1>2, <1>3, <1>4, <1>5, <1>6

LEMMA TCPUsable ==
  ASSUME NEW o \in TargetOptions, NEW c \in ParseTCP(o), ~ ValidTCP(c)
  PROVE  LateTarget("tcp", o) \/ LateOption("tcp", o)
  BY SMT DEF ParseTCP, When, LateTarget, LateOption, ValidTCP, TargetOptions

LEMMA UnixUsable ==
  ASSUME NEW o \in TargetOptions, NEW c \in ParseUnix(o), ~ ValidUnix(c)
  PROVE  LateTarget("unix", o) \/ LateOption("unix", o)
  BY SMT DEF ParseUnix, When, LateTarget, LateOption, ValidUnix, TargetOptions

LEMMA PortsUsable ==
  ASSUME NEW o \in PortsOptions, NEW c \in ParsePorts(o), ~ ValidPorts(c)
  PROVE  LateTarget("ports", o) \/ LateOption("ports", o)
  BY SMT DEF ParsePorts, When, LateTarget, LateOption, ValidPorts, PortsOptions,
             PortRange

LEMMA TLSUsable ==
  ASSUME NEW o \in TLSOptions, NEW c \in ParseTLS(o), ~ ValidTLS(c)
  PROVE  LateTarget("tls", o) \/ LateOption("tls", o)
<1>1. /\ c.address = o.target /\ c.name = o.name /\ c.validFor = ValidForDays(o.validFor)
      /\ SplitHostPort(o.target) /\ ValidForDays(o.validFor) # Unset
  BY DEF ParseTLS, When, TLSOptions
<1>2. c.validFor >= 0
  BY <1>1 DEF ValidForDays, Unset
<1>3. TLSServerName(c) = "unset"
  BY <1>1, <1>2 DEF ValidTLS
<1>4. c.name = "unset" /\ c.address = ":1"
  BY <1>3 DEF TLSServerName
<1> QED
  BY <1>1, <1>4 DEF LateTarget

LEMMA SSHUsable ==
  ASSUME NEW o \in SSHOptions, NEW c \in ParseSSH(o), ~ ValidSSH(c)
  PROVE  LateTarget("ssh", o) \/ LateOption("ssh", o)
  BY SMT DEF ParseSSH, When, LateTarget, LateOption, ValidSSH, SSHOptions

LEMMA S3Usable ==
  ASSUME NEW o \in S3Options, NEW c \in ParseS3(o), ~ ValidS3(c)
  PROVE  LateTarget("s3", o) \/ LateOption("s3", o)
  BY SMT DEF ParseS3, When, LateTarget, LateOption, ValidS3, S3Options

LEMMA DNSUsable ==
  ASSUME NEW o \in DNSOptions, NEW c \in ParseDNS(o), ~ ValidDNS(c)
  PROVE  LateTarget("dns", o) \/ LateOption("dns", o)
<1>1. /\ o.target # "bad" /\ NormalizeDNSOptions(o)
      /\ c = [o EXCEPT !.server = NormalizeDNSServer(o.server)]
  BY DEF ParseDNS, When, DNSOptions
<1>2. /\ c.target = o.target /\ c.type = o.type /\ c.resolver = o.resolver /\ c.mode = o.mode
      /\ c.rcode = o.rcode /\ c.size = o.size /\ c.min = o.min /\ c.absent = o.absent
      /\ c.contains = o.contains /\ c.equals = o.equals
      /\ c.server = NormalizeDNSServer(o.server)
  BY <1>1 DEF DNSOptions
<1>3. NormalizeDNSServer(c.server) # "bad" /\ (c.resolver = "wire" => c.server # "unset")
  BY <1>1, <1>2 DEF NormalizeDNSOptions, NormalizeDNSServer
<1>4. DNSMatchersFit(c)
  BY <1>1, <1>2 DEF NormalizeDNSOptions, DNSMatchersFit
<1>5. /\ c.type \in RecordTypes /\ c.resolver \in {"system", "wire"}
      /\ c.mode \in {"any", "nxdomain", "nodata"} /\ c.rcode \in RCodes \cup {"unset"}
      /\ c.resolver = "system" =>
           c.rcode = "unset" /\ c.mode = "any" /\ c.type \in SystemRecordTypes
  BY <1>1, <1>2, SMT DEF NormalizeDNSOptions, WireOnly
<1>6. (c.size > 0 => c.size >= 512) \/ (o.size > 0 /\ o.size < 512)
  BY <1>2, SMT DEF DNSOptions
<1> QED
  BY <1>1, <1>2, <1>3, <1>4, <1>5, <1>6, SMT DEF LateOption, ValidDNS

LEMMA NTPUsable ==
  ASSUME NEW o \in NTPOptions, NEW c \in ParseNTP(o), ~ ValidNTP(c)
  PROVE  LateTarget("ntp", o) \/ LateOption("ntp", o)
  BY SMT DEF ParseNTP, When, LateTarget, LateOption, ValidNTP, NTPOptions,
             Duration, Unset

LEMMA GRPCUsable ==
  ASSUME NEW o \in GRPCOptions, NEW c \in ParseGRPC(o), ~ ValidGRPC(c)
  PROVE  LateTarget("grpc", o) \/ LateOption("grpc", o)
  BY SMT DEF ParseGRPC, When, LateTarget, LateOption, ValidGRPC, GRPCOptions,
             Duration, Unset

LEMMA DockerUsable ==
  ASSUME NEW o \in DockerOptions, NEW c \in ParseDocker(o), ~ ValidDocker(c)
  PROVE  LateTarget("docker", o) \/ LateOption("docker", o)
  BY SMT DEF ParseDocker, When, LateTarget, LateOption, ValidDocker,
             DockerOptions, Refused

LEMMA SystemdUsable ==
  ASSUME NEW o \in SystemdOptions, NEW c \in ParseSystemd(o), ~ ValidSystemd(c)
  PROVE  LateTarget("systemd", o) \/ LateOption("systemd", o)
  BY SMT DEF ParseSystemd, When, LateTarget, LateOption, ValidSystemd,
             SystemdOptions, Refused, AtMostOne

LEMMA LaunchdUsable ==
  ASSUME NEW o \in LaunchdOptions, NEW c \in ParseLaunchd(o), ~ ValidLaunchd(c)
  PROVE  LateTarget("launchd", o) \/ LateOption("launchd", o)
  BY SMT DEF ParseLaunchd, When, LateTarget, LateOption, ValidLaunchd,
             LaunchdOptions, Refused

LEMMA CosignUsable ==
  ASSUME NEW o \in CosignOptions, NEW c \in ParseCosign(o), ~ ValidCosign(c)
  PROVE  LateTarget("cosign", o) \/ LateOption("cosign", o)
  BY SMT DEF ParseCosign, When, LateTarget, LateOption, ValidCosign, CosignOptions

LEMMA ICMPUsable ==
  ASSUME NEW o \in ICMPOptions, NEW c \in ParseICMP(o), ~ ValidICMP(c)
  PROVE  LateTarget("icmp", o) \/ LateOption("icmp", o)
  BY SMT DEF ParseICMP, When, LateTarget, LateOption, ValidICMP, ICMPOptions,
             Refused, ICMPTimeout, Unset

LEMMA ExecUsable ==
  ASSUME NEW o \in ExecOptions, NEW c \in ParseExec(o), ~ ValidExec(c)
  PROVE  LateTarget("exec", o) \/ LateOption("exec", o)
  BY SMT DEF ParseExec, When, LateTarget, LateOption, ValidExec, ExecOptions

LEMMA LogUsable ==
  ASSUME NEW o \in LogOptions, NEW c \in ParseLog(o), ~ ValidLog(c)
  PROVE  LateTarget("log", o) \/ LateOption("log", o)
<1>1. LogMatchers(o) # {}
  BY DEF ParseLog, When, LogMatchers
<1>2. c.matchers = LogMatchers(o)
  BY DEF ParseLog, When
<1> QED
  BY <1>1, <1>2, SMT DEF ParseLog, When, LateTarget, LateOption, ValidLog, LogOptions

LEMMA K8sUsable ==
  ASSUME NEW o \in K8sOptions, NEW c \in ParseK8s(o), ~ ValidK8s(c)
  PROVE  LateTarget("k8s", o) \/ LateOption("k8s", o)
<1>1. /\ c.resource = o.resource /\ c.condition = o.condition /\ c.json = o.json
      /\ c.for = o.for /\ c.selector = o.selector /\ c.all = o.all
  BY DEF ParseK8s, When
<1>2. K8sMatchers(c) = K8sMatchers(o)
  BY <1>1 DEF K8sMatchers
<1>3. /\ Cardinality(K8sMatchers(o)) <= 1 /\ K8sSelectorFits(o)
      /\ o.selector # "unset" => ~ o.resource.slash
      /\ o.for # "unset" => WaitSupportsKind(o.for, o.resource.kind)
  BY DEF ParseK8s, When
<1>4. K8sSelectorFits(c)
  BY <1>1, <1>3 DEF K8sSelectorFits
<1>5. /\ o.resource.kind \in K8sKinds
      /\ IF o.selector # "unset" THEN ~ o.resource.slash ELSE o.resource.slash /\ o.resource.name
      => ValidK8s(c)
  BY <1>1, <1>2, <1>3, <1>4 DEF ValidK8s
<1>6. /\ o.resource.kind \notin K8sKinds => LateTarget("k8s", o)
      /\ o.selector = "unset" /\ ~ (o.resource.slash /\ o.resource.name) => LateTarget("k8s", o)
  BY SMT DEF LateTarget
<1> QED
  BY <1>3, <1>5, <1>6

-----------------------------------------------------------------------------
(***************************************************************************)
(* A check is satisfied exactly by the worlds that the words ask for.      *)
(***************************************************************************)
(* A set with at most one element is empty or has exactly that one.        *)
LEMMA AtMostOneElement ==
  ASSUME NEW S, IsFiniteSet(S), AtMostOne(S)
  PROVE  S = {} \/ \E s \in S : S = {s}
<1>1. Cardinality(S) \in Nat /\ Cardinality(S) <= 1
  BY FS_CardinalityType DEF AtMostOne
<1>2. CASE Cardinality(S) = 0
  BY <1>2, FS_EmptySet
<1>3. CASE Cardinality(S) = 1
  <2>1. PICK s : S = {s}
    BY <1>3, FS_Singleton
  <2> QED
    BY <2>1
<1> QED
  BY <1>1, <1>2, <1>3

(* The states that were asked for are few.                                 *)
LEMMA FewStates ==
  ASSUME NEW a, NEW b, NEW d, NEW S \in SUBSET {a, b, d}
  PROVE  IsFiniteSet(S)
<1>1. IsFiniteSet({a})
  BY FS_Singleton
<1>2. IsFiniteSet({a} \cup {b})
  BY <1>1, FS_AddElement
<1>3. IsFiniteSet({a} \cup {b} \cup {d})
  BY <1>2, FS_AddElement
<1>4. {a, b, d} = {a} \cup {b} \cup {d}
  OBVIOUS
<1> QED
  BY <1>3, <1>4, FS_Subset

LEMMA FileTrue ==
  ASSUME NEW o \in FileOptions, NEW c \in ParseFile(o), ValidFile(c), NEW w \in FileWorld
  PROVE  CheckFile(c, w) = "satisfied" <=> FilePromise(o, w)
<1>1. /\ c.contains = o.contains
      /\ AtMostOne(o.states)
  BY DEF ParseFile, When, FileOptions
<1>2. o.states = {} \/ \E s \in o.states : o.states = {s}
  <2>1. o.states \in SUBSET {"exists", "deleted", "nonempty"}
    BY DEF FileOptions
  <2>2. IsFiniteSet(o.states)
    BY <2>1, FewStates
  <2> QED
    BY <1>1, <2>2, AtMostOneElement
<1>3. /\ c.state = "deleted" <=> "deleted" \in o.states
      /\ c.state = "nonempty" <=> "nonempty" \in o.states
  <2>1. ASSUME o.states = {} PROVE c.state = "exists"
    BY <2>1 DEF ParseFile, When
  <2>2. ASSUME NEW s, o.states = {s} PROVE c.state = s
    BY <2>2 DEF ParseFile, When
  <2> QED
    BY <1>2, <2>1, <2>2
<1>4. CheckFile(c, w) = "satisfied" <=>
        IF "deleted" \in o.states THEN w.stat = "missing"
        ELSE /\ w.stat \notin {"missing", "denied"}
             /\ "nonempty" \in o.states => w.stat # "empty"
             /\ o.contains => w.stat # "dir" /\ w.open = "regular" /\ w.text = "within-limit"
  BY <1>1, <1>3 DEF CheckFile, Verdict
<1> QED
  BY <1>4, SMT DEF FileWorld, FilePromise

LEMMA GlobTrue ==
  ASSUME NEW o \in GlobOptions, NEW c \in ParseGlob(o), ValidGlob(c), NEW w \in GlobWorld,
         CheckGlob(c, w) # "misconfigured",
         ~ (/\ o.target # "literal"
            /\ w.names > MaxGlobDirectoryEntries \/ w.matching > MaxGlobMatches)
  PROVE  CheckGlob(c, w) = "satisfied" <=> GlobPromise(o, w)
<1>1. /\ GlobMinimum(o) \in Int
      /\ ~ o.absent => GlobMinimum(o) = IF o.min = Unset THEN 1 ELSE o.min
  BY DEF GlobMinimum, GlobOptions
<1>2. /\ c.min = GlobMinimum(o) /\ c.absent = o.absent /\ c.max >= -1
      /\ c.max = IF o.max = Unset THEN -1 ELSE o.max
      /\ c.target = o.target
  BY <1>1, SMT DEF ParseGlob, When, GlobOptions
<1>3. ~ GlobTooMany(c, w)
  BY <1>2 DEF GlobTooMany
<1>4. GlobCount(c, w) = IF o.target = "literal" /\ w.matching > 0 THEN 1 ELSE w.matching
  BY <1>2, SMT DEF GlobCount, GlobWorld
<1>5. GlobCount(c, w) \in Nat
  BY <1>4 DEF GlobWorld
<1>6. CheckGlob(c, w) = "satisfied" <=>
        /\ w.dir = "readable"
        /\ IF c.absent THEN GlobCount(c, w) = 0
           ELSE GlobCount(c, w) >= c.min /\ (c.max >= 0 => GlobCount(c, w) <= c.max)
  BY <1>3, SMT DEF CheckGlob, GlobWorld, Verdict
<1>7. GlobPromise(o, w) <=>
        /\ w.dir = "readable"
        /\ IF o.absent THEN GlobCount(c, w) = 0
           ELSE /\ GlobCount(c, w) >= (IF o.min = Unset THEN 1 ELSE o.min)
                /\ o.max \in {Unset, -1} \/ GlobCount(c, w) <= o.max
  BY <1>4 DEF GlobPromise
<1> QED
  BY <1>1, <1>2, <1>5, <1>6, <1>7, SMT DEF GlobOptions, Unset

LEMMA ProcessTrue ==
  ASSUME NEW o \in ProcessOptions, NEW c \in ParseProcess(o),
         ValidProcess(c), NEW w \in ProcessWorld
  PROVE  CheckProcess(c, w) = "satisfied" <=> ProcessPromise(o, w)
  BY SMT DEF ParseProcess, When, ValidProcess, ProcessOptions, ProcessWorld,
             CheckProcess, ProcessPromise, Verdict, PIDExists, CheckFound,
             ParseState, PIDs

LEMMA PIDFileTrue ==
  ASSUME NEW o \in PIDFileOptions, NEW c \in ParsePIDFile(o),
         ValidPIDFile(c), NEW w \in PIDFileWorld
  PROVE  CheckPIDFile(c, w) = "satisfied" <=> PIDFilePromise(o, w)
  BY SMT DEF ParsePIDFile, When, ValidPIDFile, PIDFileOptions, PIDFileWorld,
             CheckPIDFile, PIDFilePromise, Verdict, CheckPIDFileReadError,
             PIDExists, CheckFound, ParseState, PIDs

LEMMA LockfileTrue ==
  ASSUME NEW o \in LockfileOptions, NEW c \in ParseLockfile(o),
         ValidLockfile(c), NEW w \in LockfileWorld
  PROVE  CheckLockfile(c, w) = "satisfied" <=> LockfilePromise(o, w)
  BY SMT DEF ParseLockfile, When, ValidLockfile, LockfileOptions, LockfileWorld,
             CheckLockfile, LockfilePromise, LockfileExists, Verdict

LEMMA PermissionTrue ==
  ASSUME NEW o \in PermissionOptions, NEW c \in ParsePermission(o),
         ValidPermission(c), NEW w \in PermissionWorld,
         o.mode # "0000"
  PROVE  CheckPermission(c, w) = "satisfied" <=> PermissionPromise(o, w)
  BY SMT DEF ParsePermission, When, ValidPermission, PermissionOptions,
             PermissionWorld, CheckPermission, PermissionPromise,
             PermissionsFit, OwnerPromise, ParseOwner, ParseMode, Owners, Unset,
             Verdict

LEMMA ChecksumTrue ==
  ASSUME NEW o \in ChecksumOptions, NEW c \in ParseChecksum(o),
         ValidChecksum(c), NEW w \in ChecksumWorld
  PROVE  CheckChecksum(c, w) = "satisfied" <=> ChecksumPromise(o, w)
  BY SMT DEF ParseChecksum, When, ValidChecksum, ChecksumOptions, ChecksumWorld,
             CheckChecksum, ChecksumPromise, FileChecksumIs, ResolvedChecksum,
             HexLength, Algorithms, Digests, Verdict

LEMMA ArchiveTrue ==
  ASSUME NEW o \in ArchiveOptions, NEW c \in ParseArchive(o),
         ValidArchive(c), NEW w \in ArchiveWorld,
         o.member # "blank"
  PROVE  CheckArchive(c, w) = "satisfied" <=> ArchivePromise(o, w)
  BY SMT DEF ParseArchive, When, ValidArchive, ArchiveOptions, ArchiveWorld,
             CheckArchive, ArchivePromise, ArchiveContains,
             ResolveArchiveFormat, Verdict

LEMMA HTTPPromised ==
  ASSUME NEW o \in HTTPOptions, NEW c \in ParseHTTP(o), ValidHTTP(c), NEW w \in HTTPWorld
  PROVE  /\ CheckHTTP(c, w) = "satisfied" <=> RedirectsFollowed(c, w) /\ HTTPPromise(o, w)
         /\ HTTPAnswer(o, w) \in {w.status, 302, 401}
         /\ c.stay = o.stay /\ c.headers = HTTPHeadersGiven(o)
<1> DEFINE status == IF o.status = "unset" THEN "200" ELSE o.status
           code == FinalStatus(c, w)
<1>1. /\ c.status = status /\ c.matchers = HTTPMatchers(o) /\ c.stay = o.stay
      /\ c.any = (o.matches = ".*") /\ c.method = o.method
      /\ c.insecure = o.insecure /\ o.status \in StatusMatchers /\ ApplyHTTPAuth(o)
      /\ c.headers = HTTPHeaderNames(o.headers)
                     \cup (IF HTTPAuthMode(o) = "none" THEN {} ELSE {"Authorization"})
  BY DEF ParseHTTP, When, HTTPOptions
<1>2. c.headers = HTTPHeadersGiven(o)
  BY <1>1, SMT DEF ApplyHTTPAuth, HTTPAuthMode, HTTPOptions, HTTPHeadersGiven
<1>3. HTTPAnswer(o, w) = FinalStatus(c, w)
  <2>1. CASE w.hops = <<>> \/ o.stay
    BY <1>1, <2>1 DEF HTTPAnswer, FinalStatus, Redirected
  <2>2. CASE w.hops # <<>> /\ ~ o.stay
    <3> DEFINE back == w.hops[Len(w.hops)] = "first"
               near == \A i \in DOMAIN w.hops : w.hops[i] \in {"first", "other-port"}
    <3>1. near <=> ~ \E i \in DOMAIN w.hops : w.hops[i] = "other-host"
      BY DEF HTTPWorld
    <3>2. HeadersAfter(c, w) = IF ~ back THEN {} ELSE IF near THEN c.headers
                               ELSE c.headers \ {"Authorization"}
      BY <3>1 DEF HeadersAfter
    <3>3. HTTPAnswer(o, w) =
            IF \A h \in w.wants : back /\ h \in c.headers /\ (h = "Authorization" => near)
            THEN w.status ELSE 401
      <4>1. HTTPAnswer(o, w) =
              IF \A h \in w.wants : /\ back /\ h \in HTTPHeadersGiven(o)
                                    /\ h = "Authorization" => near
              THEN w.status ELSE 401
        BY <2>2 DEF HTTPAnswer
      <4> HIDE DEF back, near
      <4> QED
        BY <1>2, <4>1
    <3>4. FinalStatus(c, w) = IF w.wants \subseteq HeadersAfter(c, w) THEN w.status ELSE 401
      BY <1>1, <2>2 DEF FinalStatus, Redirected
    <3> HIDE DEF back, near
    <3>5. w.wants \subseteq HeadersAfter(c, w) <=>
            \A h \in w.wants : back /\ h \in c.headers /\ (h = "Authorization" => near)
      BY <3>2
    <3> QED
      BY <3>3, <3>4, <3>5
  <2> QED
    BY <2>1, <2>2
<1>4. code \in {w.status, 302, 401}
  BY DEF FinalStatus
<1>5. code \in Nat
  <2>1. w.status \in {101} \cup 200..599
    BY DEF HTTPWorld
  <2> HIDE DEF code
  <2> QED
    BY <1>4, <2>1
<1>6. StatusMatches(c.status, code) <=> code \in Codes(o.status)
  <2> HIDE DEF code
  <2> QED
    BY <1>1, <1>5, SMT DEF StatusMatches, Codes, StatusMatchers
<1>7. HasBody(c, code) <=> ~ (o.method = "HEAD" \/ code \in {204, 304})
  BY <1>1 DEF HasBody
<1>8. ASSUME NEW has
      PROVE  CheckResponseBody(c, has) <=>
               /\ o.contains # "unset" => "contains" \in has
               /\ o.matches \notin {"unset", ".*"} => "matches" \in has
               /\ o.json # "unset" => "json" \in has
  <2>1. CheckResponseBody(c, has) <=>
          \A m \in HTTPMatchers(o) : m \in has \/ (m = "matches" /\ o.matches = ".*")
    BY <1>1 DEF CheckResponseBody
  <2>2. \A m : m \in HTTPMatchers(o) <=> \/ m = "contains" /\ o.contains # "unset"
                                         \/ m = "matches" /\ o.matches # "unset"
                                         \/ m = "json" /\ o.json # "unset"
    BY DEF HTTPMatchers
  <2> QED
    BY <2>1, <2>2
<1>9. CheckResponseBody(c, {}) <=>
        o.contains = "unset" /\ o.matches \in {"unset", ".*"} /\ o.json = "unset"
  BY <1>8
<1>10. c.matchers # {} <=> o.contains # "unset" \/ o.matches # "unset" \/ o.json # "unset"
  BY <1>1, SMT DEF HTTPMatchers
<1>11. CheckHTTP(c, w) = "satisfied" <=>
         /\ w.link = "answers" \/ (w.link = "untrusted" /\ c.insecure)
         /\ RedirectsFollowed(c, w)
         /\ HasBody(c, code) => ReadHTTPBody(c, w)
         /\ StatusMatches(c.status, code)
         /\ CheckResponseBody(c, IF HasBody(c, code) THEN w.has ELSE {})
  BY DEF CheckHTTP, Verdict
<1>12. w.body \in {"ok", "too-large", "error"}
  BY DEF HTTPWorld
<1> HIDE DEF code
<1>13. HTTPPromise(o, w) <=>
         /\ w.link = "answers" \/ (w.link = "untrusted" /\ o.insecure)
         /\ code \in Codes(o.status)
         /\ IF o.method = "HEAD" \/ code \in {204, 304}
            THEN CheckResponseBody(c, {})
            ELSE /\ CheckResponseBody(c, w.has)
                 /\ w.body = "ok" \/ (w.body = "too-large" /\ c.matchers = {})
  BY <1>3, <1>8, <1>9, <1>10 DEF HTTPPromise, code
<1>14. CheckHTTP(c, w) = "satisfied" <=> RedirectsFollowed(c, w) /\ HTTPPromise(o, w)
  BY <1>1, <1>6, <1>7, <1>11, <1>12, <1>13 DEF ReadHTTPBody
<1> QED
  BY <1>1, <1>2, <1>3, <1>4, <1>14 DEF code

LEMMA HTTPTrue ==
  ASSUME NEW o \in HTTPOptions, NEW c \in ParseHTTP(o), ValidHTTP(c), NEW w \in HTTPWorld,
         ~ (Len(w.hops) > 9 /\ ~ o.stay /\ HTTPHeadersGiven(o) = {})
  PROVE  CheckHTTP(c, w) = "satisfied" <=> HTTPPromise(o, w)
<1>1. Len(w.hops) \in Nat
  BY DEF HTTPWorld
<1> QED
  BY <1>1, HTTPPromised DEF RedirectsFollowed, Redirected

LEMMA WebSocketTrue ==
  ASSUME NEW o \in WebSocketOptions, NEW c \in ParseWebSocket(o),
         ValidWebSocket(c), NEW w \in WebSocketWorld
  PROVE  CheckWebSocket(c, w) = "satisfied" <=> WebSocketPromise(o, w)
<1>1. /\ c.close = o.close /\ c.ping = o.ping /\ c.contains = o.contains
      /\ c.matches = o.matches /\ o.close \in Int
  BY DEF ParseWebSocket, When, WebSocketOptions
<1>2. w.text \in {"marked", "plain", "empty", "none"}
  BY DEF WebSocketWorld
<1>3. CheckWebSocket(c, w) = "satisfied" <=>
        /\ w.link = "switches"
        /\ c.ping => w.pong
        /\ IF c.close >= 0
           THEN w.closed = c.close /\ WebSocketMatches(c, "empty")
           ELSE ReadsText(c) => w.text # "none" /\ WebSocketMatches(c, w.text)
  BY DEF CheckWebSocket, Verdict
<1> QED
  BY <1>1, <1>2, <1>3, SMT DEF WebSocketPromise, ReadsText, WebSocketMatches

LEMMA TCPTrue ==
  ASSUME NEW o \in TargetOptions, NEW c \in ParseTCP(o), ValidTCP(c), NEW w \in DialWorld
  PROVE  CheckDial(c, w) = "satisfied" <=> w.dial = "connected"
  BY SMT DEF ParseTCP, When, ValidTCP, TargetOptions, DialWorld, CheckDial, Verdict

LEMMA UnixTrue ==
  ASSUME NEW o \in TargetOptions, NEW c \in ParseUnix(o), ValidUnix(c), NEW w \in DialWorld
  PROVE  CheckDial(c, w) = "satisfied" <=> w.dial = "connected"
  BY SMT DEF ParseUnix, When, ValidUnix, TargetOptions, DialWorld, CheckDial,
             Verdict

(* A set of natural numbers has a least one.                               *)
LEMMA LeastNumber ==
  ASSUME NEW S \in SUBSET Nat, S # {}
  PROVE  \E n \in S : \A m \in S : n <= m
<1>1. PICK n \in S : \A m \in S : ~ (<<m, n>> \in OpToRel(<, Nat))
  BY NatLessThanWellFounded, WFMin
<1>2. \A m \in S : ~ (m < n)
  BY <1>1 DEF OpToRel
<1> QED
  BY <1>2

LEMMA PortsTrue ==
  ASSUME NEW o \in PortsOptions, NEW c \in ParsePorts(o),
         ValidPorts(c), NEW w \in PortsWorld
  PROVE  CheckPorts(c, w) = "satisfied" <=> PortsPromise(o, w)
<1> DEFINE range == o.range[1]..o.range[2]
           hit == range \cap w.opened
<1>1. c.range = o.range /\ c.any = o.any /\ o.range[1] \in Int /\ o.range[2] \in Int
  BY DEF ParsePorts, When, PortsOptions
<1>2. w.deadline \in Nat /\ w.opened \subseteq Nat
  BY DEF PortsWorld
<1>3. CASE ~ c.any
  BY <1>1, <1>3 DEF CheckPorts, Scanned, PortsPromise, Verdict
<1>4. CASE c.any /\ hit = {}
  BY <1>1, <1>4 DEF CheckPorts, Scanned, PortsPromise, Verdict
<1>5. CASE c.any /\ hit # {}
  <2>1. PICK first \in hit : \A p \in hit : first <= p
    BY <1>2, <1>5, LeastNumber
  <2>2. Scanned(c, w) = {p \in range : p <= first}
    BY <1>1, <1>2, <1>5, <2>1 DEF Scanned
  <2>3. CheckPorts(c, w) = "satisfied" <=> first < w.deadline
    BY <1>1, <1>2, <1>5, <2>1, <2>2 DEF CheckPorts, Verdict
  <2>4. PortsPromise(o, w) <=> first < w.deadline
    BY <1>1, <1>2, <1>5, <2>1 DEF PortsPromise
  <2> QED
    BY <2>3, <2>4
<1> QED
  BY <1>3, <1>4, <1>5

LEMMA TLSTrue ==
  ASSUME NEW o \in TLSOptions, NEW c \in ParseTLS(o), ValidTLS(c), NEW w \in TLSWorld
  PROVE  CheckTLS(c, w) = "satisfied" <=> TLSPromise(o, w)
<1>1. /\ c.address = o.target /\ c.name = o.name /\ c.validFor = ValidForDays(o.validFor)
      /\ c.ca = (o.ca = "pem") /\ ValidForDays(o.validFor) # Unset
  BY DEF ParseTLS, When, TLSOptions
<1>2. c.validFor \in Nat
  BY <1>1 DEF ValidForDays, Unset
<1>3. TLSServerName(c) = IF o.name = "unset" THEN "h" ELSE o.name
  BY <1>1, SMT DEF ValidTLS, TLSServerName
<1>4. InWindow(c, w) <=>
        \A day \in {w.day, w.day + c.validFor} : w.from <= day /\ day <= w.until
  BY <1>2, SMT DEF InWindow, TLSWorld
<1>5. w.issuer \in {"system"} \cup (IF o.ca = "pem" THEN {"ca"} ELSE {})
        <=> w.issuer = "system" \/ (w.issuer = "ca" /\ c.ca)
  BY <1>1
<1> QED
  BY <1>5, <1>1, <1>3, <1>4, SMT DEF CheckTLS, TLSPromise, TLSWorld, Verdict

LEMMA SSHTrue ==
  ASSUME NEW o \in SSHOptions, NEW c \in ParseSSH(o), ValidSSH(c), NEW w \in SSHWorld,
         ~ (IF o.user THEN o.banner # "unset" ELSE o.key # "unset")
  PROVE  CheckSSH(c, w) = "satisfied" <=> SSHPromise(o, w)
  BY SMT DEF ParseSSH, When, ValidSSH, SSHOptions, SSHWorld, CheckSSH,
             SSHPromise, BannerLines, BannerContains, Verdict

LEMMA S3True ==
  ASSUME NEW o \in S3Options, NEW c \in ParseS3(o), ValidS3(c), NEW w \in S3World,
         ~ (o.contains /\ w.object = "too-large")
  PROVE  CheckS3(c, w) = "satisfied" <=> S3Promise(o, w)
  BY SMT DEF ParseS3, When, ValidS3, S3Options, S3World, CheckS3, CheckS3Object,
             S3Promise, S3Host, Verdict, S3Objects

LEMMA NTPTrue ==
  ASSUME NEW o \in NTPOptions, NEW c \in ParseNTP(o), ValidNTP(c), NEW w \in NTPWorld,
         w.clock + w.ahead + w.held < Era
  PROVE  CheckNTP(c, w) = "satisfied" <=> NTPPromise(o, w)
  BY SMT DEF ParseNTP, When, ValidNTP, NTPOptions, NTPWorld, CheckNTP,
             NTPPromise, NTPOffset, Abs, NTPHeaderFits, Era, Duration, Unset,
             Verdict

LEMMA GRPCTrue ==
  ASSUME NEW o \in GRPCOptions, NEW c \in ParseGRPC(o), ValidGRPC(c), NEW w \in GRPCWorld,
         o.status # "UNKNOWN"
  PROVE  CheckGRPC(c, w) = "satisfied" <=> GRPCPromise(o, w)
  BY SMT DEF ParseGRPC, When, ValidGRPC, GRPCOptions, GRPCWorld, CheckGRPC,
             GRPCPromise, GRPCTransport, ReflectionKnows, ReflectionSymbol,
             PayloadIsGood, DecodeHealth, GRPCStatuses, Verdict

LEMMA DockerTrue ==
  ASSUME NEW o \in DockerOptions, NEW c \in ParseDocker(o),
         ValidDocker(c), NEW w \in DockerWorld
  PROVE  CheckDocker(c, w) = "satisfied" <=> DockerPromise(o, w)
  BY SMT DEF ParseDocker, When, ValidDocker, DockerOptions, DockerWorld,
             CheckDocker, DockerPromise, CheckDockerHealth, ToolVerdict, Verdict

LEMMA SystemdTrue ==
  ASSUME NEW o \in SystemdOptions, NEW c \in ParseSystemd(o),
         ValidSystemd(c), NEW w \in SystemdWorld
  PROVE  CheckSystemd(c, w) = "satisfied" <=> SystemdPromise(o, w)
<1>1. AtMostOne(o.states)
  BY DEF ParseSystemd, When, SystemdOptions
<1>2. o.states = {} \/ \E s \in o.states : o.states = {s}
  <2>1. o.states \in SUBSET {"active", "inactive", "failed"}
    BY DEF SystemdOptions
  <2>2. IsFiniteSet(o.states)
    BY <2>1, FewStates
  <2> QED
    BY <1>1, <2>2, AtMostOneElement
<1>3. {c.state} = IF o.states = {} THEN {"active"} ELSE o.states
  <2>1. ASSUME o.states = {} PROVE c.state = "active"
    BY <2>1 DEF ParseSystemd, When
  <2>2. ASSUME NEW s, o.states = {s} PROVE c.state = s
    BY <2>2 DEF ParseSystemd, When
  <2> QED
    BY <1>2, <2>1, <2>2
<1>4. w.state = c.state <=> w.state \in (IF o.states = {} THEN {"active"} ELSE o.states)
  BY <1>3
<1> QED
  BY <1>4, SMT DEF SystemdWorld, CheckSystemd, SystemdPromise, ToolVerdict, Verdict

LEMMA LaunchdTrue ==
  ASSUME NEW o \in LaunchdOptions, NEW c \in ParseLaunchd(o),
         ValidLaunchd(c), NEW w \in LaunchdWorld
  PROVE  CheckLaunchd(c, w) = "satisfied" <=> LaunchdPromise(o, w)
  BY SMT DEF ParseLaunchd, When, ValidLaunchd, LaunchdOptions, LaunchdWorld,
             CheckLaunchd, LaunchdPromise, ToolVerdict, Verdict

LEMMA CosignTrue ==
  ASSUME NEW o \in CosignOptions, NEW c \in ParseCosign(o),
         ValidCosign(c), NEW w \in CosignWorld
  PROVE  CheckCosign(c, w) = "satisfied" <=> CosignPromise(o, w)
  BY SMT DEF ParseCosign, When, ValidCosign, CosignOptions, CosignWorld,
             CheckCosign, CosignPromise, CosignArgs, ToolVerdict, Verdict

LEMMA ICMPTrue ==
  ASSUME NEW o \in ICMPOptions, NEW c \in ParseICMP(o), ValidICMP(c), NEW w \in ICMPWorld
  PROVE  CheckICMP(c, w) = "satisfied" <=> w.tool = "ok" /\ w.replies
  BY SMT DEF ParseICMP, When, ValidICMP, ICMPOptions, ICMPWorld, CheckICMP,
             ToolVerdict, Verdict

LEMMA ExecTrue ==
  ASSUME NEW o \in ExecOptions, NEW c \in ParseExec(o), ValidExec(c), NEW w \in ExecWorld
  PROVE  CheckExec(c, w) = "satisfied" <=> ExecPromise(o, w)
<1>1. /\ c.exit = o.exit /\ c.limit = o.limit /\ c.contains = o.contains
      /\ c.json = (o.json # "unset") /\ o.limit \in Int /\ o.contains \in Nat
  BY DEF ParseExec, When, ExecOptions
<1>2. w.at \in Nat /\ w.run \in {"ended", "not-started", "cancelled"}
  BY DEF ExecWorld
<1>3. CheckExec(c, w) = "satisfied" <=>
        w.run = "ended" /\ w.code = c.exit /\ CheckExecOutput(c, w)
  BY <1>2 DEF CheckExec, Verdict
<1>4. (c.contains > 0 => w.at > 0 /\ w.at + c.contains <= c.limit + 1)
      <=> (o.contains = 0 \/ w.at \in 1..(o.limit + 1 - o.contains))
  BY <1>1, <1>2
<1>5. CheckExecOutput(c, w) <=> /\ c.contains > 0 => w.at > 0 /\ w.at + c.contains <= c.limit + 1
                                /\ c.json => w.doc = "true"
  BY DEF CheckExecOutput
<1>6. ExecPromise(o, w) <=> /\ w.run = "ended" /\ w.code = o.exit
                            /\ o.contains = 0 \/ w.at \in 1..(o.limit + 1 - o.contains)
                            /\ o.json # "unset" => w.doc = "true"
  BY DEF ExecPromise
<1> QED
  BY <1>1, <1>3, <1>4, <1>5, <1>6, Zenon

(* The lines that are counted are those that were asked for.               *)
LEMMA LogMatching ==
  ASSUME NEW o \in LogOptions, NEW c \in ParseLog(o), ValidLog(c), NEW w \in LogWorld
  PROVE  {i \in DOMAIN w.lines : i > InitOffset(c, w) /\ MatchLine(c, w.lines[i])} = LogHits(o, w)
<1>1. /\ c.matchers = LogMatchers(o) /\ c.exclude = o.exclude
      /\ c.fromStart = o.fromStart /\ c.tail = o.tail /\ c.tail \in Nat
  BY DEF ParseLog, When, ValidLog, LogOptions
<1>2. ASSUME NEW i \in DOMAIN w.lines
      PROVE  i > InitOffset(c, w) <=> i > w.old \/ o.fromStart \/ w.old - i < o.tail
  <2>1. i \in Nat /\ i > 0 /\ w.old \in Nat
    BY DEF LogWorld
  <2> QED
    BY <1>1, <2>1, SMT DEF InitOffset
<1>3. ASSUME NEW i \in DOMAIN w.lines
      PROVE  MatchLine(c, w.lines[i]) <=>
               /\ o.contains # "unset" => "contains" \in w.lines[i] /\ o.contains # "two-lines"
               /\ o.matches # "unset" => "matches" \in w.lines[i]
               /\ o.json # "unset" => "json" \in w.lines[i]
               /\ "excluded" \in w.lines[i] => o.exclude = "unset"
               /\ o.exclude # ".*"
  <2>1. w.lines[i] \subseteq {"contains", "matches", "json", "excluded"}
    BY DEF LogWorld
  <2> QED
    <3>1. MatchLine(c, w.lines[i]) <=>
            /\ o.exclude # ".*"
            /\ o.exclude = "unset" \/ "excluded" \notin w.lines[i]
            /\ \A m \in LogMatchers(o) : m \in w.lines[i]
      BY <1>1 DEF MatchLine
    <3>2. \A m : m \in LogMatchers(o) <=>
                 \/ m = "contains" /\ o.contains \notin {"unset", "two-lines"}
                 \/ m = "two-lines" /\ o.contains = "two-lines"
                 \/ m = "matches" /\ o.matches # "unset"
                 \/ m = "json" /\ o.json # "unset"
      BY DEF LogMatchers
    <3>3. "two-lines" \notin w.lines[i]
      BY <2>1
    <3> QED
      BY <3>1, <3>2, <3>3
<1> QED
  BY <1>2, <1>3, Zenon DEF LogHits

LEMMA LogTrue ==
  ASSUME NEW o \in LogOptions, NEW c \in ParseLog(o), ValidLog(c), NEW w \in LogWorld,
         ~ (Cardinality({i \in LogHits(o, w) : i <= w.read}) >= o.min)
  PROVE  CheckLog(c, w) = "satisfied" <=> LogPromise(o, w)
<1>1. c.min = o.min
  BY DEF ParseLog, When
<1>2. CheckLog(c, w) = "satisfied" <=>
        /\ w.file = "regular"
        /\ Cardinality(LogHits(o, w)) >= o.min
        /\ \E i \in LogHits(o, w) : i > w.read
  BY <1>1, LogMatching DEF CheckLog, Verdict
<1>3. ASSUME ~ \E i \in LogHits(o, w) : i > w.read
      PROVE  ~ (Cardinality(LogHits(o, w)) >= o.min)
  <2>1. \A i \in LogHits(o, w) : i \in Nat /\ w.read \in Nat
    BY DEF LogHits, LogWorld
  <2>2. {i \in LogHits(o, w) : i <= w.read} = LogHits(o, w)
    BY <1>3, <2>1
  <2> QED
    BY <2>2
<1> QED
  BY <1>2, <1>3 DEF LogPromise

(***************************************************************************)
(* k8s: the answer for an object is the one the object gives.              *)
(***************************************************************************)
(* A rollout has finished, or failed, when the counters say so.            *)
LEMMA RolloutTrue ==
  ASSUME NEW obj \in K8sObject, obj.kind \in {"deployment", "statefulset", "daemonset"},
         obj.kind = "statefulset" => ~ (Updated(obj) + obj.old > obj.desired)
  PROVE  /\ WaitFor("rollout", obj) = "satisfied" <=> RolledOut(obj)
         /\ WaitFor("rollout", obj) = "fatal" <=> obj.kind = "deployment" /\ obj.deadline
<1>1. /\ obj.generation \in Nat /\ obj.observed \in Nat /\ obj.desired \in Nat
      /\ obj.old \in Nat /\ obj.deadline \in BOOLEAN
      /\ obj.new.available \in Nat /\ obj.new.ready \in Nat /\ obj.new.starting \in Nat
      /\ obj.kind = "daemonset" => Updated(obj) + obj.old <= obj.desired
  BY DEF K8sObject
<1>2. Observed(obj) <=> obj.observed >= obj.generation
  BY <1>1 DEF Observed
<1>3. CASE obj.kind = "deployment"
  <2>1. WaitFor("rollout", obj) = DeploymentRollout(obj)
    BY <1>3 DEF WaitFor
  <2> QED
    BY <1>1, <1>2, <1>3, <2>1, SMT
    DEF DeploymentRollout, RolledOut, Updated, Total, Available, Verdict
<1>4. CASE obj.kind = "statefulset"
  <2>1. WaitFor("rollout", obj) = StatefulSetRollout(obj)
    BY <1>4 DEF WaitFor
  <2> QED
    BY <1>1, <1>2, <1>4, <2>1, SMT DEF StatefulSetRollout, RolledOut, Updated, Ready,
       Verdict
<1>5. CASE obj.kind = "daemonset"
  <2>1. WaitFor("rollout", obj) = DaemonSetRollout(obj)
    BY <1>5 DEF WaitFor
  <2> QED
    BY <1>1, <1>2, <1>5, <2>1, SMT
    DEF DaemonSetRollout, RolledOut, Updated, Ready, Available, Verdict
<1> QED
  BY <1>3, <1>4, <1>5

(* The answer for one object of a kind that the wait supports.             *)
LEMMA WaitForTrue ==
  ASSUME NEW obj \in K8sObject, NEW for, WaitSupportsKind(for, obj.kind),
         obj.kind = "statefulset" => ~ (Updated(obj) + obj.old > obj.desired)
  PROVE  /\ WaitFor(for, obj) = "satisfied" <=> ObjectPromise(for, obj)
         /\ WaitFor(for, obj) = "fatal" <=> Lost(for, obj)
<1>1. CASE for = "ready"
  BY <1>1 DEF WaitFor, NamedCondition, ObjectPromise, Lost, Verdict
<1>2. CASE for = "complete"
  BY <1>2 DEF WaitFor, NamedCondition, ObjectPromise, Lost, Verdict
<1>3. CASE for = "rollout"
  <2>1. obj.kind \in {"deployment", "statefulset", "daemonset"}
    BY <1>3 DEF WaitSupportsKind
  <2>2. /\ ObjectPromise(for, obj) <=> RolledOut(obj)
        /\ Lost(for, obj) <=> obj.kind = "deployment" /\ obj.deadline
    BY <1>3 DEF ObjectPromise, Lost
  <2> QED
    BY <1>3, <2>1, <2>2, RolloutTrue
<1> QED
  BY <1>1, <1>2, <1>3 DEF WaitSupportsKind

(* A name stands for at most one object, a selector for a set of them.     *)
LEMMA K8sTrue ==
  ASSUME NEW o \in K8sOptions, NEW c \in ParseK8s(o), ValidK8s(c), NEW w \in K8sWorld,
         ~ \E obj \in w.objects :
             obj.kind = "statefulset" /\ Updated(obj) + obj.old > obj.desired
  PROVE  CheckK8s(c, w) = "satisfied" <=> K8sPromise(o, w)
<1> DEFINE meant == {obj \in w.objects : /\ obj.kind = o.resource.kind
                                         /\ o.selector # "unset" \/ obj.named}
           done == {obj \in meant : ObjectPromise(o.for, obj)}
           name == IF o.condition = "unset" THEN "Ready" ELSE o.condition
<1>1. /\ c.resource = o.resource /\ c.condition = o.condition /\ c.json = o.json
      /\ c.for = o.for /\ c.selector = o.selector /\ c.all = o.all
      /\ K8sSelectorFits(o)
      /\ o.for # "unset" => WaitSupportsKind(o.for, o.resource.kind)
  BY DEF ParseK8s, When
<1>2. Found(c, w) = meant
  BY <1>1 DEF Found
<1>3. ASSUME NEW obj \in meant, o.for # "unset"
      PROVE  /\ WaitFor(c.for, obj) = "satisfied" <=> ObjectPromise(o.for, obj)
             /\ WaitFor(c.for, obj) = "fatal" <=> Lost(o.for, obj)
  <2>1. /\ obj \in K8sObject /\ obj.kind = o.resource.kind
        /\ obj.kind = "statefulset" => ~ (Updated(obj) + obj.old > obj.desired)
    BY DEF K8sWorld
  <2> QED
    BY <1>1, <1>3, <2>1, WaitForTrue
<1>4. CASE w.api # "ok"
  BY <1>4 DEF CheckK8s, ClassifyGetterError, K8sPromise
<1>5. CASE w.api = "ok" /\ o.selector # "unset"
  <2>1. o.for # "unset"
    BY <1>1, <1>5 DEF K8sSelectorFits
  <2>2. CheckK8s(c, w) = IF w.many THEN "fatal" ELSE Selected(c, meant)
    BY <1>1, <1>2, <1>5 DEF CheckK8s
  <2>3. K8sPromise(o, w) <=> /\ meant # {} /\ ~ w.many
                             /\ \A obj \in meant : ~ Lost(o.for, obj)
                             /\ IF o.all THEN done = meant ELSE done # {}
    BY <1>5 DEF K8sPromise
  <2> DEFINE verdicts == {WaitFor(c.for, obj) : obj \in meant}
  <2>4. Selected(c, meant) = "satisfied" <=>
          /\ meant # {} /\ "fatal" \notin verdicts
          /\ IF o.all THEN verdicts = {"satisfied"} ELSE "satisfied" \in verdicts
    BY <1>1 DEF Selected, Verdict
  <2>5. "fatal" \notin verdicts <=> \A obj \in meant : ~ Lost(o.for, obj)
    BY <1>3, <2>1
  <2>6. "satisfied" \in verdicts <=> done # {}
    BY <1>3, <2>1
  <2>7. meant # {} => (verdicts = {"satisfied"} <=> done = meant)
    BY <1>3, <2>1
  <2> HIDE DEF meant, done, verdicts
  <2> QED
    BY <2>2, <2>3, <2>4, <2>5, <2>6, <2>7
<1>6. CASE w.api = "ok" /\ o.selector = "unset" /\ meant = {}
  BY <1>1, <1>2, <1>6 DEF CheckK8s, K8sPromise
<1>7. CASE w.api = "ok" /\ o.selector = "unset" /\ meant # {}
  <2>1. PICK obj \in meant : meant = {obj}
    BY <1>7 DEF K8sWorld
  <2>2. CheckK8s(c, w) = IF o.for # "unset" THEN WaitFor(c.for, obj)
                         ELSE IF o.json # "unset" THEN JSONExpr(obj)
                         ELSE NamedCondition(obj, name)
    <3>1. Found(c, w) = {obj}
      BY <1>2, <2>1
    <3> QED
      BY <1>1, <1>7, <3>1 DEF CheckK8s
  <2>3. K8sPromise(o, w) <=> IF o.for # "unset" THEN done # {}
                             ELSE IF o.json # "unset" THEN obj.matches = "true"
                             ELSE obj.conditions[name] = "True"
    <3> HIDE DEF done
    <3>1. K8sPromise(o, w) <=> IF o.for # "unset" THEN done # {}
                               ELSE IF o.json # "unset" THEN \A x \in meant : x.matches = "true"
                               ELSE \A x \in meant : x.conditions[name] = "True"
      BY <1>7 DEF K8sPromise, done
    <3> QED
      BY <3>1, <2>1
  <2>4. done # {} <=> ObjectPromise(o.for, obj)
    BY <2>1
  <2> QED
    BY <1>3, <2>1, <2>2, <2>3, <2>4 DEF JSONExpr, NamedCondition, Verdict
<1> QED
  BY <1>4, <1>5, <1>6, <1>7

-----------------------------------------------------------------------------
(***************************************************************************)
(* dns: the names an answer may be about, reached round by round, are the  *)
(* name asked for and its aliases.                                         *)
(***************************************************************************)
(* Induction on numbers, with a set for the property.                      *)
LEMMA SetInduction ==
  ASSUME NEW S, 0 \in S, \A n \in Nat : n \in S => n + 1 \in S
  PROVE  \A n \in Nat : n \in S
<1> SUFFICES ASSUME NEW n \in Nat, n \notin S PROVE FALSE
  OBVIOUS
<1>1. PICK x \in Nat \ S : \A y \in Nat \ S : x <= y
  BY LeastNumber
<1>2. x # 0 /\ x - 1 \in Nat /\ ~ (x <= x - 1)
  OBVIOUS
<1>3. x - 1 \in S
  BY <1>1, <1>2
<1> QED
  BY <1>2, <1>3

(* The recursion of AcceptedOwners, and what it defines if there is one.   *)
IsReach(g, records, host, N) ==
  g = [n \in 0..N |-> IF n = 0 THEN {host} ELSE Round(records, g[n - 1])]

Reach(records, host, N) == CHOOSE g : IsReach(g, records, host, N)

(* There is one: round by round.                                           *)
LEMMA ReachExists ==
  ASSUME NEW N \in Nat, NEW records, NEW host
  PROVE  IsReach(Reach(records, host, N), records, host, N)
<1> DEFINE S == {n \in Nat : \E g : IsReach(g, records, host, n)}
<1>1. 0 \in S
  <2> DEFINE g == [n \in 0..0 |-> {host}]
  <2>1. IsReach(g, records, host, 0)
    BY DEF IsReach
  <2> QED
    BY <2>1
<1>2. ASSUME NEW n \in Nat, n \in S PROVE n + 1 \in S
  <2>1. PICK g : IsReach(g, records, host, n)
    BY <1>2
  <2> DEFINE h == [k \in 0..(n + 1) |-> IF k \in 0..n THEN g[k] ELSE Round(records, g[n])]
  <2>2. ASSUME NEW k \in 0..(n + 1)
        PROVE  h[k] = IF k = 0 THEN {host} ELSE Round(records, h[k - 1])
    <3>1. CASE k = 0
      BY <2>1, <3>1 DEF IsReach
    <3>2. CASE k \in 1..n
      <4>1. k # 0 /\ k \in 0..n /\ k - 1 \in 0..n /\ k - 1 \in 0..(n + 1)
        BY <3>2
      <4>2. g[k] = Round(records, g[k - 1])
        BY <2>1, <4>1 DEF IsReach
      <4>3. h[k] = g[k] /\ h[k - 1] = g[k - 1]
        BY <4>1
      <4> HIDE DEF h
      <4> QED
        BY <4>1, <4>2, <4>3
    <3>3. CASE k = n + 1
      <4>1. k # 0 /\ k \notin 0..n /\ k - 1 = n /\ n \in 0..n /\ n \in 0..(n + 1)
        BY <3>3
      <4>2. h[k] = Round(records, g[n]) /\ h[n] = g[n]
        BY <4>1
      <4> HIDE DEF h
      <4> QED
        BY <4>1, <4>2
    <3> QED
      BY <3>1, <3>2, <3>3
  <2>3. h = [k \in 0..(n + 1) |-> h[k]]
    OBVIOUS
  <2> HIDE DEF h
  <2>4. IsReach(h, records, host, n + 1)
    BY <2>2, <2>3 DEF IsReach
  <2> QED
    BY <2>4
<1> HIDE DEF S
<1>3. N \in S
  BY <1>1, <1>2, SetInduction
<1> USE DEF S
<1>4. PICK g : IsReach(g, records, host, N)
  BY <1>3
<1> QED
  BY <1>4 DEF Reach

(* What is reached is closed, and in everything that is closed.            *)
THEOREM OwnersAreAliases ==
  ASSUME NEW records, IsFiniteSet(records), NEW host
  PROVE  AcceptedOwners(records, host) = Aliases(records, host)
<1> DEFINE N == Cardinality(records)
           r == Reach(records, host, N)
           names == {host} \cup {x.value : x \in records}
           Follows(S) == \A x \in records : x.type = "CNAME" /\ x.owner \in S => x.value \in S
           known(n) == {s \in records : s.type = "CNAME" /\ s.owner \in r[n]}
<1>1. N \in Nat
  BY FS_CardinalityType
<1>2. AcceptedOwners(records, host) = r[N]
  BY DEF AcceptedOwners, Reach, IsReach
<1>3. r[0] = {host} /\ \A n \in Nat : n + 1 <= N => r[n + 1] = Round(records, r[n])
  <2>1. r = [n \in 0..N |-> IF n = 0 THEN {host} ELSE Round(records, r[n - 1])]
    BY <1>1, ReachExists DEF IsReach
  <2> HIDE DEF r, N
  <2>2. r[0] = {host}
    BY <1>1, <2>1
  <2>3. ASSUME NEW n \in Nat, n + 1 <= N PROVE r[n + 1] = Round(records, r[n])
    <3>1. n + 1 \in 0..N /\ n + 1 # 0 /\ (n + 1) - 1 = n
      BY <1>1, <2>3
    <3> QED
      BY <2>1, <3>1
  <2> QED
    BY <2>2, <2>3
<1> HIDE DEF N, r
<1>4. ASSUME NEW S, host \in S, Follows(S) PROVE r[N] \subseteq S
  <2> DEFINE T == {n \in Nat : n <= N => r[n] \subseteq S}
  <2>1. 0 \in T
    BY <1>3, <1>4
  <2>2. ASSUME NEW n \in Nat, n \in T PROVE n + 1 \in T
    <3> SUFFICES ASSUME n + 1 <= N PROVE r[n + 1] \subseteq S
      OBVIOUS
    <3>1. r[n] \subseteq S /\ r[n + 1] = Round(records, r[n])
      BY <1>1, <1>3, <2>2
    <3> QED
      BY <1>4, <3>1 DEF Round
  <2> HIDE DEF T
  <2>3. N \in T
    BY <1>1, <2>1, <2>2, SetInduction
  <2> QED
    BY <1>1, <2>3 DEF T
<1>5. Round(records, r[N]) = r[N]
  <2> DEFINE T == {n \in Nat : n <= N => \/ Round(records, r[n]) = r[n]
                                        \/ Cardinality(known(n)) >= n + 1}
  <2>1. \A n \in Nat : /\ IsFiniteSet(known(n)) /\ Cardinality(known(n)) \in Nat
                      /\ Cardinality(known(n)) <= N
    BY FS_Subset, FS_CardinalityType DEF N
  <2>2. \A n \in Nat : Round(records, r[n]) = r[n] \cup {x.value : x \in known(n)}
    BY DEF Round
  <2>3. 0 \in T
    <3> SUFFICES ASSUME Round(records, r[0]) # r[0] PROVE Cardinality(known(0)) >= 1
      OBVIOUS
    <3>1. known(0) # {}
      BY <2>2
    <3>2. Cardinality(known(0)) # 0
      BY <2>1, <3>1, FS_EmptySet
    <3> QED
      BY <2>1, <3>2
  <2>4. ASSUME NEW n \in Nat, n \in T PROVE n + 1 \in T
    <3> SUFFICES ASSUME n + 1 <= N
                 PROVE  \/ Round(records, r[n + 1]) = r[n + 1]
                        \/ Cardinality(known(n + 1)) >= n + 2
      OBVIOUS
    <3>1. r[n + 1] = Round(records, r[n])
      BY <1>3
    <3>2. n <= N
      BY <1>1
    <3>3. CASE Round(records, r[n]) = r[n]
      BY <3>1, <3>3
    <3>4. CASE known(n + 1) = known(n)
      <4> DEFINE found == {x.value : x \in known(n)}
      <4>1. Round(records, r[n + 1]) = r[n + 1] \cup found
        BY <2>2, <3>4
      <4>2. r[n + 1] = r[n] \cup found
        BY <2>2, <3>1
      <4> HIDE DEF found
      <4> QED
        BY <4>1, <4>2
    <3>5. CASE known(n + 1) # known(n) /\ Cardinality(known(n)) >= n + 1
      <4>1. r[n] \subseteq r[n + 1]
        BY <3>1 DEF Round
      <4>2. known(n) \subseteq known(n + 1)
        BY <4>1
      <4>3. Cardinality(known(n)) <= Cardinality(known(n + 1))
            /\ (Cardinality(known(n)) = Cardinality(known(n + 1)) => known(n) = known(n + 1))
        BY <2>1, <4>2, FS_Subset
      <4> HIDE DEF known
      <4> QED
        BY <2>1, <3>5, <4>3
    <3> QED
      BY <2>4, <3>2, <3>3, <3>4, <3>5
  <2> HIDE DEF T
  <2>5. N \in T
    BY <1>1, <2>3, <2>4, SetInduction
  <2> USE DEF T
  <2> QED
    BY <1>1, <2>1, <2>5
<1>6. Follows(r[N])
  BY <1>5 DEF Round
<1>7. host \in r[N] /\ r[N] \subseteq names
  <2> DEFINE T == {n \in Nat : n <= N => host \in r[n]}
  <2>1. 0 \in T
    BY <1>3
  <2>2. ASSUME NEW n \in Nat, n \in T PROVE n + 1 \in T
    BY <1>1, <1>3, <2>2 DEF Round
  <2> HIDE DEF T
  <2>3. N \in T
    BY <1>1, <2>1, <2>2, SetInduction
  <2>4. host \in r[N]
    BY <1>1, <2>3 DEF T
  <2>5. Follows(names)
    OBVIOUS
  <2> QED
    BY <1>4, <2>4, <2>5
<1> HIDE DEF names
<1>8. Aliases(records, host)
        = {n \in names : \A S \in SUBSET names : host \in S /\ Follows(S) => n \in S}
  BY DEF Aliases, names
<1> HIDE DEF Follows
<1>9. Aliases(records, host) \subseteq r[N]
  BY <1>6, <1>7, <1>8
<1>10. r[N] \subseteq Aliases(records, host)
  BY <1>4, <1>7, <1>8
<1> QED
  BY <1>2, <1>9, <1>10

(* The values of a lookup are the records that count for the promise.      *)
LEMMA DNSTrue ==
  ASSUME NEW o \in DNSOptions, NEW c \in ParseDNS(o), ValidDNS(c), NEW w \in DNSWorld,
         ~ SaysOtherwise("dns", o, w)
  PROVE  CheckDNS(c, w) = "satisfied" <=> DNSPromise(o, w)
<1> DEFINE system == o.resolver = "system"
           answer == IF w.truncated /\ o.resolver = "wire" /\ ~ o.tcp THEN w.overTCP
                                                                     ELSE w.records
           found == DNSAnswers(o, w)
<1>1. /\ c.target = o.target /\ c.type = o.type /\ c.resolver = o.resolver /\ c.mode = o.mode
      /\ c.rcode = o.rcode /\ c.min = o.min /\ c.absent = o.absent /\ c.tcp = o.tcp
      /\ c.contains = o.contains /\ c.equals = o.equals /\ NormalizeDNSOptions(o)
  <2>1. NormalizeDNSOptions(o) /\ c = [o EXCEPT !.server = NormalizeDNSServer(o.server)]
    BY DEF ParseDNS, When
  <2> QED
    BY <2>1 DEF DNSOptions
<1>2. /\ o.resolver \in {"system", "wire"}
      /\ system => o.mode = "any" /\ o.rcode = "unset" /\ o.type \in SystemRecordTypes
      /\ o.mode \in {"any", "nxdomain", "nodata"}
  BY <1>1, SMT DEF NormalizeDNSOptions, WireOnly
<1>3. /\ w.records \subseteq DNSRecord /\ IsFiniteSet(w.records) /\ IsFiniteSet(w.overTCP)
      /\ w.link \in {"answers", "not-found", "other"}
  BY DEF DNSWorld
<1>4. AcceptedOwners(answer, o.target) = Aliases(answer, o.target)
  BY <1>3, OwnersAreAliases
<1>5. CASE ~ system
  <2>1. Lookup(c, w).values = WireValues(c, answer)
    BY <1>1, <1>2, <1>5 DEF Lookup
  <2>2. WireValues(c, answer) = found
    <3> HIDE DEF answer
    <3>1. WireValues(c, answer) = {x \in answer : /\ x.owner \in Aliases(answer, o.target)
                                                  /\ o.type \in {"ANY", x.type}}
      BY <1>1, <1>4 DEF WireValues
    <3>2. found = {x \in answer : /\ o.type = "ANY" \/ x.type = o.type
                                  /\ x.owner \in Aliases(answer, o.target)}
      BY <1>5 DEF DNSAnswers, answer
    <3> QED
      BY <3>1, <3>2
  <2>3. /\ Lookup(c, w).error = IF w.link # "answers" \/ ~ w.echoes THEN "other" ELSE "none"
        /\ Lookup(c, w).rcode = w.rcode
    BY <1>1, <1>5 DEF Lookup
  <2> DEFINE plain == ~ o.contains /\ o.equals = {} /\ o.min = 0
             fits == /\ found # {} /\ Cardinality(found) >= o.min
                     /\ o.contains => \E x \in found : x.marked
                     /\ o.equals \subseteq {x.value : x \in found}
  <2>4. CheckDNS(c, w) =
          IF w.link # "answers" \/ ~ w.echoes THEN "unsatisfied"
          ELSE IF o.rcode \notin {"unset", w.rcode} THEN "unsatisfied"
          ELSE IF o.absent THEN Verdict(Absent(c, Lookup(c, w)))
          ELSE IF o.rcode # "unset" /\ plain THEN "satisfied"
          ELSE Verdict(fits)
    <3> HIDE DEF found
    <3> QED
      BY <1>1, <2>1, <2>2, <2>3 DEF CheckDNS, Verdict
  <2>5. Absent(c, Lookup(c, w)) <=> DNSAbsence(o, w)
    <3> HIDE DEF found
    <3>1. Absent(c, Lookup(c, w)) <=>
            CASE o.mode = "nxdomain" -> w.rcode = "NXDOMAIN"
              [] o.mode = "nodata" -> w.rcode = "NOERROR" /\ found = {}
              [] OTHER -> w.rcode = "NXDOMAIN" \/ found = {}
      BY <1>1, <2>1, <2>2, <2>3 DEF Absent
    <3> QED
      BY <1>5, <3>1 DEF DNSAbsence, found
  <2>6. o.equals \subseteq {x.value : x \in found}
          <=> \A v \in o.equals : \E x \in found : x.value = v
    OBVIOUS
  <2>7. DNSPromise(o, w) <=>
          /\ w.link = "answers" /\ w.echoes
          /\ o.rcode # "unset" => w.rcode = o.rcode
          /\ IF o.absent THEN DNSAbsence(o, w) ELSE (o.rcode # "unset" /\ plain) \/ fits
    <3> HIDE DEF fits, plain
    <3>1. DNSPromise(o, w) <=>
          /\ w.link = "answers" /\ w.echoes
          /\ o.rcode # "unset" => w.rcode = o.rcode
          /\ IF o.absent THEN DNSAbsence(o, w)
             ELSE \/ o.rcode # "unset" /\ plain
                  \/ /\ found # {} /\ Cardinality(found) >= o.min
                     /\ o.contains => \E x \in found : x.marked
                     /\ \A v \in o.equals : \E x \in found : x.value = v
      BY <1>2, <1>5 DEF DNSPromise, plain
    <3> QED
      BY <2>6, <3>1 DEF fits
  <2> HIDE DEF found, plain, fits
  <2> QED
    BY <2>4, <2>5, <2>7 DEF Verdict
<1>6. CASE system
  <2>1. answer = w.records
    BY <1>6
  <2>2. SystemValues(c, w.records) = found
    <3>1. CASE o.type # "CNAME"
      <4>1. SystemValues(c, w.records)
              = {x \in w.records : /\ x.owner \in Aliases(w.records, o.target)
                                   /\ x.type \in (IF o.type = "ANY" THEN {"A", "AAAA"}
                                                   ELSE {o.type})}
        BY <1>1, <1>4, <2>1, <3>1 DEF SystemValues
      <4>2. found = {x \in w.records : /\ o.type = "ANY" \/ x.type = o.type
                                       /\ o.type = "ANY" => x.type \in {"A", "AAAA"}
                                       /\ x.owner \in Aliases(w.records, o.target)}
        BY <1>6, <2>1 DEF DNSAnswers
      <4> QED
        BY <4>1, <4>2
    <3>2. CASE o.type = "CNAME"
      <4>1. PICK x \in w.records : /\ {s \in w.records : s.type = "CNAME"} = {x}
                                   /\ x.owner = o.target /\ x.value # o.target
        BY <1>6, <3>2 DEF SaysOtherwise
      <4>2. Aliases(w.records, o.target) = {o.target, x.value}
        BY <4>1 DEF Aliases
      <4>3. found = {x}
        BY <1>6, <2>1, <3>2, <4>1, <4>2 DEF DNSAnswers
      <4>4. x = [owner |-> o.target, type |-> "CNAME", value |-> x.value,
                 marked |-> x.value = "1"]
        BY <1>3, <4>1 DEF DNSRecord
      <4>5. SystemValues(c, w.records)
              = {[owner |-> o.target, type |-> "CNAME", value |-> x.value,
                  marked |-> x.value = "1"]}
        <5>1. AcceptedOwners(w.records, o.target) = {o.target, x.value}
          BY <1>4, <2>1, <4>2
        <5>2. /\ ~ \E r \in w.records : r.type = "CNAME" /\ r.owner = x.value
              /\ \E r \in w.records : r.type = "CNAME" /\ r.owner = o.target
          BY <4>1
        <5>3. (CHOOSE n \in AcceptedOwners(w.records, o.target) :
                 ~ \E r \in w.records : r.type = "CNAME" /\ r.owner = n) = x.value
          BY <5>1, <5>2
        <5> QED
          BY <1>1, <3>2, <5>3 DEF SystemValues
      <4> QED
        BY <4>3, <4>4, <4>5
    <3> QED
      BY <3>1, <3>2
  <2>3. /\ Lookup(c, w).error =
              IF w.link = "not-found" \/ (w.link = "answers" /\ found = {}) THEN "not-found"
              ELSE IF w.link # "answers" THEN "other" ELSE "none"
        /\ Lookup(c, w).rcode = "NOERROR" /\ Lookup(c, w).values = found
    <3> HIDE DEF found
    <3> QED
      BY <1>1, <1>6, <2>2 DEF Lookup
  <2> DEFINE fits == /\ found # {} /\ Cardinality(found) >= o.min
                     /\ o.contains => \E x \in found : x.marked
                     /\ o.equals \subseteq {x.value : x \in found}
  <2>4. CheckDNS(c, w) =
          IF w.link = "not-found" \/ (w.link = "answers" /\ found = {}) THEN Verdict(o.absent)
          ELSE IF w.link # "answers" THEN "unsatisfied"
          ELSE IF o.absent THEN Verdict(Absent(c, Lookup(c, w)))
          ELSE Verdict(fits)
    <3> HIDE DEF found
    <3> QED
      BY <1>1, <1>2, <1>6, <2>3 DEF CheckDNS, Verdict
  <2>5. Absent(c, Lookup(c, w)) <=> found = {}
    <3> HIDE DEF found
    <3> QED
      BY <1>1, <1>2, <1>6, <2>3 DEF Absent
  <2>6. DNSPromise(o, w) <=>
          \/ w.link = "not-found" /\ o.absent
          \/ w.link = "answers" /\ IF o.absent THEN found = {} ELSE fits
    <3>1. DNSAbsence(o, w) <=> found = {}
      BY <1>6 DEF DNSAbsence
    <3>2. o.equals \subseteq {x.value : x \in found}
            <=> \A v \in o.equals : \E x \in found : x.value = v
      OBVIOUS
    <3>3. DNSPromise(o, w) <=>
            \/ w.link = "not-found" /\ o.absent
            \/ /\ w.link = "answers"
               /\ IF o.absent THEN DNSAbsence(o, w)
                  ELSE /\ found # {} /\ Cardinality(found) >= o.min
                       /\ o.contains => \E x \in found : x.marked
                       /\ \A v \in o.equals : \E x \in found : x.value = v
      BY <1>2, <1>6 DEF DNSPromise
    <3> HIDE DEF found
    <3> QED
      BY <3>1, <3>2, <3>3
  <2>7. fits => found # {}
    OBVIOUS
  <2> HIDE DEF found, fits
  <2> QED
    BY <1>3, <2>4, <2>5, <2>6, <2>7 DEF Verdict
<1> QED
  BY <1>5, <1>6

-----------------------------------------------------------------------------
(***************************************************************************)
(* The lemmas of the backends together                                     *)
(***************************************************************************)
(* What a backend accepts and then refuses is on its list.                 *)
LEMMA NotValidIsLate ==
  ASSUME NEW b \in BackendNames, NEW o \in OptionsOf(b), NEW c \in ParseOf(b, o),
         ~ ValidOf(b, c)
  PROVE  LateTarget(b, o) \/ LateOption(b, o)
<1>1. CASE b = "file"
  BY <1>1, FileUsable DEF OptionsOf, ParseOf, ValidOf
<1>2. CASE b = "glob"
  BY <1>2, GlobUsable DEF OptionsOf, ParseOf, ValidOf
<1>3. CASE b = "process"
  BY <1>3, ProcessUsable DEF OptionsOf, ParseOf, ValidOf
<1>4. CASE b = "pidfile"
  BY <1>4, PIDFileUsable DEF OptionsOf, ParseOf, ValidOf
<1>5. CASE b = "lockfile"
  BY <1>5, LockfileUsable DEF OptionsOf, ParseOf, ValidOf
<1>6. CASE b = "permission"
  BY <1>6, PermissionUsable DEF OptionsOf, ParseOf, ValidOf
<1>7. CASE b = "checksum"
  BY <1>7, ChecksumUsable DEF OptionsOf, ParseOf, ValidOf
<1>8. CASE b = "archive"
  BY <1>8, ArchiveUsable DEF OptionsOf, ParseOf, ValidOf
<1>9. CASE b = "http"
  BY <1>9, HTTPUsable DEF OptionsOf, ParseOf, ValidOf
<1>10. CASE b = "websocket"
  BY <1>10, WebSocketUsable DEF OptionsOf, ParseOf, ValidOf
<1>11. CASE b = "tcp"
  BY <1>11, TCPUsable DEF OptionsOf, ParseOf, ValidOf
<1>12. CASE b = "unix"
  BY <1>12, UnixUsable DEF OptionsOf, ParseOf, ValidOf
<1>13. CASE b = "ports"
  BY <1>13, PortsUsable DEF OptionsOf, ParseOf, ValidOf
<1>14. CASE b = "tls"
  BY <1>14, TLSUsable DEF OptionsOf, ParseOf, ValidOf
<1>15. CASE b = "ssh"
  BY <1>15, SSHUsable DEF OptionsOf, ParseOf, ValidOf
<1>16. CASE b = "s3"
  BY <1>16, S3Usable DEF OptionsOf, ParseOf, ValidOf
<1>17. CASE b = "dns"
  BY <1>17, DNSUsable DEF OptionsOf, ParseOf, ValidOf
<1>18. CASE b = "ntp"
  BY <1>18, NTPUsable DEF OptionsOf, ParseOf, ValidOf
<1>19. CASE b = "grpc"
  BY <1>19, GRPCUsable DEF OptionsOf, ParseOf, ValidOf
<1>20. CASE b = "docker"
  BY <1>20, DockerUsable DEF OptionsOf, ParseOf, ValidOf
<1>21. CASE b = "systemd"
  BY <1>21, SystemdUsable DEF OptionsOf, ParseOf, ValidOf
<1>22. CASE b = "launchd"
  BY <1>22, LaunchdUsable DEF OptionsOf, ParseOf, ValidOf
<1>23. CASE b = "cosign"
  BY <1>23, CosignUsable DEF OptionsOf, ParseOf, ValidOf
<1>24. CASE b = "icmp"
  BY <1>24, ICMPUsable DEF OptionsOf, ParseOf, ValidOf
<1>25. CASE b = "exec"
  BY <1>25, ExecUsable DEF OptionsOf, ParseOf, ValidOf
<1>26. CASE b = "log"
  BY <1>26, LogUsable DEF OptionsOf, ParseOf, ValidOf
<1>27. CASE b = "k8s"
  BY <1>27, K8sUsable DEF OptionsOf, ParseOf, ValidOf
<1> QED
  BY <1>1, <1>2, <1>3, <1>4, <1>5, <1>6, <1>7, <1>8, <1>9, <1>10, <1>11, <1>12, <1>13,
     <1>14, <1>15, <1>16, <1>17, <1>18, <1>19, <1>20, <1>21, <1>22, <1>23, <1>24, <1>25,
     <1>26, <1>27 DEF BackendNames

Answers == {"satisfied", "unsatisfied", "fatal"}

(* Only a glob pattern is found wrong by the observation itself.           *)
LEMMA ObservationIsAnswer ==
  ASSUME NEW b \in BackendNames, NEW o \in OptionsOf(b), NEW c \in ParseOf(b, o),
         NEW w \in WorldsOf(b)
  PROVE  \/ Observation(b, c, w) \in Answers
         \/ Observation(b, c, w) = "misconfigured" /\ LateTarget(b, o)
<1>1. CASE b = "file"
  BY <1>1 DEF Answers, Observation, CheckFile, Verdict
<1>2. CASE b = "glob"
  <2>1. o \in GlobOptions /\ c \in ParseGlob(o) /\ Observation(b, c, w) = CheckGlob(c, w)
    BY <1>2 DEF OptionsOf, ParseOf, Observation
  <2>2. c.target = o.target
    BY <2>1 DEF ParseGlob, When
  <2>3. CheckGlob(c, w) \in Answers \/ (CheckGlob(c, w) = "misconfigured" /\ c.target = "dir/[")
    BY DEF CheckGlob, Verdict, Answers
  <2> QED
    BY <1>2, <2>1, <2>2, <2>3 DEF LateTarget
<1>3. CASE b = "process"
  BY <1>3 DEF Answers, Observation, CheckProcess, Verdict, PIDExists, CheckFound
<1>4. CASE b = "pidfile"
  BY <1>4 DEF Answers, Observation, CheckPIDFile, Verdict, CheckPIDFileReadError,
     PIDExists, CheckFound
<1>5. CASE b = "lockfile"
  BY <1>5 DEF Answers, Observation, CheckLockfile, Verdict
<1>6. CASE b = "permission"
  BY <1>6 DEF Answers, Observation, CheckPermission, Verdict
<1>7. CASE b = "checksum"
  BY <1>7 DEF Answers, Observation, CheckChecksum, Verdict
<1>8. CASE b = "archive"
  BY <1>8 DEF Answers, Observation, CheckArchive, Verdict
<1>9. CASE b = "http"
  BY <1>9 DEF Answers, Observation, CheckHTTP, Verdict
<1>10. CASE b = "websocket"
  BY <1>10 DEF Answers, Observation, CheckWebSocket, Verdict
<1>11. CASE b = "tcp"
  BY <1>11 DEF Answers, Observation, CheckDial, Verdict
<1>12. CASE b = "unix"
  BY <1>12 DEF Answers, Observation, CheckDial, Verdict
<1>13. CASE b = "ports"
  BY <1>13 DEF Answers, Observation, CheckPorts, Verdict
<1>14. CASE b = "tls"
  BY <1>14 DEF Answers, Observation, CheckTLS, Verdict
<1>15. CASE b = "ssh"
  BY <1>15 DEF Answers, Observation, CheckSSH, Verdict
<1>16. CASE b = "s3"
  BY <1>16 DEF Answers, Observation, CheckS3, CheckS3Object, Verdict
<1>17. CASE b = "dns"
  BY <1>17 DEF Answers, Observation, CheckDNS, Verdict
<1>18. CASE b = "ntp"
  BY <1>18 DEF Answers, Observation, CheckNTP, Verdict
<1>19. CASE b = "grpc"
  BY <1>19 DEF Answers, Observation, CheckGRPC, Verdict
<1>20. CASE b = "docker"
  BY <1>20 DEF Answers, Observation, CheckDocker, ToolVerdict, Verdict
<1>21. CASE b = "systemd"
  BY <1>21 DEF Answers, Observation, CheckSystemd, ToolVerdict, Verdict
<1>22. CASE b = "launchd"
  BY <1>22 DEF Answers, Observation, CheckLaunchd, ToolVerdict, Verdict
<1>23. CASE b = "cosign"
  BY <1>23 DEF Answers, Observation, CheckCosign, ToolVerdict, Verdict
<1>24. CASE b = "icmp"
  BY <1>24 DEF Answers, Observation, CheckICMP, ToolVerdict, Verdict
<1>25. CASE b = "exec"
  BY <1>25 DEF Answers, Observation, CheckExec, Verdict
<1>26. CASE b = "log"
  BY <1>26 DEF Answers, Observation, CheckLog, Verdict
<1>27. CASE b = "k8s"
  BY <1>27 DEF Answers, Observation, CheckK8s, ClassifyGetterError, Selected, WaitFor,
     NamedCondition, DeploymentRollout, StatefulSetRollout, DaemonSetRollout, JSONExpr,
     Verdict
<1> QED
  BY <1>1, <1>2, <1>3, <1>4, <1>5, <1>6, <1>7, <1>8, <1>9, <1>10, <1>11, <1>12, <1>13,
     <1>14, <1>15, <1>16, <1>17, <1>18, <1>19, <1>20, <1>21, <1>22, <1>23, <1>24, <1>25,
     <1>26, <1>27 DEF BackendNames

(* What a backend observes is what the words ask for.                      *)
LEMMA VerdictIsPromise ==
  ASSUME NEW b \in BackendNames, NEW o \in OptionsOf(b), NEW c \in ParseOf(b, o), ValidOf(b, c),
         NEW w \in WorldsOf(b), ~ SaysOtherwise(b, o, w),
         Observation(b, c, w) # "misconfigured"
  PROVE  Observation(b, c, w) = "satisfied" <=> Promise(b, o, w)
<1>1. CASE b = "file"
  <2>1. /\ o \in FileOptions /\ c \in ParseFile(o) /\ ValidFile(c) /\ w \in FileWorld
        /\ Observation(b, c, w) = CheckFile(c, w)
    BY <1>1 DEF OptionsOf, WorldsOf, ParseOf, ValidOf, Observation
  <2> QED
    BY <1>1, <2>1, FileTrue DEF Promise
<1>2. CASE b = "glob"
  <2>1. /\ o \in GlobOptions /\ c \in ParseGlob(o) /\ ValidGlob(c) /\ w \in GlobWorld
        /\ Observation(b, c, w) = CheckGlob(c, w)
    BY <1>2 DEF OptionsOf, WorldsOf, ParseOf, ValidOf, Observation
  <2> QED
    BY <1>2, <2>1, GlobTrue DEF Promise, SaysOtherwise
<1>3. CASE b = "process"
  <2>1. /\ o \in ProcessOptions /\ c \in ParseProcess(o)
        /\ ValidProcess(c) /\ w \in ProcessWorld
        /\ Observation(b, c, w) = CheckProcess(c, w)
    BY <1>3 DEF OptionsOf, WorldsOf, ParseOf, ValidOf, Observation
  <2> QED
    BY <1>3, <2>1, ProcessTrue DEF Promise
<1>4. CASE b = "pidfile"
  <2>1. /\ o \in PIDFileOptions /\ c \in ParsePIDFile(o)
        /\ ValidPIDFile(c) /\ w \in PIDFileWorld
        /\ Observation(b, c, w) = CheckPIDFile(c, w)
    BY <1>4 DEF OptionsOf, WorldsOf, ParseOf, ValidOf, Observation
  <2> QED
    BY <1>4, <2>1, PIDFileTrue DEF Promise
<1>5. CASE b = "lockfile"
  <2>1. /\ o \in LockfileOptions /\ c \in ParseLockfile(o)
        /\ ValidLockfile(c) /\ w \in LockfileWorld
        /\ Observation(b, c, w) = CheckLockfile(c, w)
    BY <1>5 DEF OptionsOf, WorldsOf, ParseOf, ValidOf, Observation
  <2> QED
    BY <1>5, <2>1, LockfileTrue DEF Promise
<1>6. CASE b = "permission"
  <2>1. /\ o \in PermissionOptions /\ c \in ParsePermission(o)
        /\ ValidPermission(c) /\ w \in PermissionWorld
        /\ Observation(b, c, w) = CheckPermission(c, w)
    BY <1>6 DEF OptionsOf, WorldsOf, ParseOf, ValidOf, Observation
  <2> QED
    BY <1>6, <2>1, PermissionTrue DEF Promise, SaysOtherwise
<1>7. CASE b = "checksum"
  <2>1. /\ o \in ChecksumOptions /\ c \in ParseChecksum(o)
        /\ ValidChecksum(c) /\ w \in ChecksumWorld
        /\ Observation(b, c, w) = CheckChecksum(c, w)
    BY <1>7 DEF OptionsOf, WorldsOf, ParseOf, ValidOf, Observation
  <2> QED
    BY <1>7, <2>1, ChecksumTrue DEF Promise
<1>8. CASE b = "archive"
  <2>1. /\ o \in ArchiveOptions /\ c \in ParseArchive(o)
        /\ ValidArchive(c) /\ w \in ArchiveWorld
        /\ Observation(b, c, w) = CheckArchive(c, w)
    BY <1>8 DEF OptionsOf, WorldsOf, ParseOf, ValidOf, Observation
  <2> QED
    BY <1>8, <2>1, ArchiveTrue DEF Promise, SaysOtherwise
<1>9. CASE b = "http"
  <2>1. /\ o \in HTTPOptions /\ c \in ParseHTTP(o) /\ ValidHTTP(c) /\ w \in HTTPWorld
        /\ Observation(b, c, w) = CheckHTTP(c, w)
    BY <1>9 DEF OptionsOf, WorldsOf, ParseOf, ValidOf, Observation
  <2> QED
    BY <1>9, <2>1, HTTPTrue DEF Promise, SaysOtherwise
<1>10. CASE b = "websocket"
  <2>1. /\ o \in WebSocketOptions /\ c \in ParseWebSocket(o)
        /\ ValidWebSocket(c) /\ w \in WebSocketWorld
        /\ Observation(b, c, w) = CheckWebSocket(c, w)
    BY <1>10 DEF OptionsOf, WorldsOf, ParseOf, ValidOf, Observation
  <2> QED
    BY <1>10, <2>1, WebSocketTrue DEF Promise
<1>11. CASE b = "tcp"
  <2>1. /\ o \in TargetOptions /\ c \in ParseTCP(o) /\ ValidTCP(c) /\ w \in DialWorld
        /\ Observation(b, c, w) = CheckDial(c, w)
    BY <1>11 DEF OptionsOf, WorldsOf, ParseOf, ValidOf, Observation
  <2> QED
    BY <1>11, <2>1, TCPTrue DEF Promise
<1>12. CASE b = "unix"
  <2>1. /\ o \in TargetOptions /\ c \in ParseUnix(o) /\ ValidUnix(c) /\ w \in DialWorld
        /\ Observation(b, c, w) = CheckDial(c, w)
    BY <1>12 DEF OptionsOf, WorldsOf, ParseOf, ValidOf, Observation
  <2> QED
    BY <1>12, <2>1, UnixTrue DEF Promise
<1>13. CASE b = "ports"
  <2>1. /\ o \in PortsOptions /\ c \in ParsePorts(o) /\ ValidPorts(c) /\ w \in PortsWorld
        /\ Observation(b, c, w) = CheckPorts(c, w)
    BY <1>13 DEF OptionsOf, WorldsOf, ParseOf, ValidOf, Observation
  <2> QED
    BY <1>13, <2>1, PortsTrue DEF Promise
<1>14. CASE b = "tls"
  <2>1. /\ o \in TLSOptions /\ c \in ParseTLS(o) /\ ValidTLS(c) /\ w \in TLSWorld
        /\ Observation(b, c, w) = CheckTLS(c, w)
    BY <1>14 DEF OptionsOf, WorldsOf, ParseOf, ValidOf, Observation
  <2> QED
    BY <1>14, <2>1, TLSTrue DEF Promise
<1>15. CASE b = "ssh"
  <2>1. /\ o \in SSHOptions /\ c \in ParseSSH(o) /\ ValidSSH(c) /\ w \in SSHWorld
        /\ Observation(b, c, w) = CheckSSH(c, w)
    BY <1>15 DEF OptionsOf, WorldsOf, ParseOf, ValidOf, Observation
  <2> QED
    BY <1>15, <2>1, SSHTrue DEF Promise, SaysOtherwise
<1>16. CASE b = "s3"
  <2>1. /\ o \in S3Options /\ c \in ParseS3(o) /\ ValidS3(c) /\ w \in S3World
        /\ Observation(b, c, w) = CheckS3(c, w)
    BY <1>16 DEF OptionsOf, WorldsOf, ParseOf, ValidOf, Observation
  <2> QED
    BY <1>16, <2>1, S3True DEF Promise, SaysOtherwise
<1>17. CASE b = "dns"
  <2>1. /\ o \in DNSOptions /\ c \in ParseDNS(o) /\ ValidDNS(c) /\ w \in DNSWorld
        /\ Observation(b, c, w) = CheckDNS(c, w)
    BY <1>17 DEF OptionsOf, WorldsOf, ParseOf, ValidOf, Observation
  <2> QED
    BY <1>17, <2>1, DNSTrue DEF Promise
<1>18. CASE b = "ntp"
  <2>1. /\ o \in NTPOptions /\ c \in ParseNTP(o) /\ ValidNTP(c) /\ w \in NTPWorld
        /\ Observation(b, c, w) = CheckNTP(c, w)
    BY <1>18 DEF OptionsOf, WorldsOf, ParseOf, ValidOf, Observation
  <2>2. w.clock + w.ahead + w.held < Era
    <3>1. ~ (w.clock + w.ahead + w.held >= Era)
      BY <1>18 DEF SaysOtherwise
    <3>2. w.clock \in Nat /\ w.ahead \in Int /\ w.held \in Nat
      BY <2>1 DEF NTPWorld
    <3> QED
      BY <3>1, <3>2 DEF Era
  <2> QED
    BY <1>18, <2>1, <2>2, NTPTrue DEF Promise
<1>19. CASE b = "grpc"
  <2>1. /\ o \in GRPCOptions /\ c \in ParseGRPC(o) /\ ValidGRPC(c) /\ w \in GRPCWorld
        /\ Observation(b, c, w) = CheckGRPC(c, w)
    BY <1>19 DEF OptionsOf, WorldsOf, ParseOf, ValidOf, Observation
  <2> QED
    BY <1>19, <2>1, GRPCTrue DEF Promise, SaysOtherwise
<1>20. CASE b = "docker"
  <2>1. /\ o \in DockerOptions /\ c \in ParseDocker(o)
        /\ ValidDocker(c) /\ w \in DockerWorld
        /\ Observation(b, c, w) = CheckDocker(c, w)
    BY <1>20 DEF OptionsOf, WorldsOf, ParseOf, ValidOf, Observation
  <2> QED
    BY <1>20, <2>1, DockerTrue DEF Promise
<1>21. CASE b = "systemd"
  <2>1. /\ o \in SystemdOptions /\ c \in ParseSystemd(o)
        /\ ValidSystemd(c) /\ w \in SystemdWorld
        /\ Observation(b, c, w) = CheckSystemd(c, w)
    BY <1>21 DEF OptionsOf, WorldsOf, ParseOf, ValidOf, Observation
  <2> QED
    BY <1>21, <2>1, SystemdTrue DEF Promise
<1>22. CASE b = "launchd"
  <2>1. /\ o \in LaunchdOptions /\ c \in ParseLaunchd(o)
        /\ ValidLaunchd(c) /\ w \in LaunchdWorld
        /\ Observation(b, c, w) = CheckLaunchd(c, w)
    BY <1>22 DEF OptionsOf, WorldsOf, ParseOf, ValidOf, Observation
  <2> QED
    BY <1>22, <2>1, LaunchdTrue DEF Promise
<1>23. CASE b = "cosign"
  <2>1. /\ o \in CosignOptions /\ c \in ParseCosign(o)
        /\ ValidCosign(c) /\ w \in CosignWorld
        /\ Observation(b, c, w) = CheckCosign(c, w)
    BY <1>23 DEF OptionsOf, WorldsOf, ParseOf, ValidOf, Observation
  <2> QED
    BY <1>23, <2>1, CosignTrue DEF Promise
<1>24. CASE b = "icmp"
  <2>1. /\ o \in ICMPOptions /\ c \in ParseICMP(o) /\ ValidICMP(c) /\ w \in ICMPWorld
        /\ Observation(b, c, w) = CheckICMP(c, w)
    BY <1>24 DEF OptionsOf, WorldsOf, ParseOf, ValidOf, Observation
  <2> QED
    BY <1>24, <2>1, ICMPTrue DEF Promise
<1>25. CASE b = "exec"
  <2>1. /\ o \in ExecOptions /\ c \in ParseExec(o) /\ ValidExec(c) /\ w \in ExecWorld
        /\ Observation(b, c, w) = CheckExec(c, w)
    BY <1>25 DEF OptionsOf, WorldsOf, ParseOf, ValidOf, Observation
  <2> QED
    BY <1>25, <2>1, ExecTrue DEF Promise
<1>26. CASE b = "log"
  <2>1. /\ o \in LogOptions /\ c \in ParseLog(o) /\ ValidLog(c) /\ w \in LogWorld
        /\ Observation(b, c, w) = CheckLog(c, w)
    BY <1>26 DEF OptionsOf, WorldsOf, ParseOf, ValidOf, Observation
  <2> QED
    BY <1>26, <2>1, LogTrue DEF Promise, SaysOtherwise
<1>27. CASE b = "k8s"
  <2>1. /\ o \in K8sOptions /\ c \in ParseK8s(o) /\ ValidK8s(c) /\ w \in K8sWorld
        /\ Observation(b, c, w) = CheckK8s(c, w)
    BY <1>27 DEF OptionsOf, WorldsOf, ParseOf, ValidOf, Observation
  <2> QED
    BY <1>27, <2>1, K8sTrue DEF Promise, SaysOtherwise
<1> QED
  BY <1>1, <1>2, <1>3, <1>4, <1>5, <1>6, <1>7, <1>8, <1>9, <1>10, <1>11, <1>12, <1>13,
     <1>14, <1>15, <1>16, <1>17, <1>18, <1>19, <1>20, <1>21, <1>22, <1>23, <1>24, <1>25,
     <1>26, <1>27 DEF BackendNames

-----------------------------------------------------------------------------
(***************************************************************************)
(* The invariant: a condition is what the parser made of the words, and a  *)
(* verdict what its check said of the world.                               *)
(***************************************************************************)
Polled ==
  \/ world = {}
  \/ \E c \in ParseOf(backend, given) : \E w \in Worlds[backend] :
       world = {w} /\ verdict = Check(backend, c, w)

IInv == TypeOK /\ Polled

(* The words and the world are some that the backend may be given.         *)
LEMMA Given ==
  ASSUME IInv
  PROVE  /\ backend \in BackendNames /\ given \in OptionsOf(backend)
         /\ Worlds[backend] \subseteq WorldsOf(backend)
  BY InvocationAssumption DEF IInv, TypeOK

(* What a check may say, and when it says that the condition is wrong.     *)
LEMMA CheckIsVerdict ==
  ASSUME NEW b \in BackendNames, NEW o \in OptionsOf(b), NEW c \in ParseOf(b, o),
         NEW w \in WorldsOf(b)
  PROVE  /\ Check(b, c, w) \in Answers \cup {"misconfigured"}
         /\ Check(b, c, w) = "misconfigured" => LateTarget(b, o) \/ LateOption(b, o)
<1>1. CASE ValidOf(b, c)
  BY <1>1, ObservationIsAnswer DEF Check, Answers
<1>2. CASE ~ ValidOf(b, c)
  BY <1>2, NotValidIsLate DEF Check
<1> QED
  BY <1>1, <1>2

LEMMA IInvInit == Init => IInv
  BY DEF Init, IInv, TypeOK, Polled

LEMMA IInvStep == IInv /\ [Next]_vars => IInv'
<1> SUFFICES ASSUME IInv, [Next]_vars PROVE IInv'
  OBVIOUS
<1>1. CASE Parse
  BY <1>1 DEF Parse, IInv, TypeOK, Polled
<1>2. ASSUME NEW w \in Worlds[backend], Poll(w) PROVE IInv'
  <2>1. PICK c \in cond : verdict' = Check(backend, c, w)
    BY <1>2 DEF Poll
  <2>2. /\ backend' = backend /\ given' = given /\ cond' = cond /\ world' = {w}
        /\ stage = "polling"
        /\ stage' = IF verdict' = "unsatisfied" THEN "waiting" ELSE "done"
    BY <1>2 DEF Poll
  <2>3. cond = ParseOf(backend, given)
    BY <2>2 DEF IInv, TypeOK
  <2>4. Polled'
    BY <2>1, <2>2, <2>3 DEF Polled
  <2>5. verdict' \in Answers \cup {"misconfigured"}
    BY <2>1, <2>3, Given, CheckIsVerdict
  <2>6. TypeOK'
    BY <2>2, <2>3, <2>5 DEF IInv, TypeOK, Answers
  <2> QED
    BY <2>4, <2>6 DEF IInv
<1>3. CASE Wait
  BY <1>3 DEF Wait, IInv, TypeOK, Polled
<1>4. CASE GiveUp
  BY <1>4 DEF GiveUp, IInv, TypeOK, Polled
<1>5. CASE UNCHANGED vars
  BY <1>5 DEF vars, IInv, TypeOK, Polled
<1> QED
  BY <1>1, <1>2, <1>3, <1>4, <1>5 DEF Next

LEMMA Invariance == Spec => []IInv
  BY IInvInit, IInvStep, PTL DEF Spec

(* What was checked is all that the properties are about.                  *)
LEMMA IInvImplies == IInv => UsableOnceAccepted /\ VerdictIsTrue
<1> SUFFICES ASSUME IInv PROVE UsableOnceAccepted /\ VerdictIsTrue
  OBVIOUS
<1>1. CASE world = {}
  BY <1>1 DEF IInv, TypeOK, UsableOnceAccepted, VerdictIsTrue
<1>2. ASSUME NEW c \in ParseOf(backend, given), NEW w \in Worlds[backend],
             world = {w}, verdict = Check(backend, c, w)
      PROVE  UsableOnceAccepted /\ VerdictIsTrue
  <2>1. /\ backend \in BackendNames /\ given \in OptionsOf(backend)
        /\ w \in WorldsOf(backend)
    BY Given
  <2>2. UsableOnceAccepted
    BY <1>2, <2>1, CheckIsVerdict DEF UsableOnceAccepted
  <2>3. ASSUME verdict # "misconfigured", ~ SaysOtherwise(backend, given, w)
        PROVE  verdict = "satisfied" <=> Promise(backend, given, w)
    <3>1. ValidOf(backend, c) /\ verdict = Observation(backend, c, w)
      BY <1>2, <2>3 DEF Check
    <3> QED
      BY <2>1, <2>3, <3>1, VerdictIsPromise
  <2>4. VerdictIsTrue
    BY <1>2, <2>3 DEF VerdictIsTrue
  <2> QED
    BY <2>2, <2>4
<1> QED
  BY <1>1, <1>2 DEF IInv, Polled

(* A condition exists exactly from an accepted command line on, and a      *)
(* verdict from a check on, for any command lines and worlds.              *)
THEOREM InvocationType == Spec => []TypeOK
  BY Invariance, PTL DEF IInv

(* No check finds a command line wrong that its parser has accepted, but   *)
(* for the targets and options listed: for any text or number where a flag *)
(* takes any, the rules of cli.go and those of the conditions agree.       *)
THEOREM AcceptedIsUsable == Spec => []UsableOnceAccepted
  BY Invariance, IInvImplies, PTL

(* Whatever the command line and whatever the world, the verdict of a      *)
(* check is what the words ask for, but for the exceptions listed: between *)
(* the flags and the comparison nothing is lost and nothing is added.      *)
THEOREM VerdictsAreTrue == Spec => []VerdictIsTrue
  BY Invariance, IInvImplies, PTL

-----------------------------------------------------------------------------
(***************************************************************************)
(* What is waited for can come.                                            *)
(***************************************************************************)
(* The texts of the worlds below, which are strings for TLC but unknown to *)
(* the provers.                                                            *)
Texts ==
  {"answers", "connected", "ok", "h", "tar", "tgz", "zip", "auto", "aws", "bucket.endpoint",
   "endpoint/bucket", "good", "one-frame-grpc-status-0", "health", "service-of-method",
   "A", "CNAME", "1", "Running", "active", "inactive", "failed", "unset", "true",
   "regular", "switches"}

(* They are strings, and there are as many strings as one may want.        *)
StringsExist ==
  /\ Texts \subseteq STRING
  /\ \A n \in Nat : \E S \in SUBSET STRING : IsFiniteSet(S) /\ Cardinality(S) >= n

(* Whatever may happen in a world of a backend may happen to this wait.    *)
EveryWorld == \A b \in Backends : WorldsOf(b) \subseteq Worlds[b]

LEMMA TextsAreStrings ==
  ASSUME StringsExist
  PROVE  /\ "answers" \in STRING /\ "connected" \in STRING /\ "ok" \in STRING /\ "h" \in STRING
         /\ "tar" \in STRING /\ "tgz" \in STRING /\ "zip" \in STRING /\ "auto" \in STRING
         /\ "aws" \in STRING /\ "bucket.endpoint" \in STRING /\ "endpoint/bucket" \in STRING
         /\ "good" \in STRING /\ "one-frame-grpc-status-0" \in STRING
         /\ "health" \in STRING /\ "service-of-method" \in STRING
         /\ "A" \in STRING /\ "CNAME" \in STRING /\ "1" \in STRING /\ "Running" \in STRING
         /\ "active" \in STRING /\ "inactive" \in STRING /\ "failed" \in STRING
         /\ "unset" \in STRING /\ "true" \in STRING /\ "regular" \in STRING
         /\ "switches" \in STRING
<1>1. Texts \subseteq STRING
  BY DEF StringsExist
<1> QED
  BY <1>1, Zenon DEF Texts

(* Each backend has a world in which its check is satisfied: given as a    *)
(* record, whose verdict follows from the promise or from the check.       *)
LEMMA FileSatisfiable ==
  ASSUME NEW o \in FileOptions, NEW c \in ParseFile(o), ValidFile(c)
  PROVE  \E w \in FileWorld : CheckFile(c, w) = "satisfied"
<1> DEFINE w == [stat |-> IF "deleted" \in o.states THEN "missing" ELSE "regular",
                 open |-> "regular", text |-> "within-limit"]
<1>1. w \in FileWorld
  BY DEF FileWorld
<1>2. FilePromise(o, w)
  BY DEF FilePromise
<1> QED
  BY <1>1, <1>2, FileTrue

(* More matches than are collected, or than a path has, never come.        *)
LEMMA GlobSatisfiable ==
  ASSUME NEW o \in GlobOptions, NEW c \in ParseGlob(o), ValidGlob(c)
  PROVE  IF Hopeless("glob", o)
         THEN \A w \in GlobWorld : CheckGlob(c, w) # "satisfied"
         ELSE \E w \in GlobWorld : CheckGlob(c, w) \in {"satisfied", "misconfigured"}
<1> DEFINE most == IF o.target = "literal" THEN 1 ELSE MaxGlobMatches
<1>1. /\ c.absent = o.absent /\ c.min \in Nat /\ c.max \in Int /\ (c.max >= 0 => c.min <= c.max)
      /\ c.target = o.target
  BY SMT DEF ParseGlob, When, GlobOptions, GlobMinimum, Unset, ValidGlob
<1>2. /\ o.min > most => c.min = o.min /\ ~ c.absent
      /\ c.min > most => c.min = o.min
  <2>1. c.min = GlobMinimum(o) /\ (o.absent => o.min \in {Unset, 0}) /\ o.min \in Int
    BY DEF ParseGlob, When, GlobOptions
  <2> QED
    BY <1>1, <2>1, SMT DEF GlobMinimum, Unset, MaxGlobMatches
<1>3. Hopeless("glob", o) <=> o.min > most
  BY DEF Hopeless
<1>4. ASSUME o.min > most, NEW w \in GlobWorld, CheckGlob(c, w) = "satisfied"
      PROVE  FALSE
  <2>1. ~ GlobTooMany(c, w) /\ GlobCount(c, w) >= c.min
    BY <1>2, <1>4 DEF CheckGlob, Verdict
  <2>2. GlobCount(c, w) <= most
    <3>1. w.matching \in Nat
      BY DEF GlobWorld
    <3> QED
      BY <1>1, <2>1, <3>1, SMT DEF GlobTooMany, GlobCount, MaxGlobMatches
  <2>3. GlobCount(c, w) \in Nat /\ most \in Nat
    BY SMT DEF GlobCount, GlobWorld, MaxGlobMatches
  <2> HIDE DEF most
  <2> QED
    BY <1>1, <1>2, <1>4, <2>1, <2>2, <2>3
<1>5. ASSUME ~ (o.min > most)
      PROVE  \E w \in GlobWorld : CheckGlob(c, w) \in {"satisfied", "misconfigured"}
  <2> DEFINE n == IF o.absent THEN 0 ELSE c.min
             w == [dir |-> "readable", names |-> n, matching |-> n]
  <2>1. ~ (c.min > most)
    BY <1>2, <1>5
  <2>2. n \in Nat /\ ~ (n > most) /\ w.dir = "readable" /\ w.names = n /\ w.matching = n
    BY <1>1, <2>1, SMT DEF MaxGlobMatches
  <2>3. w \in GlobWorld
    BY <2>2 DEF GlobWorld
  <2>4. GlobCount(c, w) = n /\ ~ GlobTooMany(c, w)
    BY <1>1, <2>2, SMT DEF GlobCount, GlobTooMany, MaxGlobMatches, MaxGlobDirectoryEntries
  <2>5. CheckGlob(c, w) \in {"satisfied", "misconfigured"}
    BY <1>1, <2>2, <2>4, SMT DEF CheckGlob, Verdict
  <2> QED
    BY <2>3, <2>5
<1> QED
  BY <1>3, <1>4, <1>5

LEMMA ProcessSatisfiable ==
  ASSUME NEW o \in ProcessOptions, NEW c \in ParseProcess(o), ValidProcess(c)
  PROVE  \E w \in ProcessWorld : CheckProcess(c, w) = "satisfied"
<1> DEFINE w == IF "stopped" \in o.states THEN [pid |-> "gone", list |-> "unnamed"]
                                          ELSE [pid |-> "ours", list |-> "named"]
<1>1. w \in ProcessWorld
  BY DEF ProcessWorld, PIDs
<1>2. ProcessPromise(o, w)
  BY DEF ProcessPromise
<1> QED
  BY <1>1, <1>2, ProcessTrue

LEMMA PIDFileSatisfiable ==
  ASSUME NEW o \in PIDFileOptions, NEW c \in ParsePIDFile(o), ValidPIDFile(c)
  PROVE  \E w \in PIDFileWorld : CheckPIDFile(c, w) = "satisfied"
<1> DEFINE w == [file |-> "pid", pid |-> IF "stopped" \in o.states THEN "gone" ELSE "ours"]
<1>1. w \in PIDFileWorld
  BY DEF PIDFileWorld, PIDs
<1>2. PIDFilePromise(o, w)
  BY DEF PIDFilePromise
<1> QED
  BY <1>1, <1>2, PIDFileTrue

LEMMA LockfileSatisfiable ==
  ASSUME NEW o \in LockfileOptions, NEW c \in ParseLockfile(o), ValidLockfile(c)
  PROVE  \E w \in LockfileWorld : CheckLockfile(c, w) = "satisfied"
<1> DEFINE absent == "present" \notin o.states /\ o.older = "unset"
           w == [lstat |-> IF absent THEN "missing" ELSE "exists", age |-> 5]
<1>1. w \in LockfileWorld
  BY DEF LockfileWorld
<1>2. LockfilePromise(o, w)
  BY DEF LockfilePromise
<1> QED
  BY <1>1, <1>2, LockfileTrue

(* Where a negative owner is no requirement but a numeric name may be one. *)
LEMMA PermissionSatisfiable ==
  ASSUME NEW o \in PermissionOptions, NEW c \in ParsePermission(o), ValidPermission(c)
  PROVE  IF "-5" \in {o.user, o.group}
         THEN \A w \in PermissionWorld : CheckPermission(c, w) # "satisfied"
         ELSE \E w \in PermissionWorld : CheckPermission(c, w) = "satisfied"
<1> DEFINE Owner(id) == IF id = Unset THEN 0 ELSE id
<1>1. /\ c.uid = ParseOwner(o.uid, o.user)[2] /\ ParseOwner(o.uid, o.user)[1]
      /\ c.gid = ParseOwner(o.gid, o.group)[2] /\ ParseOwner(o.gid, o.group)[1]
      /\ c.mode = ParseMode(o.mode)
  BY DEF ParsePermission, When
<1>2. /\ c.uid = IF o.user = "-5" THEN -5 ELSE IF o.user = "1" THEN 1
                 ELSE IF o.uid >= 0 THEN o.uid ELSE Unset
      /\ c.gid = IF o.group = "-5" THEN -5 ELSE IF o.group = "1" THEN 1
                 ELSE IF o.gid >= 0 THEN o.gid ELSE Unset
  BY <1>1, SMT DEF ParseOwner, PermissionOptions, Owners
<1>3. c.mode \in {0, 420}
  BY <1>1, SMT DEF ParseMode, ValidPermission
<1>4. CASE "-5" \in {o.user, o.group}
  BY <1>2, <1>4, SMT DEF CheckPermission, PermissionsFit, PermissionWorld, Verdict, Unset
<1>5. CASE "-5" \notin {o.user, o.group}
  <2> DEFINE w == [lstat |-> "exists", type |-> IF c.type = "any" THEN "file" ELSE c.type,
                   mode |-> c.mode, uid |-> Owner(c.uid), gid |-> Owner(c.gid)]
  <2>1. w \in PermissionWorld
    BY <1>2, <1>3, <1>5, SMT DEF PermissionWorld, PermissionOptions, ValidPermission, Unset
  <2>2. CheckPermission(c, w) = "satisfied"
    BY DEF CheckPermission, PermissionsFit, Verdict
  <2> QED
    BY <1>5, <2>1, <2>2
<1> QED
  BY <1>4, <1>5

LEMMA ChecksumSatisfiable ==
  ASSUME NEW o \in ChecksumOptions, NEW c \in ParseChecksum(o), ValidChecksum(c)
  PROVE  \E w \in ChecksumWorld : CheckChecksum(c, w) = "satisfied"
<1> DEFINE w == [open |-> "regular", digestOf |-> ResolvedChecksum(c)]
<1>1. w \in ChecksumWorld
  BY DEF ChecksumWorld, ValidChecksum
<1>2. CheckChecksum(c, w) = "satisfied"
  BY DEF CheckChecksum, FileChecksumIs, Verdict
<1> QED
  BY <1>1, <1>2

LEMMA ArchiveSatisfiable ==
  ASSUME NEW o \in ArchiveOptions, NEW c \in ParseArchive(o), ValidArchive(c), StringsExist
  PROVE  IF o.member = "blank"
         THEN \A w \in ArchiveWorld : CheckArchive(c, w) # "satisfied"
         ELSE \E w \in ArchiveWorld : CheckArchive(c, w) = "satisfied"
<1>1. c.member = o.member
  BY DEF ParseArchive, When
<1>2. CASE o.member = "blank"
  BY <1>1, <1>2 DEF CheckArchive, ArchiveContains, Verdict
<1>3. CASE o.member # "blank"
  <2> DEFINE w == [open |-> "regular", archive |-> ResolveArchiveFormat(c),
                   member |-> "within-limit"]
  <2>1. ResolveArchiveFormat(c) \in {"auto", "tar", "tgz", "zip"}
    BY SMT DEF ResolveArchiveFormat, ValidArchive
  <2> HIDE DEF ResolveArchiveFormat
  <2>3. w \in ArchiveWorld
    BY <2>1, TextsAreStrings, SMT DEF ArchiveWorld
  <2>2. CheckArchive(c, w) = "satisfied"
    BY <1>1, <1>3 DEF CheckArchive, ArchiveContains, Verdict
  <2> QED
    BY <1>3, <2>2, <2>3
<1> QED
  BY <1>2, <1>3

(* A body that the answer cannot have, or an answer that is passed over.   *)
LEMMA HTTPSatisfiable ==
  ASSUME NEW o \in HTTPOptions, NEW c \in ParseHTTP(o), ValidHTTP(c), StringsExist
  PROVE  IF Hopeless("http", o)
         THEN \A w \in HTTPWorld : CheckHTTP(c, w) # "satisfied"
         ELSE \E w \in HTTPWorld : CheckHTTP(c, w) = "satisfied"
<1> DEFINE looks == o.contains # "unset" \/ o.json # "unset" \/ o.matches \notin {"unset", ".*"}
<1>1. Hopeless("http", o) <=>
        o.status = "103" \/ ((o.method = "HEAD" \/ o.status = "204") /\ looks)
  BY DEF Hopeless
<1>2. ASSUME NEW w \in HTTPWorld, o.status = "103"
      PROVE  ~ HTTPPromise(o, w)
  <2>1. w.status \in {101} \cup 200..599
    BY DEF HTTPWorld
  <2>2. HTTPAnswer(o, w) # 103
    BY <2>1, HTTPPromised
  <2> QED
    BY <1>2, <2>2 DEF HTTPPromise, Codes
<1>3. ASSUME NEW w \in HTTPWorld, o.method = "HEAD" \/ o.status = "204", looks, HTTPPromise(o, w)
      PROVE  FALSE
  <2>1. o.status = "204" => HTTPAnswer(o, w) = 204
    BY <1>3, SMT DEF HTTPPromise, Codes
  <2>2. o.method = "HEAD" \/ HTTPAnswer(o, w) \in {204, 304}
    BY <1>3, <2>1
  <2> QED
    BY <1>3, <2>2, Zenon DEF HTTPPromise
<1>4. ASSUME ~ Hopeless("http", o)
      PROVE  \E w \in HTTPWorld : CheckHTTP(c, w) = "satisfied"
  <2> DEFINE code == CASE o.status = "404" -> 404 [] o.status = "204" -> 204 [] OTHER -> 200
             w == [link |-> "answers", hops |-> <<>>, status |-> code, wants |-> {},
                   body |-> "ok", has |-> {"contains", "matches", "json"}]
  <2>1. /\ code \in 200..599 /\ code \in Codes(o.status) /\ (code = 204 <=> o.status = "204")
        /\ code # 304
    BY <1>1, <1>4, SMT DEF Codes
  <2> HIDE DEF code
  <2>2. w \in HTTPWorld
    BY <2>1, TextsAreStrings, SMT DEF HTTPWorld
  <2>3. HTTPAnswer(o, w) = code
    BY DEF HTTPAnswer
  <2>4. HTTPPromise(o, w)
    BY <1>1, <1>4, <2>1, <2>3 DEF HTTPPromise
  <2>5. Len(w.hops) = 0
    OBVIOUS
  <2> HIDE DEF w
  <2> QED
    BY <2>2, <2>4, <2>5, HTTPTrue
<1> QED
  BY <1>1, <1>2, <1>3, <1>4, HTTPPromised

LEMMA PortsSatisfiable ==
  ASSUME NEW o \in PortsOptions, NEW c \in ParsePorts(o), ValidPorts(c)
  PROVE  \E w \in PortsWorld : CheckPorts(c, w) = "satisfied"
<1> DEFINE w == [opened |-> o.range[1]..o.range[2], deadline |-> 65536]
<1>1. /\ o.range[1] \in Nat /\ o.range[2] \in Nat
      /\ o.range[1] <= o.range[2] /\ o.range[2] <= 65535
  BY DEF ParsePorts, When, PortsOptions, PortRange
<1>2. w \in PortsWorld
  BY <1>1 DEF PortsWorld
<1>3. PortsPromise(o, w)
  BY <1>1 DEF PortsPromise
<1> QED
  BY <1>2, <1>3, PortsTrue

LEMMA TLSSatisfiable ==
  ASSUME NEW o \in TLSOptions, NEW c \in ParseTLS(o), ValidTLS(c), StringsExist
  PROVE  \E w \in TLSWorld : CheckTLS(c, w) = "satisfied"
<1> DEFINE w == [issuer |-> "system", names |-> {TLSServerName(c)}, day |-> 0, from |-> 0,
                 until |-> c.validFor]
<1>1. c.validFor \in Nat /\ TLSServerName(c) \in STRING
  BY TextsAreStrings, SMT DEF ParseTLS, When, TLSOptions, ValidTLS, ValidForDays, Unset,
       TLSServerName
<1>2. w \in TLSWorld
  BY <1>1 DEF TLSWorld
<1>3. CheckTLS(c, w) = "satisfied"
  BY <1>1 DEF CheckTLS, InWindow, Verdict
<1> QED
  BY <1>2, <1>3

(* A banner of two lines is never one line.                                *)
LEMMA SSHSatisfiable ==
  ASSUME NEW o \in SSHOptions, NEW c \in ParseSSH(o), ValidSSH(c), StringsExist
  PROVE  IF Hopeless("ssh", o)
         THEN \A w \in SSHWorld : CheckSSH(c, w) # "satisfied"
         ELSE \E w \in SSHWorld : CheckSSH(c, w) = "satisfied"
<1> DEFINE w == [dial |-> "connected", key |-> o.key, admits |-> TRUE, line |-> 1,
                 marked |-> TRUE]
<1>1. c.key = o.key /\ c.login = o.user /\ c.banner = o.banner
  BY DEF ParseSSH, When
<1>2. Hopeless("ssh", o) <=> ~ o.user /\ o.banner = "two-lines"
  BY DEF Hopeless
<1>3. ASSUME Hopeless("ssh", o), NEW x \in SSHWorld
      PROVE  CheckSSH(c, x) # "satisfied"
  BY <1>1, <1>2, <1>3 DEF CheckSSH, BannerContains, Verdict
<1>4. w \in SSHWorld
  BY TextsAreStrings DEF SSHWorld, SSHOptions
<1>5. ~ Hopeless("ssh", o) => CheckSSH(c, w) = "satisfied"
  BY <1>1, <1>2 DEF CheckSSH, BannerContains, BannerLines, Verdict
<1> QED
  BY <1>3, <1>4, <1>5

LEMMA S3Satisfiable ==
  ASSUME NEW o \in S3Options, NEW c \in ParseS3(o), ValidS3(c), StringsExist
  PROVE  \E w \in S3World : CheckS3(c, w) = "satisfied"
<1> DEFINE w == [served |-> S3Host(c), public |-> TRUE, object |-> "marked",
                 metadata |-> TRUE]
<1>1. w \in S3World
  BY TextsAreStrings DEF S3World, S3Host
<1>2. CheckS3(c, w) = "satisfied"
  BY DEF CheckS3, CheckS3Object, Verdict
<1> QED
  BY <1>1, <1>2

LEMMA NTPSatisfiable ==
  ASSUME NEW o \in NTPOptions, NEW c \in ParseNTP(o), ValidNTP(c), StringsExist
  PROVE  \E w \in NTPWorld : CheckNTP(c, w) = "satisfied"
<1> DEFINE w == [link |-> "answers", header |-> "good", clock |-> 1, ahead |-> 0, held |-> 0]
<1>1. w \in NTPWorld
  BY TextsAreStrings DEF NTPWorld
<1>2. NTPPromise(o, w)
  BY SMT DEF NTPPromise, Abs
<1>3. w.clock + w.ahead + w.held < Era
  BY DEF Era
<1> QED
  BY <1>1, <1>2, <1>3, NTPTrue

(* An address that gives no URL, or a status that is never sent.           *)
LEMMA GRPCSatisfiable ==
  ASSUME NEW o \in GRPCOptions, NEW c \in ParseGRPC(o), ValidGRPC(c), StringsExist
  PROVE  IF Hopeless("grpc", o)
         THEN \A w \in GRPCWorld : CheckGRPC(c, w) # "satisfied"
         ELSE \E w \in GRPCWorld : CheckGRPC(c, w) = "satisfied"
<1>1. c.address = o.target /\ c.status = o.status /\ c.service = o.service
  BY DEF ParseGRPC, When
<1>2. Hopeless("grpc", o) <=>
        o.status = "UNKNOWN" \/ o.target \in {"h", "ftp://h:1", "grpc://u@h:1"}
  BY DEF Hopeless
<1>3. CASE o.status = "UNKNOWN"
  BY <1>1, <1>2, <1>3, SMT DEF CheckGRPC, DecodeHealth, GRPCWorld, Verdict
<1>4. CASE o.target \in {"h", "ftp://h:1", "grpc://u@h:1"}
  BY <1>1, <1>2, <1>4, SMT DEF CheckGRPC, GRPCTransport, GRPCWorld, Verdict
<1>5. CASE ~ Hopeless("grpc", o)
  <2> DEFINE w == [listens |-> GRPCTransport(c), symbols |-> {ReflectionSymbol(c)},
                   reply |-> "one-frame-grpc-status-0", health |-> c.status]
  <2>1. GRPCTransport(c) \in {"tls", "cleartext"}
    BY <1>1, <1>2, <1>5 DEF GRPCTransport
  <2>2. ReflectionSymbol(c) \in STRING
    BY <1>1, TextsAreStrings, SMT DEF ReflectionSymbol, GRPCOptions
  <2>3. c.status \in GRPCStatuses \ {"UNKNOWN"}
    BY <1>1, <1>2, <1>5 DEF ValidGRPC
  <2>4. w \in GRPCWorld
    BY <2>1, <2>2, <2>3, TextsAreStrings, SMT DEF GRPCWorld
  <2>5. CheckGRPC(c, w) = "satisfied"
    BY <2>3 DEF CheckGRPC, ReflectionKnows, PayloadIsGood, DecodeHealth, Verdict
  <2> QED
    BY <1>5, <2>4, <2>5
<1> QED
  BY <1>2, <1>3, <1>4, <1>5

LEMMA DockerSatisfiable ==
  ASSUME NEW o \in DockerOptions, NEW c \in ParseDocker(o), ValidDocker(c), StringsExist
  PROVE  \E w \in DockerWorld : CheckDocker(c, w) = "satisfied"
<1> DEFINE w == [tool |-> "ok", status |-> IF c.status = "any" THEN "running" ELSE c.status,
                 health |-> IF c.health = "unset" THEN "none" ELSE c.health]
<1>1. /\ w.status \in DockerStatuses \ {"any"} /\ w.health \in DockerHealths \ {"unset"}
      /\ c.status \in {"any", w.status} /\ c.health \in {"unset", w.health}
  BY DEF ValidDocker, DockerStatuses, DockerHealths
<1>2. w \in DockerWorld
  BY <1>1, TextsAreStrings DEF DockerWorld
<1>3. CheckDocker(c, w) = "satisfied"
  BY <1>1 DEF CheckDocker, CheckDockerHealth, ToolVerdict, Verdict
<1> QED
  BY <1>2, <1>3

LEMMA SystemdSatisfiable ==
  ASSUME NEW o \in SystemdOptions, NEW c \in ParseSystemd(o), ValidSystemd(c), StringsExist
  PROVE  \E w \in SystemdWorld : CheckSystemd(c, w) = "satisfied"
<1> DEFINE w == [tool |-> "ok", load |-> "loaded", state |-> c.state]
<1>1. w \in SystemdWorld
  BY TextsAreStrings DEF SystemdWorld, ValidSystemd
<1>2. CheckSystemd(c, w) = "satisfied"
  BY DEF CheckSystemd, ToolVerdict, Verdict
<1> QED
  BY <1>1, <1>2

LEMMA LaunchdSatisfiable ==
  ASSUME NEW o \in LaunchdOptions, NEW c \in ParseLaunchd(o), ValidLaunchd(c), StringsExist
  PROVE  \E w \in LaunchdWorld : CheckLaunchd(c, w) = "satisfied"
<1> DEFINE w == [tool |-> "ok", pid |-> "7"]
<1>1. w \in LaunchdWorld
  BY TextsAreStrings DEF LaunchdWorld
<1>2. CheckLaunchd(c, w) = "satisfied"
  BY DEF CheckLaunchd, ToolVerdict, Verdict
<1> QED
  BY <1>1, <1>2

LEMMA CosignSatisfiable ==
  ASSUME NEW o \in CosignOptions, NEW c \in ParseCosign(o), ValidCosign(c), StringsExist
  PROVE  \E w \in CosignWorld : CheckCosign(c, w) = "satisfied"
<1> DEFINE w == [tool |-> "ok", verifies |-> {CosignArgs(c)}]
<1>1. /\ c.signature \in STRING /\ c.key \in STRING /\ c.certificate \in STRING
      /\ c.identity \in STRING /\ c.issuer \in STRING
  BY DEF ParseCosign, When, CosignOptions
<1>2. CosignArgs(c) \in [command : {"verify", "verify-blob"}, signature : STRING, key : STRING,
                         certificate : STRING, identity : STRING, issuer : STRING]
  BY <1>1, TextsAreStrings DEF CosignArgs
<1> HIDE DEF CosignArgs
<1>3. w \in CosignWorld
  BY <1>2, TextsAreStrings DEF CosignWorld
<1>4. CheckCosign(c, w) = "satisfied"
  BY DEF CheckCosign, ToolVerdict, Verdict
<1> QED
  BY <1>3, <1>4

LEMMA ICMPSatisfiable ==
  ASSUME NEW o \in ICMPOptions, NEW c \in ParseICMP(o), ValidICMP(c), StringsExist
  PROVE  \E w \in ICMPWorld : CheckICMP(c, w) = "satisfied"
<1> DEFINE w == [tool |-> "ok", replies |-> TRUE]
<1>1. w \in ICMPWorld
  BY TextsAreStrings DEF ICMPWorld
<1>2. CheckICMP(c, w) = "satisfied"
  BY DEF CheckICMP, ToolVerdict, Verdict
<1> QED
  BY <1>1, <1>2

LEMMA DialSatisfiable ==
  ASSUME NEW c, StringsExist
  PROVE  \E w \in DialWorld : CheckDial(c, w) = "satisfied"
<1> DEFINE w == [dial |-> "connected"]
<1>1. w \in DialWorld
  BY TextsAreStrings DEF DialWorld
<1>2. CheckDial(c, w) = "satisfied"
  BY DEF CheckDial, Verdict
<1> QED
  BY <1>1, <1>2

(* A code beyond those of a process, or a substring longer than what is    *)
(* searched.                                                               *)
LEMMA ExecSatisfiable ==
  ASSUME NEW o \in ExecOptions, NEW c \in ParseExec(o), ValidExec(c), StringsExist
  PROVE  IF Hopeless("exec", o)
         THEN \A w \in ExecWorld : CheckExec(c, w) # "satisfied"
         ELSE \E w \in ExecWorld : CheckExec(c, w) = "satisfied"
<1> DEFINE w == [run |-> "ended", code |-> o.exit, at |-> 1, doc |-> "true"]
<1>1. /\ o.exit \in Nat /\ o.limit \in Nat \ {0} /\ o.contains \in Nat
      /\ c.exit = o.exit /\ c.limit = o.limit /\ c.contains = o.contains
  BY DEF ParseExec, When, ExecOptions
<1>2. Hopeless("exec", o) <=> o.exit > 255 \/ o.contains > o.limit
  BY DEF Hopeless
<1>3. ASSUME Hopeless("exec", o), NEW x \in ExecWorld, CheckExec(c, x) = "satisfied"
      PROVE  FALSE
  <2>1. x.code = c.exit /\ CheckExecOutput(c, x) /\ x.code \in -1..255 /\ x.at \in Nat
    BY <1>3 DEF CheckExec, ExecWorld, Verdict
  <2> QED
    BY <1>1, <1>2, <1>3, <2>1 DEF CheckExecOutput
<1>4. ASSUME ~ Hopeless("exec", o)
      PROVE  w \in ExecWorld /\ CheckExec(c, w) = "satisfied"
  <2>1. w \in ExecWorld
    BY <1>1, <1>2, <1>4, TextsAreStrings, SMT DEF ExecWorld
  <2>2. CheckExecOutput(c, w)
    BY <1>1, <1>2, <1>4 DEF CheckExecOutput
  <2> QED
    BY <1>1, <2>1, <2>2 DEF CheckExec, Verdict
<1> QED
  BY <1>3, <1>4

(* A text of two lines is in no line.                                      *)
LEMMA LogSatisfiable ==
  ASSUME NEW o \in LogOptions, NEW c \in ParseLog(o), ValidLog(c), StringsExist
  PROVE  IF Hopeless("log", o)
         THEN \A w \in LogWorld : CheckLog(c, w) # "satisfied"
         ELSE \E w \in LogWorld : CheckLog(c, w) = "satisfied"
<1>1. Hopeless("log", o) <=> o.contains = "two-lines" \/ o.exclude = ".*"
  BY DEF Hopeless
<1>2. ASSUME NEW w \in LogWorld, Hopeless("log", o), CheckLog(c, w) = "satisfied"
      PROVE  FALSE
  <2>1. \E i \in LogHits(o, w) : i > w.read
    BY <1>2, LogMatching DEF CheckLog, Verdict
  <2> QED
    BY <1>1, <1>2, <2>1 DEF LogHits
<1>3. ASSUME ~ Hopeless("log", o)
      PROVE  \E w \in LogWorld : CheckLog(c, w) = "satisfied"
  <2> DEFINE lines == [i \in 1..o.min |-> {"contains", "matches", "json"}]
             w == [file |-> "regular", lines |-> lines, old |-> 0, read |-> 0]
  <2>1. o.min \in Nat /\ o.min >= 1 /\ o.tail \in Nat
    BY DEF ParseLog, When, ValidLog, LogOptions
  <2>2. lines \in Seq(SUBSET {"contains", "matches", "json", "excluded"})
    BY <2>1, SMT
  <2>3. w \in LogWorld
    BY <2>1, <2>2, TextsAreStrings DEF LogWorld
  <2>4. LogHits(o, w) = 1..o.min
    BY <1>1, <1>3, <2>1, SMT DEF LogHits
  <2>5. Cardinality(1..o.min) = o.min
    BY <2>1, FS_Interval
  <2>6. {i \in LogHits(o, w) : i <= w.read} = {}
    BY <2>1, <2>4
  <2>7. ~ (Cardinality({i \in LogHits(o, w) : i <= w.read}) >= o.min)
    <3>1. Cardinality({i \in LogHits(o, w) : i <= w.read}) = 0
      BY <2>6, FS_EmptySet
    <3> HIDE DEF w
    <3> QED
      BY <2>1, <3>1
  <2>8. LogPromise(o, w)
    BY <2>1, <2>4, <2>5 DEF LogPromise
  <2> HIDE DEF w
  <2> QED
    BY <2>3, <2>7, <2>8, LogTrue
<1> QED
  BY <1>2, <1>3

(* A text, and the end of the connection instead of one.                   *)
LEMMA WebSocketSatisfiable ==
  ASSUME NEW o \in WebSocketOptions, NEW c \in ParseWebSocket(o), ValidWebSocket(c), StringsExist
  PROVE  IF Hopeless("websocket", o)
         THEN \A w \in WebSocketWorld : CheckWebSocket(c, w) # "satisfied"
         ELSE \E w \in WebSocketWorld : CheckWebSocket(c, w) = "satisfied"
<1>1. Hopeless("websocket", o) <=>
        o.close >= 0 /\ (o.contains \/ o.matches \notin {"unset", ".*"})
  BY DEF Hopeless
<1>2. o.close \in Int /\ o.close <= 65535
  BY DEF ParseWebSocket, When, ValidWebSocket, WebSocketOptions
<1>3. ASSUME NEW w \in WebSocketWorld, Hopeless("websocket", o)
      PROVE  ~ WebSocketPromise(o, w)
  BY <1>1, <1>2, <1>3 DEF WebSocketPromise
<1>4. ASSUME ~ Hopeless("websocket", o)
      PROVE  \E w \in WebSocketWorld : WebSocketPromise(o, w)
  <2>1. PICK code \in CloseCodes : o.close >= 0 => code = o.close
    <3>1. CASE o.close >= 0
      <4>1. o.close \in CloseCodes
        BY <1>2, <3>1 DEF CloseCodes
      <4> QED
        BY <4>1
    <3>2. CASE ~ (o.close >= 0)
      <4>1. -1 \in CloseCodes
        BY DEF CloseCodes
      <4> QED
        BY <3>2, <4>1
    <3> QED
      BY <3>1, <3>2
  <2> DEFINE w == [link |-> "switches", pong |-> TRUE, closed |-> code, text |-> "marked"]
  <2>2. w \in WebSocketWorld
    BY TextsAreStrings DEF WebSocketWorld
  <2>3. WebSocketPromise(o, w)
    BY <1>1, <1>2, <1>4, <2>1, SMT DEF WebSocketPromise
  <2> QED
    BY <2>2, <2>3
<1> QED
  BY <1>3, <1>4, WebSocketTrue

(* One object that has everything anybody can ask for, but has not failed  *)
(* if the wait is for an end.                                              *)
LEMMA K8sSatisfiable ==
  ASSUME NEW o \in K8sOptions, NEW c \in ParseK8s(o), ValidK8s(c), StringsExist
  PROVE  \E w \in K8sWorld : CheckK8s(c, w) = "satisfied"
<1> DEFINE names == {"Ready", "Failed", "Complete"}
           obj == [kind |-> o.resource.kind, named |-> TRUE, phase |-> "Running",
                   conditions |-> [n \in names |-> IF n = "Failed" /\ o.for # "unset"
                                                   THEN "False" ELSE "True"],
                   matches |-> "true", generation |-> 1, observed |-> 1, desired |-> 1,
                   deadline |-> FALSE, old |-> 0,
                   new |-> [available |-> 1, ready |-> 0, starting |-> 0]]
           w == [api |-> "ok", many |-> FALSE, objects |-> {obj}]
<1>1. obj \in K8sObject
  <2>1. o.resource.kind \in STRING
    BY DEF K8sOptions
  <2>2. Updated(obj) + obj.old = 1
    BY DEF Updated
  <2>3. obj.conditions \in [names -> {"True", "False", "none"}]
    OBVIOUS
  <2>4. obj.new \in [available : Nat, ready : Nat, starting : Nat]
    OBVIOUS
  <2> QED
    BY <2>1, <2>2, <2>3, <2>4, TextsAreStrings DEF K8sObject
<1>2. /\ obj.kind = o.resource.kind /\ obj.named /\ obj.phase # "Failed"
      /\ Updated(obj) + obj.old = 1
      /\ obj.conditions["Ready"] = "True" /\ obj.conditions["Complete"] = "True"
      /\ o.for # "unset" => obj.conditions["Failed"] # "True"
      /\ o.for = "unset" => obj.conditions["Failed"] = "True"
      /\ obj.matches = "true" /\ ~ obj.deadline /\ obj.old = 0
      /\ obj.observed = 1 /\ obj.generation = 1 /\ obj.desired = 1
      /\ obj.new.available = 1 /\ obj.new.ready = 0
  BY DEF Updated
<1> HIDE DEF obj
<1>3. w \in K8sWorld
  BY <1>1, TextsAreStrings DEF K8sWorld
<1>4. K8sPromise(o, w)
  <2> DEFINE meant == {x \in w.objects : /\ x.kind = o.resource.kind
                                         /\ o.selector # "unset" \/ x.named}
             done == {x \in meant : ObjectPromise(o.for, x)}
  <2>1. meant = {obj}
    BY <1>2
  <2>2. o.for # "unset" => ObjectPromise(o.for, obj) /\ ~ Lost(o.for, obj)
    BY <1>2 DEF ObjectPromise, Lost, RolledOut
  <2>3. o.selector # "unset" => o.for # "unset"
    BY DEF ParseK8s, When, K8sSelectorFits
  <2>4. o.condition \in {"unset", "Ready", "Failed", "Complete"}
    BY DEF K8sOptions
  <2>5. o.for # "unset" => done = {obj}
    BY <2>1, <2>2
  <2>6. o.for = "unset" => obj.conditions[IF o.condition = "unset" THEN "Ready" ELSE o.condition] = "True"
    BY <1>2, <2>4
  <2> HIDE DEF done, meant
  <2>7. w.api = "ok" /\ ~ w.many
    OBVIOUS
  <2> HIDE DEF w
  <2> QED
    BY <1>2, <2>1, <2>2, <2>3, <2>5, <2>6, <2>7 DEF K8sPromise, done, meant
<1>5. ~ \E x \in w.objects : x.kind = "statefulset" /\ Updated(x) + x.old > x.desired
  BY <1>2
<1> QED
  BY <1>3, <1>4, <1>5, K8sTrue

(* The record that gives a name a value.                                   *)
RecordOf(name, type, value) ==
  [owner |-> name, type |-> type, value |-> value, marked |-> value = "1"]

RecordsOf(name, type, V) == {RecordOf(name, type, v) : v \in V}

(* The records that make v the last name of the chain of another.          *)
AliasOf(name, v) == IF v = name THEN {} ELSE {RecordOf(name, "CNAME", v)}

LastName(records, name) ==
  CHOOSE n \in AcceptedOwners(records, name) :
    ~ \E r \in records : r.type = "CNAME" /\ r.owner = n

(* As many records about a name as there are values.                       *)
LEMMA RecordsOfValues ==
  ASSUME NEW V \in SUBSET STRING, IsFiniteSet(V), NEW name \in STRING, NEW type \in STRING
  PROVE  /\ RecordsOf(name, type, V) \subseteq DNSRecord
         /\ IsFiniteSet(RecordsOf(name, type, V))
         /\ Cardinality(RecordsOf(name, type, V)) = Cardinality(V)
         /\ {r.value : r \in RecordsOf(name, type, V)} = V
<1> USE DEF RecordsOf
<1> DEFINE R == RecordsOf(name, type, V)
           f == [v \in V |-> RecordOf(name, type, v)]
<1>1. \A v \in V : RecordOf(name, type, v) \in DNSRecord /\ RecordOf(name, type, v).value = v
  BY DEF RecordOf, DNSRecord
<1>2. f \in Bijection(V, R)
  <2>1. f \in [V -> R]
    OBVIOUS
  <2>2. \A x, y \in V : f[x] = f[y] => x = y
    BY <1>1
  <2>3. \A r \in R : \E v \in V : f[v] = r
    OBVIOUS
  <2> QED
    BY <2>1, <2>2, <2>3 DEF Bijection, Injection, Surjection, IsInjective
<1>3. IsFiniteSet(R) /\ Cardinality(R) = Cardinality(V)
  BY <1>2, FS_Bijection DEF ExistsBijection
<1>4. {r.value : r \in R} = V
  BY <1>1
<1> QED
  BY <1>1, <1>3, <1>4

(* What the options of an accepted command line come to.                   *)
LEMMA DNSAccepted ==
  ASSUME NEW o \in DNSOptions, NEW c \in ParseDNS(o)
  PROVE  /\ c.target = o.target /\ c.type = o.type /\ c.resolver = o.resolver
         /\ c.mode = o.mode /\ c.rcode = o.rcode /\ c.min = o.min /\ c.absent = o.absent
         /\ c.tcp = o.tcp /\ c.contains = o.contains /\ c.equals = o.equals
         /\ o.resolver \in {"system", "wire"} /\ o.mode \in {"any", "nxdomain", "nodata"}
         /\ o.rcode \in RCodes \cup {"unset"} /\ o.min \in Nat
         /\ o.resolver = "system" => o.mode = "any" /\ o.rcode = "unset"
         /\ o.absent => ~ o.contains /\ o.equals = {} /\ o.min = 0
<1>1. NormalizeDNSOptions(o) /\ c = [o EXCEPT !.server = NormalizeDNSServer(o.server)]
  BY DEF ParseDNS, When
<1>2. /\ o.resolver \in {"system", "wire"} /\ o.mode \in {"any", "nxdomain", "nodata"}
      /\ o.rcode \in RCodes \cup {"unset"} /\ o.min \in Nat
      /\ o.resolver = "system" => o.mode = "any" /\ o.rcode = "unset"
      /\ o.absent => ~ o.contains /\ o.equals = {} /\ o.min = 0
  BY <1>1, SMT DEF NormalizeDNSOptions, DNSMatchersFit, WireOnly, DNSOptions
<1> QED
  BY <1>1, <1>2 DEF DNSOptions

(* The name at the end of a chain that consists of one alias, or of none.  *)
LEMMA OneAlias ==
  ASSUME NEW name, NEW v
  PROVE  IsFiniteSet(AliasOf(name, v)) /\ LastName(AliasOf(name, v), name) = v
<1> DEFINE R == AliasOf(name, v)
<1> USE DEF AliasOf, LastName
<1>1. CASE v = name
  <2>1. R = {} /\ IsFiniteSet(R)
    BY <1>1, FS_EmptySet
  <2>2. Aliases(R, name) = {name}
    BY <2>1 DEF Aliases
  <2> QED
    BY <1>1, <2>1, <2>2, OwnersAreAliases
<1>2. CASE v # name
  <2> DEFINE x == RecordOf(name, "CNAME", v)
  <2>1. R = {x} /\ x.type = "CNAME" /\ x.owner = name /\ x.value = v
    BY <1>2 DEF RecordOf
  <2> HIDE DEF x
  <2>2. IsFiniteSet(R)
    BY <2>1, FS_Singleton
  <2>3. Aliases(R, name) = {name, v}
    BY <2>1 DEF Aliases
  <2>4. AcceptedOwners(R, name) = {name, v}
    BY <2>2, <2>3, OwnersAreAliases
  <2>5. /\ ~ \E r \in R : r.type = "CNAME" /\ r.owner = v
        /\ \E r \in R : r.type = "CNAME" /\ r.owner = name
    BY <1>2, <2>1
  <2> QED
    BY <2>2, <2>4, <2>5
<1> QED
  BY <1>1, <1>2

(* A lookup of the last name of a chain gives exactly one name.            *)
LEMMA OneCanonicalName ==
  ASSUME NEW o \in DNSOptions, NEW c \in ParseDNS(o), NEW w \in DNSWorld, ~ o.absent,
         o.resolver = "system", o.type = "CNAME",
         NEW v, v = LastName(w.records, o.target)
  PROVE  CheckDNS(c, w) = "satisfied" <=>
           w.link = "answers" /\ o.min <= 1 /\ (o.contains => v = "1") /\ o.equals \subseteq {v}
<1> DEFINE x == RecordOf(o.target, "CNAME", v)
<1>1. SystemValues(c, w.records) = {x}
  BY DNSAccepted DEF SystemValues, RecordOf, LastName
<1>2. x.value = v /\ (x.marked <=> v = "1")
  BY DEF RecordOf
<1> HIDE DEF x
<1>3. w.link \in {"answers", "not-found", "other"}
  BY DEF DNSWorld
<1>4. /\ Lookup(c, w).error = IF w.link = "not-found" THEN "not-found"
                              ELSE IF w.link # "answers" THEN "other" ELSE "none"
      /\ Lookup(c, w).values = {x}
  BY <1>1, DNSAccepted DEF Lookup
<1>5. Cardinality({x}) = 1
  BY FS_Singleton
<1>6. {r.value : r \in {x}} = {v}
  BY <1>2
<1>7. CheckDNS(c, w) = IF w.link # "answers" THEN "unsatisfied"
                       ELSE Verdict(/\ 1 >= o.min /\ (o.contains => v = "1")
                                    /\ o.equals \subseteq {v})
  BY <1>2, <1>3, <1>4, <1>5, <1>6, DNSAccepted DEF CheckDNS, Verdict
<1>8. o.min \in Nat
  BY DNSAccepted
<1> QED
  BY <1>7, <1>8 DEF Verdict

(* Options that contradict each other, or ask more of the one canonical    *)
(* name than a name can be.                                                *)
LEMMA DNSHopeless ==
  ASSUME NEW o \in DNSOptions, NEW c \in ParseDNS(o), Hopeless("dns", o), NEW w \in DNSWorld
  PROVE  CheckDNS(c, w) # "satisfied"
<1>1. \/ /\ o.absent /\ o.rcode # "unset"
         /\ \/ o.mode = "nxdomain" /\ o.rcode # "NXDOMAIN"
            \/ o.mode = "nodata" /\ o.rcode # "NOERROR"
      \/ /\ o.resolver = "system" /\ o.type = "CNAME"
         /\ \/ o.min > 1 \/ Cardinality(o.equals) > 1
            \/ o.contains /\ o.equals \notin {{}, {"1"}}
  BY DEF Hopeless
<1>2. CASE /\ o.absent /\ o.rcode # "unset"
           /\ \/ o.mode = "nxdomain" /\ o.rcode # "NXDOMAIN"
              \/ o.mode = "nodata" /\ o.rcode # "NOERROR"
  <2>1. o.mode # "any"
    BY <1>2
  <2> DEFINE found == Lookup(c, w)
  <2> HIDE DEF found
  <2>2. CheckDNS(c, w) = IF found.error # "none" THEN Verdict(FALSE)
                         ELSE IF o.rcode # found.rcode THEN "unsatisfied"
                         ELSE Verdict(Absent(c, found))
    BY <1>2, <2>1, DNSAccepted DEF CheckDNS, found, Verdict
  <2>3. Absent(c, found) => found.rcode = IF o.mode = "nxdomain" THEN "NXDOMAIN" ELSE "NOERROR"
    BY <1>2, DNSAccepted DEF Absent
  <2> QED
    BY <1>2, <2>2, <2>3 DEF Verdict
<1>3. CASE /\ o.resolver = "system" /\ o.type = "CNAME"
           /\ \/ o.min > 1 \/ Cardinality(o.equals) > 1
              \/ o.contains /\ o.equals \notin {{}, {"1"}}
  <2> DEFINE v == LastName(w.records, o.target)
  <2> HIDE DEF v
  <2>1. o.min \in Nat /\ ~ (Cardinality({}) > 1)
    BY DNSAccepted, FS_EmptySet
  <2>2. ~ o.absent
    BY <1>3, <2>1, DNSAccepted
  <2> SUFFICES ASSUME CheckDNS(c, w) = "satisfied" PROVE FALSE
    OBVIOUS
  <2>3. o.min <= 1 /\ (o.contains => v = "1") /\ o.equals \subseteq {v}
    BY <1>3, <2>2, OneCanonicalName DEF v
  <2>4. Cardinality(o.equals) <= 1
    <3>1. IsFiniteSet({v}) /\ Cardinality({v}) = 1
      BY FS_Singleton
    <3>2. o.equals \in SUBSET {v}
      BY <2>3
    <3> QED
      BY <3>1, <3>2, FS_Subset
  <2>5. o.contains => o.equals \in {{}, {"1"}}
    BY <2>3
  <2> QED
    <3>1. Cardinality(o.equals) \in Nat
      BY FS_CardinalityType DEF DNSOptions
    <3> QED
      BY <1>3, <2>1, <2>3, <2>4, <2>5, <3>1
<1> QED
  BY <1>1, <1>2, <1>3

(* A world in which the name is absent in the way that was asked for.      *)
LEMMA AbsenceSatisfiable ==
  ASSUME NEW o \in DNSOptions, NEW c \in ParseDNS(o), ValidDNS(c), ~ Hopeless("dns", o), o.absent
  PROVE  \E w \in DNSWorld : CheckDNS(c, w) = "satisfied"
<1> DEFINE code == IF o.rcode # "unset" THEN o.rcode
                   ELSE IF o.mode = "nxdomain" THEN "NXDOMAIN" ELSE "NOERROR"
           w == [link |-> IF o.resolver = "system" THEN "not-found" ELSE "answers",
                 echoes |-> TRUE, truncated |-> FALSE, rcode |-> code, records |-> {},
                 overTCP |-> {}]
<1>1. code \in RCodes
  BY DNSAccepted DEF RCodes
<1>2. w \in DNSWorld
  BY <1>1, FS_EmptySet DEF DNSWorld
<1>3. CASE o.resolver = "system"
  <2>1. Lookup(c, w).error = "not-found"
    BY <1>3, DNSAccepted DEF Lookup
  <2> QED
    BY <1>2, <1>3, <2>1, DNSAccepted DEF CheckDNS, Verdict
<1>4. CASE o.resolver = "wire"
  <2>1. WireValues(c, {}) = {}
    BY DEF WireValues
  <2>2. Lookup(c, w).error = "none" /\ Lookup(c, w).rcode = code /\ Lookup(c, w).values = {}
    BY <1>4, <2>1, DNSAccepted DEF Lookup
  <2>3. /\ o.mode = "nxdomain" => code = "NXDOMAIN"
        /\ o.mode = "nodata" => code = "NOERROR"
        /\ o.rcode \in {"unset", code}
    BY DEF Hopeless
  <2> HIDE DEF w, code
  <2>4. Absent(c, Lookup(c, w))
    <3> DEFINE found == Lookup(c, w)
    <3> HIDE DEF found
    <3>1. found.rcode = code /\ found.values = {} /\ c.mode = o.mode
      BY <2>2, DNSAccepted DEF found
    <3>2. Absent(c, found)
      BY <2>3, <3>1 DEF Absent
    <3> QED
      BY <3>2 DEF found
  <2>5. CheckDNS(c, w) = "satisfied"
    <3> DEFINE found == Lookup(c, w)
    <3> HIDE DEF found
    <3>1. CheckDNS(c, w) = IF found.error # "none"
                             THEN Verdict(found.error = "not-found" /\ c.mode = "any")
                           ELSE IF o.rcode \notin {"unset", found.rcode} THEN "unsatisfied"
                           ELSE Verdict(Absent(c, found))
      BY DNSAccepted DEF CheckDNS, found
    <3>2. found.error = "none" /\ found.rcode = code /\ Absent(c, found)
      BY <2>2, <2>4 DEF found
    <3> QED
      BY <2>3, <3>1, <3>2 DEF Verdict
  <2> QED
    BY <1>2, <2>5
<1> QED
  BY <1>3, <1>4, DNSAccepted

(* A world with the canonical name that was asked for.                     *)
LEMMA CanonicalNameSatisfiable ==
  ASSUME NEW o \in DNSOptions, NEW c \in ParseDNS(o), ~ Hopeless("dns", o), ~ o.absent,
         o.resolver = "system", o.type = "CNAME", StringsExist
  PROVE  \E w \in DNSWorld : CheckDNS(c, w) = "satisfied"
<1>1. o.min <= 1 /\ Cardinality(o.equals) <= 1 /\ (o.contains => o.equals \in {{}, {"1"}})
  <2>1. o.min \in Nat /\ Cardinality(o.equals) \in Nat
    BY DNSAccepted, FS_CardinalityType DEF DNSOptions
  <2> QED
    BY <2>1 DEF Hopeless
<1>2. IsFiniteSet(o.equals) /\ o.equals \subseteq STRING /\ o.target \in STRING
  BY DEF DNSOptions
<1>3. o.equals = {} \/ \E x \in o.equals : o.equals = {x}
  BY <1>1, <1>2, AtMostOneElement DEF AtMostOne
<1>4. PICK v \in STRING : o.equals \subseteq {v} /\ (o.contains => v = "1")
  <2>1. CASE o.equals = {}
    BY <2>1, TextsAreStrings
  <2>2. CASE o.equals # {}
    BY <1>1, <1>2, <1>3, <2>2
  <2> QED
    BY <2>1, <2>2
<1> DEFINE R == AliasOf(o.target, v)
           w == [link |-> "answers", echoes |-> TRUE, truncated |-> FALSE, rcode |-> "NOERROR",
                 records |-> R, overTCP |-> {}]
<1>6. R \subseteq DNSRecord
  <2>1. RecordOf(o.target, "CNAME", v) \in DNSRecord
    BY <1>2, TextsAreStrings DEF RecordOf, DNSRecord
  <2> QED
    BY <2>1 DEF AliasOf
<1>5. IsFiniteSet(R) /\ LastName(R, o.target) = v
  BY OneAlias
<1> HIDE DEF R
<1>7. w \in DNSWorld
  BY <1>5, <1>6, FS_EmptySet DEF DNSWorld, RCodes
<1>8. w.link = "answers" /\ w.records = R
  OBVIOUS
<1> HIDE DEF w
<1>9. v = LastName(w.records, o.target)
  BY <1>5, <1>8
<1>10. CheckDNS(c, w) = "satisfied"
  BY <1>1, <1>4, <1>7, <1>8, <1>9, OneCanonicalName
<1> QED
  BY <1>7, <1>10

(* A world with enough records, all the values that were asked for among   *)
(* them.                                                                   *)
LEMMA RecordsSatisfiable ==
  ASSUME NEW o \in DNSOptions, NEW c \in ParseDNS(o), ValidDNS(c), ~ o.absent,
         ~ (o.resolver = "system" /\ o.type = "CNAME"), StringsExist
  PROVE  \E w \in DNSWorld : CheckDNS(c, w) = "satisfied"
<1>1. o.min \in Nat /\ IsFiniteSet(o.equals) /\ o.equals \subseteq STRING
      /\ o.target \in STRING /\ o.type \in STRING
  BY DNSAccepted DEF DNSOptions
<1>2. PICK M \in SUBSET STRING : IsFiniteSet(M) /\ Cardinality(M) >= o.min
  BY <1>1 DEF StringsExist
<1> DEFINE V == (o.equals \cup {"1"}) \cup M
           type == IF o.type = "ANY" THEN "A" ELSE o.type
           R == RecordsOf(o.target, type, V)
           code == IF o.rcode # "unset" THEN o.rcode ELSE "NOERROR"
           w == [link |-> "answers", echoes |-> TRUE, truncated |-> FALSE, rcode |-> code,
                 records |-> R, overTCP |-> {}]
<1>3. V \in SUBSET STRING /\ type \in STRING
  BY <1>1, <1>2, TextsAreStrings
<1>4. IsFiniteSet(V) /\ Cardinality(V) >= o.min
  <2>1. IsFiniteSet(o.equals \cup {"1"})
    BY <1>1, FS_AddElement
  <2>2. IsFiniteSet(V)
    BY <1>2, <2>1, FS_Union
  <2>3. Cardinality(M) <= Cardinality(V) /\ Cardinality(M) \in Nat /\ Cardinality(V) \in Nat
    BY <2>2, FS_Subset, FS_CardinalityType
  <2> QED
    BY <1>1, <1>2, <2>2, <2>3
<1>5. o.equals \subseteq V /\ "1" \in V
  OBVIOUS
<1> HIDE DEF V, type
<1>6. /\ R \subseteq DNSRecord /\ IsFiniteSet(R) /\ Cardinality(R) = Cardinality(V)
      /\ {r.value : r \in R} = V
  BY <1>1, <1>3, <1>4, RecordsOfValues
<1>7. \A r \in R : r.owner = o.target /\ r.type = type /\ r.marked = (r.value = "1")
  BY DEF RecordsOf, RecordOf
<1> HIDE DEF R
<1>8. w \in DNSWorld
  <2>1. code \in RCodes
    BY DNSAccepted DEF RCodes
  <2> QED
    BY <1>6, <2>1, FS_EmptySet DEF DNSWorld
<1>9. DNSAnswers(o, w) = R
  <2>1. o.target \in Aliases(R, o.target)
    BY DEF Aliases
  <2>2. \A r \in R : /\ o.type = "ANY" \/ r.type = o.type
                     /\ (o.resolver = "system" /\ o.type = "ANY") => r.type \in {"A", "AAAA"}
    BY <1>7 DEF type
  <2> QED
    BY <1>7, <2>1, <2>2 DEF DNSAnswers
<1>10. /\ R # {} /\ Cardinality(R) >= o.min /\ \E r \in R : r.marked
       /\ \A v \in o.equals : \E r \in R : r.value = v
  BY <1>4, <1>5, <1>6, <1>7
<1>11. DNSPromise(o, w)
  <2>1. w.link = "answers" /\ w.echoes /\ (o.rcode # "unset" => w.rcode = o.rcode)
    OBVIOUS
  <2> HIDE DEF w
  <2> QED
    BY <1>9, <1>10, <2>1 DEF DNSPromise
<1>12. ~ SaysOtherwise("dns", o, w)
  BY DEF SaysOtherwise
<1> QED
  BY <1>8, <1>11, <1>12, DNSTrue

LEMMA DNSSatisfiable ==
  ASSUME NEW o \in DNSOptions, NEW c \in ParseDNS(o), ValidDNS(c), StringsExist
  PROVE  IF Hopeless("dns", o)
         THEN \A w \in DNSWorld : CheckDNS(c, w) # "satisfied"
         ELSE \E w \in DNSWorld : CheckDNS(c, w) = "satisfied"
  BY DNSHopeless, AbsenceSatisfiable, CanonicalNameSatisfiable, RecordsSatisfiable

(* For each backend there is something a check may observe.                *)
LEMMA WorldsExist ==
  ASSUME NEW b \in BackendNames, StringsExist
  PROVE  \E w \in WorldsOf(b) : TRUE
<1>1. CASE b = "file"
  <2> DEFINE w == [stat |-> "regular", open |-> "regular", text |-> "none"]
  <2>1. w \in FileWorld
    BY TextsAreStrings DEF FileWorld
  <2> QED
    BY <1>1, <2>1 DEF WorldsOf
<1>2. CASE b = "glob"
  <2> DEFINE w == [dir |-> "readable", names |-> 0, matching |-> 0]
  <2>1. w \in GlobWorld
    BY TextsAreStrings DEF GlobWorld
  <2> QED
    BY <1>2, <2>1 DEF WorldsOf
<1>3. CASE b = "process"
  <2> DEFINE w == [pid |-> "ours", list |-> "named"]
  <2>1. w \in ProcessWorld
    BY TextsAreStrings DEF ProcessWorld, PIDs
  <2> QED
    BY <1>3, <2>1 DEF WorldsOf
<1>4. CASE b = "pidfile"
  <2> DEFINE w == [file |-> "pid", pid |-> "ours"]
  <2>1. w \in PIDFileWorld
    BY TextsAreStrings DEF PIDFileWorld, PIDs
  <2> QED
    BY <1>4, <2>1 DEF WorldsOf
<1>5. CASE b = "lockfile"
  <2> DEFINE w == [lstat |-> "exists", age |-> 0]
  <2>1. w \in LockfileWorld
    BY TextsAreStrings DEF LockfileWorld
  <2> QED
    BY <1>5, <2>1 DEF WorldsOf
<1>6. CASE b = "permission"
  <2> DEFINE w == [lstat |-> "exists", type |-> "file", mode |-> 0, uid |-> 0, gid |-> 0]
  <2>1. w \in PermissionWorld
    BY TextsAreStrings DEF PermissionWorld
  <2> QED
    BY <1>6, <2>1 DEF WorldsOf
<1>7. CASE b = "checksum"
  <2> DEFINE w == [open |-> "regular", digestOf |-> "sha1"]
  <2>1. w \in ChecksumWorld
    BY TextsAreStrings DEF ChecksumWorld, Algorithms
  <2> QED
    BY <1>7, <2>1 DEF WorldsOf
<1>8. CASE b = "archive"
  <2> DEFINE w == [open |-> "regular", archive |-> "tar", member |-> "none"]
  <2>1. w \in ArchiveWorld
    BY TextsAreStrings DEF ArchiveWorld
  <2> QED
    BY <1>8, <2>1 DEF WorldsOf
<1>9. CASE b = "http"
  <2> DEFINE w == [link |-> "answers", hops |-> <<>>, status |-> 200, wants |-> {},
                        body |-> "ok", has |-> {}]
  <2>1. w \in HTTPWorld
    BY TextsAreStrings DEF HTTPWorld
  <2> QED
    BY <1>9, <2>1 DEF WorldsOf
<1>10. CASE b = "ports"
  <2> DEFINE w == [opened |-> {}, deadline |-> 0]
  <2>1. w \in PortsWorld
    BY TextsAreStrings DEF PortsWorld
  <2> QED
    BY <1>10, <2>1 DEF WorldsOf
<1>11. CASE b = "tls"
  <2> DEFINE w == [issuer |-> "system", names |-> {}, day |-> 0, from |-> 0, until |-> 0]
  <2>1. w \in TLSWorld
    BY TextsAreStrings DEF TLSWorld
  <2> QED
    BY <1>11, <2>1 DEF WorldsOf
<1>12. CASE b = "ssh"
  <2> DEFINE w == [dial |-> "connected", key |-> "unset", admits |-> TRUE, line |-> 1,
                       marked |-> TRUE]
  <2>1. w \in SSHWorld
    BY TextsAreStrings DEF SSHWorld
  <2> QED
    BY <1>12, <2>1 DEF WorldsOf
<1>13. CASE b = "s3"
  <2> DEFINE w == [served |-> "endpoint/bucket", public |-> TRUE, object |-> "plain",
                      metadata |-> TRUE]
  <2>1. w \in S3World
    BY TextsAreStrings DEF S3World
  <2> QED
    BY <1>13, <2>1 DEF WorldsOf
<1>14. CASE b = "dns"
  <2> DEFINE w == [link |-> "answers", echoes |-> TRUE, truncated |-> FALSE, rcode |-> "NOERROR",
                       records |-> {}, overTCP |-> {}]
  <2>1. w \in DNSWorld
    BY FS_EmptySet DEF DNSWorld, RCodes
  <2> QED
    BY <1>14, <2>1 DEF WorldsOf
<1>15. CASE b = "ntp"
  <2> DEFINE w == [link |-> "answers", header |-> "good", clock |-> 1, ahead |-> 0, held |-> 0]
  <2>1. w \in NTPWorld
    BY TextsAreStrings DEF NTPWorld
  <2> QED
    BY <1>15, <2>1 DEF WorldsOf
<1>16. CASE b = "grpc"
  <2> DEFINE w == [listens |-> "tls", symbols |-> {}, reply |-> "health", health |-> "SERVING"]
  <2>1. w \in GRPCWorld
    BY TextsAreStrings DEF GRPCWorld, GRPCStatuses
  <2> QED
    BY <1>16, <2>1 DEF WorldsOf
<1>17. CASE b = "docker"
  <2> DEFINE w == [tool |-> "ok", status |-> "running", health |-> "none"]
  <2>1. w \in DockerWorld
    BY TextsAreStrings DEF DockerWorld, DockerStatuses, DockerHealths
  <2> QED
    BY <1>17, <2>1 DEF WorldsOf
<1>18. CASE b = "systemd"
  <2> DEFINE w == [tool |-> "ok", load |-> "loaded", state |-> "active"]
  <2>1. w \in SystemdWorld
    BY TextsAreStrings DEF SystemdWorld
  <2> QED
    BY <1>18, <2>1 DEF WorldsOf
<1>19. CASE b = "launchd"
  <2> DEFINE w == [tool |-> "ok", pid |-> "none"]
  <2>1. w \in LaunchdWorld
    BY TextsAreStrings DEF LaunchdWorld
  <2> QED
    BY <1>19, <2>1 DEF WorldsOf
<1>20. CASE b = "cosign"
  <2> DEFINE w == [tool |-> "ok", verifies |-> {}]
  <2>1. w \in CosignWorld
    BY TextsAreStrings DEF CosignWorld
  <2> QED
    BY <1>20, <2>1 DEF WorldsOf
<1>21. CASE b = "icmp"
  <2> DEFINE w == [tool |-> "ok", replies |-> TRUE]
  <2>1. w \in ICMPWorld
    BY TextsAreStrings DEF ICMPWorld
  <2> QED
    BY <1>21, <2>1 DEF WorldsOf
<1>22. CASE b = "k8s"
  <2> DEFINE w == [api |-> "ok", many |-> FALSE, objects |-> {}]
  <2>1. w \in K8sWorld
    BY TextsAreStrings DEF K8sWorld
  <2> QED
    BY <1>22, <2>1 DEF WorldsOf
<1>23. CASE b \in {"tcp", "unix"}
  <2> DEFINE w == [dial |-> "connected"]
  <2>1. w \in DialWorld
    BY TextsAreStrings DEF DialWorld
  <2> QED
    BY <1>23, <2>1 DEF WorldsOf
<1>24. CASE b = "exec"
  <2> DEFINE w == [run |-> "ended", code |-> 0, at |-> 0, doc |-> "true"]
  <2>1. w \in ExecWorld
    BY TextsAreStrings DEF ExecWorld
  <2> QED
    BY <1>24, <2>1 DEF WorldsOf
<1>25. CASE b = "log"
  <2> DEFINE w == [file |-> "regular", lines |-> <<>>, old |-> 0, read |-> 0]
  <2>1. w \in LogWorld
    BY TextsAreStrings DEF LogWorld
  <2> QED
    BY <1>25, <2>1 DEF WorldsOf
<1>26. CASE b = "websocket"
  <2>1. PICK code \in CloseCodes : code = -1
    BY DEF CloseCodes
  <2> DEFINE w == [link |-> "switches", pong |-> TRUE, closed |-> code, text |-> "none"]
  <2>2. w \in WebSocketWorld
    BY TextsAreStrings DEF WebSocketWorld
  <2> QED
    BY <1>26, <2>2 DEF WorldsOf
<1> QED
  BY <1>1, <1>2, <1>3, <1>4, <1>5, <1>6, <1>7, <1>8, <1>9, <1>10, <1>11, <1>12, <1>13,
     <1>14, <1>15, <1>16, <1>17, <1>18, <1>19, <1>20, <1>21, <1>22, <1>23, <1>24, <1>25,
     <1>26 DEF BackendNames

(* A check of a usable condition finds what was waited for in some world,  *)
(* and for the command lines listed as hopeless in none.                   *)
LEMMA SomeWorldSatisfies ==
  ASSUME NEW b \in BackendNames, NEW o \in OptionsOf(b), NEW c \in ParseOf(b, o), ValidOf(b, c),
         StringsExist
  PROVE  IF Hopeless(b, o)
         THEN \A w \in WorldsOf(b) : Observation(b, c, w) # "satisfied"
         ELSE \E w \in WorldsOf(b) : Observation(b, c, w) \in {"satisfied", "misconfigured"}
<1>1. CASE b = "file"
  <2>1. /\ o \in FileOptions /\ c \in ParseFile(o) /\ ValidFile(c) /\ WorldsOf(b) = FileWorld
        /\ ~ Hopeless(b, o) /\ \A w : Observation(b, c, w) = CheckFile(c, w)
    BY <1>1 DEF OptionsOf, WorldsOf, ParseOf, ValidOf, Observation, Hopeless
  <2> QED
    BY <1>1, <2>1, FileSatisfiable
<1>2. CASE b = "glob"
  <2>1. /\ o \in GlobOptions /\ c \in ParseGlob(o) /\ ValidGlob(c) /\ WorldsOf(b) = GlobWorld
        /\ \A w : Observation(b, c, w) = CheckGlob(c, w)
    BY <1>2 DEF OptionsOf, WorldsOf, ParseOf, ValidOf, Observation
  <2> QED
    BY <1>2, <2>1, GlobSatisfiable
<1>3. CASE b = "process"
  <2>1. /\ o \in ProcessOptions /\ c \in ParseProcess(o) /\ ValidProcess(c)
        /\ WorldsOf(b) = ProcessWorld
        /\ ~ Hopeless(b, o) /\ \A w : Observation(b, c, w) = CheckProcess(c, w)
    BY <1>3 DEF OptionsOf, WorldsOf, ParseOf, ValidOf, Observation, Hopeless
  <2> QED
    BY <1>3, <2>1, ProcessSatisfiable
<1>4. CASE b = "pidfile"
  <2>1. /\ o \in PIDFileOptions /\ c \in ParsePIDFile(o) /\ ValidPIDFile(c)
        /\ WorldsOf(b) = PIDFileWorld
        /\ ~ Hopeless(b, o) /\ \A w : Observation(b, c, w) = CheckPIDFile(c, w)
    BY <1>4 DEF OptionsOf, WorldsOf, ParseOf, ValidOf, Observation, Hopeless
  <2> QED
    BY <1>4, <2>1, PIDFileSatisfiable
<1>5. CASE b = "lockfile"
  <2>1. /\ o \in LockfileOptions /\ c \in ParseLockfile(o) /\ ValidLockfile(c)
        /\ WorldsOf(b) = LockfileWorld
        /\ ~ Hopeless(b, o) /\ \A w : Observation(b, c, w) = CheckLockfile(c, w)
    BY <1>5 DEF OptionsOf, WorldsOf, ParseOf, ValidOf, Observation, Hopeless
  <2> QED
    BY <1>5, <2>1, LockfileSatisfiable
<1>6. CASE b = "permission"
  <2>1. /\ o \in PermissionOptions /\ c \in ParsePermission(o) /\ ValidPermission(c)
        /\ WorldsOf(b) = PermissionWorld
        /\ \A w : Observation(b, c, w) = CheckPermission(c, w)
    BY <1>6 DEF OptionsOf, WorldsOf, ParseOf, ValidOf, Observation
  <2> QED
    BY <1>6, <2>1, PermissionSatisfiable DEF Hopeless
<1>7. CASE b = "checksum"
  <2>1. /\ o \in ChecksumOptions /\ c \in ParseChecksum(o) /\ ValidChecksum(c)
        /\ WorldsOf(b) = ChecksumWorld
        /\ ~ Hopeless(b, o) /\ \A w : Observation(b, c, w) = CheckChecksum(c, w)
    BY <1>7 DEF OptionsOf, WorldsOf, ParseOf, ValidOf, Observation, Hopeless
  <2> QED
    BY <1>7, <2>1, ChecksumSatisfiable
<1>8. CASE b = "archive"
  <2>1. /\ o \in ArchiveOptions /\ c \in ParseArchive(o) /\ ValidArchive(c)
        /\ WorldsOf(b) = ArchiveWorld
        /\ \A w : Observation(b, c, w) = CheckArchive(c, w)
    BY <1>8 DEF OptionsOf, WorldsOf, ParseOf, ValidOf, Observation
  <2> QED
    BY <1>8, <2>1, ArchiveSatisfiable DEF Hopeless
<1>9. CASE b = "http"
  <2>1. /\ o \in HTTPOptions /\ c \in ParseHTTP(o) /\ ValidHTTP(c) /\ WorldsOf(b) = HTTPWorld
        /\ \A w : Observation(b, c, w) = CheckHTTP(c, w)
    BY <1>9 DEF OptionsOf, WorldsOf, ParseOf, ValidOf, Observation
  <2> QED
    BY <1>9, <2>1, HTTPSatisfiable
<1>10. CASE b = "ports"
  <2>1. /\ o \in PortsOptions /\ c \in ParsePorts(o) /\ ValidPorts(c) /\ WorldsOf(b) = PortsWorld
        /\ ~ Hopeless(b, o) /\ \A w : Observation(b, c, w) = CheckPorts(c, w)
    BY <1>10 DEF OptionsOf, WorldsOf, ParseOf, ValidOf, Observation, Hopeless
  <2> QED
    BY <1>10, <2>1, PortsSatisfiable
<1>11. CASE b = "tls"
  <2>1. /\ o \in TLSOptions /\ c \in ParseTLS(o) /\ ValidTLS(c) /\ WorldsOf(b) = TLSWorld
        /\ ~ Hopeless(b, o) /\ \A w : Observation(b, c, w) = CheckTLS(c, w)
    BY <1>11 DEF OptionsOf, WorldsOf, ParseOf, ValidOf, Observation, Hopeless
  <2> QED
    BY <1>11, <2>1, TLSSatisfiable
<1>12. CASE b = "ssh"
  <2>1. /\ o \in SSHOptions /\ c \in ParseSSH(o) /\ ValidSSH(c) /\ WorldsOf(b) = SSHWorld
        /\ \A w : Observation(b, c, w) = CheckSSH(c, w)
    BY <1>12 DEF OptionsOf, WorldsOf, ParseOf, ValidOf, Observation
  <2> QED
    BY <1>12, <2>1, SSHSatisfiable
<1>13. CASE b = "s3"
  <2>1. /\ o \in S3Options /\ c \in ParseS3(o) /\ ValidS3(c) /\ WorldsOf(b) = S3World
        /\ ~ Hopeless(b, o) /\ \A w : Observation(b, c, w) = CheckS3(c, w)
    BY <1>13 DEF OptionsOf, WorldsOf, ParseOf, ValidOf, Observation, Hopeless
  <2> QED
    BY <1>13, <2>1, S3Satisfiable
<1>14. CASE b = "dns"
  <2>1. /\ o \in DNSOptions /\ c \in ParseDNS(o) /\ ValidDNS(c) /\ WorldsOf(b) = DNSWorld
        /\ \A w : Observation(b, c, w) = CheckDNS(c, w)
    BY <1>14 DEF OptionsOf, WorldsOf, ParseOf, ValidOf, Observation
  <2> QED
    BY <1>14, <2>1, DNSSatisfiable
<1>15. CASE b = "ntp"
  <2>1. /\ o \in NTPOptions /\ c \in ParseNTP(o) /\ ValidNTP(c) /\ WorldsOf(b) = NTPWorld
        /\ ~ Hopeless(b, o) /\ \A w : Observation(b, c, w) = CheckNTP(c, w)
    BY <1>15 DEF OptionsOf, WorldsOf, ParseOf, ValidOf, Observation, Hopeless
  <2> QED
    BY <1>15, <2>1, NTPSatisfiable
<1>16. CASE b = "grpc"
  <2>1. /\ o \in GRPCOptions /\ c \in ParseGRPC(o) /\ ValidGRPC(c) /\ WorldsOf(b) = GRPCWorld
        /\ \A w : Observation(b, c, w) = CheckGRPC(c, w)
    BY <1>16 DEF OptionsOf, WorldsOf, ParseOf, ValidOf, Observation
  <2> QED
    BY <1>16, <2>1, GRPCSatisfiable
<1>17. CASE b = "docker"
  <2>1. /\ o \in DockerOptions /\ c \in ParseDocker(o) /\ ValidDocker(c)
        /\ WorldsOf(b) = DockerWorld
        /\ ~ Hopeless(b, o) /\ \A w : Observation(b, c, w) = CheckDocker(c, w)
    BY <1>17 DEF OptionsOf, WorldsOf, ParseOf, ValidOf, Observation, Hopeless
  <2> QED
    BY <1>17, <2>1, DockerSatisfiable
<1>18. CASE b = "systemd"
  <2>1. /\ o \in SystemdOptions /\ c \in ParseSystemd(o) /\ ValidSystemd(c)
        /\ WorldsOf(b) = SystemdWorld
        /\ ~ Hopeless(b, o) /\ \A w : Observation(b, c, w) = CheckSystemd(c, w)
    BY <1>18 DEF OptionsOf, WorldsOf, ParseOf, ValidOf, Observation, Hopeless
  <2> QED
    BY <1>18, <2>1, SystemdSatisfiable
<1>19. CASE b = "launchd"
  <2>1. /\ o \in LaunchdOptions /\ c \in ParseLaunchd(o) /\ ValidLaunchd(c)
        /\ WorldsOf(b) = LaunchdWorld
        /\ ~ Hopeless(b, o) /\ \A w : Observation(b, c, w) = CheckLaunchd(c, w)
    BY <1>19 DEF OptionsOf, WorldsOf, ParseOf, ValidOf, Observation, Hopeless
  <2> QED
    BY <1>19, <2>1, LaunchdSatisfiable
<1>20. CASE b = "cosign"
  <2>1. /\ o \in CosignOptions /\ c \in ParseCosign(o) /\ ValidCosign(c)
        /\ WorldsOf(b) = CosignWorld
        /\ ~ Hopeless(b, o) /\ \A w : Observation(b, c, w) = CheckCosign(c, w)
    BY <1>20 DEF OptionsOf, WorldsOf, ParseOf, ValidOf, Observation, Hopeless
  <2> QED
    BY <1>20, <2>1, CosignSatisfiable
<1>21. CASE b = "icmp"
  <2>1. /\ o \in ICMPOptions /\ c \in ParseICMP(o) /\ ValidICMP(c) /\ WorldsOf(b) = ICMPWorld
        /\ ~ Hopeless(b, o) /\ \A w : Observation(b, c, w) = CheckICMP(c, w)
    BY <1>21 DEF OptionsOf, WorldsOf, ParseOf, ValidOf, Observation, Hopeless
  <2> QED
    BY <1>21, <2>1, ICMPSatisfiable
<1>22. CASE b = "k8s"
  <2>1. /\ o \in K8sOptions /\ c \in ParseK8s(o) /\ ValidK8s(c) /\ WorldsOf(b) = K8sWorld
        /\ ~ Hopeless(b, o) /\ \A w : Observation(b, c, w) = CheckK8s(c, w)
    BY <1>22 DEF OptionsOf, WorldsOf, ParseOf, ValidOf, Observation, Hopeless
  <2> QED
    BY <1>22, <2>1, K8sSatisfiable
<1>23. CASE b \in {"tcp", "unix"}
  <2>1. /\ WorldsOf(b) = DialWorld /\ ~ Hopeless(b, o)
        /\ \A w : Observation(b, c, w) = CheckDial(c, w)
    BY <1>23 DEF WorldsOf, Observation, Hopeless
  <2> QED
    BY <2>1, DialSatisfiable
<1>24. CASE b = "exec"
  <2>1. /\ o \in ExecOptions /\ c \in ParseExec(o) /\ ValidExec(c)
        /\ WorldsOf(b) = ExecWorld
        /\ \A w : Observation(b, c, w) = CheckExec(c, w)
    BY <1>24 DEF OptionsOf, WorldsOf, ParseOf, ValidOf, Observation
  <2> QED
    BY <1>24, <2>1, ExecSatisfiable
<1>25. CASE b = "log"
  <2>1. /\ o \in LogOptions /\ c \in ParseLog(o) /\ ValidLog(c)
        /\ WorldsOf(b) = LogWorld
        /\ \A w : Observation(b, c, w) = CheckLog(c, w)
    BY <1>25 DEF OptionsOf, WorldsOf, ParseOf, ValidOf, Observation
  <2> QED
    BY <1>25, <2>1, LogSatisfiable
<1>26. CASE b = "websocket"
  <2>1. /\ o \in WebSocketOptions /\ c \in ParseWebSocket(o) /\ ValidWebSocket(c)
        /\ WorldsOf(b) = WebSocketWorld
        /\ \A w : Observation(b, c, w) = CheckWebSocket(c, w)
    BY <1>26 DEF OptionsOf, WorldsOf, ParseOf, ValidOf, Observation
  <2> QED
    BY <1>26, <2>1, WebSocketSatisfiable
<1> QED
  BY <1>1, <1>2, <1>3, <1>4, <1>5, <1>6, <1>7, <1>8, <1>9, <1>10, <1>11, <1>12, <1>13,
     <1>14, <1>15, <1>16, <1>17, <1>18, <1>19, <1>20, <1>21, <1>22, <1>23, <1>24, <1>25,
     <1>26 DEF BackendNames

(* Every command line that is accepted can be satisfied, or is found wrong *)
(* by its check, or is one of those that are listed as hopeless and that   *)
(* no world satisfies: a wait that times out says something about the      *)
(* world. For any text or number where a flag takes any, given that any    *)
(* world may occur.                                                        *)
THEOREM WaitsMakeSense ==
  ASSUME EveryWorld, StringsExist
  PROVE  Spec => []CanBeSatisfied
<1>1. IInv => CanBeSatisfied
  <2> SUFFICES ASSUME IInv, stage = "polling", NEW c \in cond
               PROVE  IF Hopeless(backend, given)
                      THEN \A w \in Worlds[backend] : Check(backend, c, w) # "satisfied"
                      ELSE \E w \in Worlds[backend] :
                             Check(backend, c, w) \in {"satisfied", "misconfigured"}
    BY DEF CanBeSatisfied
  <2>1. c \in ParseOf(backend, given) /\ backend \in Backends
    BY DEF IInv, TypeOK
  <2>2. backend \in BackendNames /\ given \in OptionsOf(backend)
    BY Given
  <2>3. Worlds[backend] = WorldsOf(backend)
    BY <2>1, InvocationAssumption DEF EveryWorld
  <2>4. CASE ValidOf(backend, c)
    BY <2>1, <2>2, <2>3, <2>4, SomeWorldSatisfies DEF Check
  <2>5. CASE ~ ValidOf(backend, c)
    BY <2>2, <2>3, <2>5, WorldsExist DEF Check
  <2> QED
    BY <2>4, <2>5
<1> QED
  BY <1>1, Invariance, PTL

=============================================================================
