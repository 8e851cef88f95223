# Models and proofs for waitfor

`waitfor` polls conditions (a port, a URL, a log file, a command, ...) until
they are satisfied, a fatal result stops it, or a deadline passes. This
directory holds TLA+ models of it, from the words of the command line to the
exit status of the process, the TLC configurations that check them, and TLAPS
proofs that hold for every number of conditions and every configuration.

    tlc -workers 2 -config RunnerAll.cfg MCRunner
    tlapm RunnerProofs.tla

`PROJECT.json` lists the runs, the source lines behind every definition, and
for every property a mutation of the code's model that violates it (operators
commented "Fault:"; no action uses them).

## 1. The system

| part | source | state it keeps | operations | modelled in |
|---|---|---|---|---|
| main, signals | `cmd/waitfor/*.go` | two signal channels, exit code | `main`, `cli.Execute` | `Process` |
| output, explain, doctor, help | `internal/output`, `internal/cli` | none | reports, exit codes | `Process` |
| options, profiles, recipes | `internal/cli/cli.go:273-385`, `recipe.go` | the options while they are filled in | `parseGlobal`, `applyRecipeConfig` | `Options` |
| segments | `internal/cli/cli.go:405-545`, `2316-2490`, `recipe.go:156-323` | the loop's index and segments | `recipeSegments`, `splitConditionSegments`, `parseConditions` | `Segments` |
| backend command lines | `internal/cli/cli.go` | none | `parseXCondition` | `CommandLines`, the four `...Backends` modules |
| runner | `internal/runner/runner.go` | per run: `terminal`, `readyRemaining`, shared context, records; per goroutine: streak, schedule | `Run`, `runCondition`, `checkCondition`, `resultEndsCondition`, `waitInterval` | `Runner`, `PollTiming`, `WaitContract` |
| condition core | `internal/condition/condition.go` | none (wrappers: name, guard) | `Check`, `UnwrapCondition`, `ConditionRole` | `Runner` (`CheckResult`) |
| log | `internal/condition/log.go` | `offset`, `prevInfo`, `initialized`, `missingInit`, `matchCount` across polls | `Check` | `LogTail`, `CommandBackends` |
| exec and the tools' runs | `internal/condition/exec*.go`, `command_security.go` | the output captured of one run | `Check`, `runLimitedCommand` | `Exec`, `CommandBackends` |
| websocket | `internal/condition/websocket.go` | the connection, its deadline, the fragments of one check | `Check` | `WebSocket`, `NetworkBackends` |
| network backends | `http`, `tcp`, `unix`, `ports`, `tls`, `ssh`, `s3` | none between checks | `Check` | `NetworkBackends` |
| protocol backends | `dns`, `ntp`, `grpc` | none | `Check` | `ProtocolBackends` |
| local backends | `file`, `glob`, `process`, `pidfile`, `lockfile`, `permission`, `checksum`, `archive` | none | `Check` | `LocalBackends` |
| command backends, k8s | `docker`, `systemd`, `launchd`, `cosign`, `icmp`, `k8s` | none | `Check` | `CommandBackends` |
| expressions | `internal/expr` | none | parse, evaluate | not modelled (a pure parser) |

How they interact: `main` gives `cli.Execute` a context that a signal cancels;
`Execute` fills in the options, splits the arguments into condition segments,
builds one `condition.Condition` per segment and calls `runner.Run`. `Run`
derives a context with the run's timeout and starts one goroutine per
condition. The goroutines share that context and its `cancel`, two atomics, a
gate for every distinct inner condition and the recorder's mutex; each calls
its backend's `Check` and reports through the `OnAttempt` callback, which is
the printer's. `Run` joins them, computes one status, `Execute` maps it to an
exit code, and `main` weighs that code against a signal it has received.

What is hard:

* **the verdict**: a fatal result, the last success, the deadline and the
  caller's cancellation race; the status is computed from an atomic, from
  records each goroutine writes after the race, and from the context, which the
  winner itself cancels;
* **late answers**: a backend may ignore its context and answer at any time;
* **shared backends**: a condition may be given twice, also behind wrappers,
  and backends such as the log keep state between polls;
* **streaks**: `--successes` and `--stable-for` over failed, expired and
  discarded attempts, sampled at intervals that back off;
* **the end of the process**: two receivers of one signal, in either order, a
  pipe that breaks, and a code computed by a goroutine that main may not await;
* **the log**: a file that grows, shrinks, disappears and comes back between
  the polls and between the system calls of one poll;
* **commands**: a kill that races with the command's own end, and descendants
  that hold the pipes;
* **conversations**: deadlines that start again, frames of other kinds in
  between, a goroutine that closes the connection under the reader;
* **the command line**: `--` separates conditions and also introduces a
  command; defaults, profiles, recipes and flags override each other and are
  validated at different stages; parsers and checks hold the same rules twice.

What makes each part correct:

* process: the exit status tells what happened, the event stream is a prefix of
  a complete one, and a signal always ends the process;
* runner: exactly one verdict, the one that came first; the report agrees with
  it; nothing is recorded or announced after the run was decided or returned;
  checks of one backend never overlap; the run always returns;
* schedule and stability: the backoff is a function of the failures since the
  last success, a backend that has become reliable is noticed within a
  computable time, success is claimed only after an uninterrupted streak;
* backends: what the command line says is what the check compares, whatever the
  order of the answers; what is accepted can be used and can be satisfied;
* log: every complete line is counted once, across polls, cancelled scans and
  rotations, and the backend catches up with a log that is left alone;
* exec: no output is lost, a check is satisfied if and only if what it looks for
  is in the part of the output that counts, and a kill that reaches the group ends the check;
* websocket: each answer asked for was received, the first message decides, an
  attempt ends within a computable time and returns when cancelled;
* options and segments: flag over recipe over profile over default, no token is
  lost or moved, and what a recipe states is what is polled.

The hazards behind these, each at its source line, are in `PROJECT.json`.

## 2. Modules

Three layers: `Process` contains a run as `WaitContract` states it, `Runner`
implements `WaitContract` and treats checks as answers from a set, and the
backend modules say where those answers come from. `Options` and `Segments`
discharge what `Runner` and `Invocation` assume of their input.

### WaitContract

What a run promises, with no goroutines: conditions get satisfied, at most one
is blamed for a fatal end, the first terminal event is the verdict, a run gives
up only if it is neither complete nor failed, and it returns.

### Runner

One goroutine per condition, a program counter per goroutine that names the
statement it is about to run. What each action stands for:

| action | code |
|---|---|
| `PollTop` | the `select` on `ctx.Done()` at the top of `runCondition`'s loop |
| `AcquireGate`, `AbandonGate` | the two cases of `acquireConditionGate` |
| `CheckReturns` | `cond.Check`, guard conversion included; `expired` is a non-nil `attemptCtx.Err()` |
| `Judge` | the rest of `checkCondition`: late answers are discarded, expired attempts fail, the gate is freed |
| `Apply` | `applyStabilityThreshold` and the decrement of `readyRemaining` |
| `Claim`, `Cancel` | the compare-and-swap on `terminal`, then `cancel()` |
| `Record`, `Emit`, `CallbackReturns` | `updateRecord`, then `OnAttempt` under the mutex |
| `TimerFires`, `AbandonWait` | the two cases of `waitInterval` |
| `RunReturns` | `g.Wait()` and `finalStatus` |

Statements between two shared accesses are one action; every shared access
(context, gate, counter, swap, cancel, own record, mutex) is an action of its
own. Time is abstract: the deadline, a due timer, an attempt's deadline and the
moment a streak is old enough may come at any point. `Contract` instantiates
`WaitContract` with a refinement mapping: a condition is satisfied from the
moment its goroutine holds an accepted success, and failed from the moment its
fatal result won the swap, that is, before either is in the records.

The configuration is given by constants; `RunnerAssumption` says what
`validateRunConfig` guarantees (and `Options` shows to arrive). `GateOf` is
what `conditionGates` computes; how it looks behind wrappers is not modelled.

`RunnerHistory` adds to `Runner` what one ready condition (`Watched`, any) has
answered so far, which `StreakEarned` speaks of.

### PollTiming

The same loop for one ready condition, with a clock: `pollSchedule` (backoff,
jitter, cap), `stabilityProgress`, attempt timeout and run timeout. What the
goroutine does between the return of `Check` and the start of its wait takes no
time. `MaxDuration` is the largest value of `time.Duration`, beyond which `Wrap`
wraps around. Four history variables (`steady`, `lastBad`, `failures`,
`doubled`) serve the properties only.

### Process

One process from `main`'s first statement to its exit. `Send` queues a signal
in the kernel, `TakeSignal` is `os/signal` reading it, `HandOver` its delivery
to one of the registered channels, in either order, dropping it when the
channel is full; `CancelContext` is the goroutine of `signal.NotifyContext`.
`Dispatch`, `WriteExplain`, `RunCheck` (one of doctor's checks after another,
each looking at the context anew), `WriteDoctorReport`, `Start`, `CompleteRun`,
`RunReturns` and `Report` are `Execute` for each command; `SelectExit` and `ExitAfterSignal`
are `main`'s last `select`, where both cases may be ready. `BreakPipe` lets the
reader go away; whether SIGPIPE kills depends on `shielded`. The run's own
variables are those of `WaitContract`, instantiated as `R`.

### Options

A source of options is a function from fields to values, `NotGiven` where nothing
is stated. The actions are the stages of the code: `ParseGlobal` (defaults,
profile, flags, the default of `--max-interval`, first validation),
`ApplyRecipe` (fields that no flag has set), `ParseConditions` and
`RunWithOptions` (explain, or the runner with its own validation). Its
definitions have names of their own (`OptionsInit`, `optionVars`), because one
proof module extends it together with `Invocation`.

### Segments

`args` is a command line, or the token list `recipeSegments` makes of a recipe.
`splitConditionSegments` is `CheckEnds`, the loop (`EndSegment`, `KeepToken`)
and `FinishSplit`; `ParseConditions` is `parseConditions` with the guard, the
name and, for exec, the separator and the command. A token is a string that
stands for its kind; `--name=value`, case and blanks are left out, and so are
recipe items given as raw `args` or as a scalar. The flags of backends other
than exec stay tokens here; their parsers are in the backend modules.
`WellFormed` says what `recipeFlags` can make of an item: behind a value comes a
flag, which starts no condition. It leaves out the empty key, whose flag would be
`--`, and what no token list could express (an exec without a command, flags that
exec does not have, unknown backends): the parser refuses those by themselves.

`ReadBack` is an equivalence: a recipe is read back as stated if and only if it
is `Readable`, whose six conjuncts are therefore the whole list of surprises
(section 4).

### LocalBackends, NetworkBackends, ProtocolBackends, CommandBackends, CommandLines

For each of the 27 backends up to three operators: `ParseX(o)` is the set with
the condition that the parser makes of the options `o`, or empty; `ValidX(c)`
what its `Check` finds wrong with a condition before it looks at anything; and
`CheckX(c, w)` what it answers when the world is `w`, system call after system
call, answer after answer. Values are reduced to the cases that the code tells
apart; a marker such as "unset" stands for an absent one. Where the code tries
one case after another, an `IF` per case keeps that order: a `CASE` whose
conditions overlap would leave the answer open. `CommandLines` says what the
options of a command line may be, any text or number where the flag takes any,
and what a check may observe, any answer the world could give.
`InvocationAssumption` confines an instance to these. `Promises` states
independently, from the command line and the world alone, what the columns
"Satisfied when" and "Meaning" of `docs/SPEC.md` ask for: which names a DNS name
stands for, say, is the smallest set closed under aliases there, and a loop over
the records in the backend. `Invocation` composes them: words are accepted or
refused (`Parse`), the condition is checked again and again in worlds that may
change, until a check answers for good. Of exec, log and websocket a check is
here what it makes of an outcome: how the command ended and what it wrote, which
lines a file has, what the server sent. How a check comes by that outcome,
against limits, rotations, deadlines and cancellation, is in `Exec`, `LogTail`
and `WebSocket`.

### LogTail

`LogCondition.Check` as the system calls it consists of: `StatFile` or
`StatMissing` (`os.Stat`, `resetOnRotation`, `initOffset`), `InitTail`
(`computeTailOffset` reading the file on its own), `OpenFile` (`openRegularFile`
and the second comparison of sizes), `ScanFile` or `ScanCancelled`. The other
process appends, truncates, removes and creates (also on a reused inode) before
or between any of them. File contents are sequences of three bytes; the
matchers accept a line that contains `ab`. `TailStart` says where a tail begins
if that place is `InReach`, in the last `MaxTailScan` bytes: findTailStart does
not look further back.

### Exec

One run of a command, by the exec backend (a group of its own) or by a tool
backend. `Fork`, `Emit` and `Exit` are what the command and one descendant do;
`Copy` is a goroutine of `os/exec` moving a pipe into a `limitedBuffer`: by
`ReadFrom`, which that type has from the `bytes.Buffer` it embeds, and so without
its limit. `WriteLimited` is its own `Write`, through which only the output of
both streams together is made; `Cancel` is the goroutine that kills when the context ends;
`Reap`, `TakeWatch` and `AwaitCopies` are the three steps of `Cmd.Wait`. The
buffers, the classification of errors and the matching are the repository's;
`os/exec` is modelled as external, without `WaitDelay`, which the code does not
set.

### WebSocket

One check: `Dial`, `Handshake`, `Send`, then a phase that reads frames
(`ReadPong`, `ReadClose`, `ReadText`). `SetReadDeadline` follows
`setWebSocketReadDeadline`. A frame stands for its opcode, length and, of a
text, whether it has what is looked for; texts are valid UTF-8. The limit of a
frame and a message is `MaxMessage`, a matcher the kinds of messages it
accepts, of which the one that follows a close code is always the empty one.
A ping before the message is answered, which may fail. The server's frames arrive at any time
(`ServerSends`), it may end the connection, and `CloseOnContextDone` closes it
under the reader. Deadlines are those of the connection: when one passes, the
read in progress fails, but a frame that is already in the buffer may be read
first.

### MC modules

`MCRunner`, `MCRunnerAny`, `MCLogTail`, `MCSegments`, `MCProcess`, `MCOptions`,
`MCInvocation`, `MCExec` and `MCWebSocket` give the constants their values.
`MCRunnerAny` instantiates `RunnerHistory`, `MCRunner` the plain `Runner`.

## 3. Runs

| run | question | bounds | distinct states |
|---|---|---|---|
| `runner_all` | mode all with `--stable-for`: the races for the verdict and the refinement's steps | two ready conditions, a guard that shares the second one's gate, two polls each | 1.6 million |
| `runner_any` | mode any with `--successes 2 --stable-for`: what counts as a streak, the whole contract, the run returns | one condition given twice (one gate), three polls each | 298,000 |
| `runner_late_guard` | *violated*: a guard that completes late is never fatal | one poll each | |
| `poll_timing` | schedule, streak, deadlines | interval 2, maximum 5, jitter 50%, timeout 26, attempt timeout 2, 3 successes, stable for 4, largest duration 7 | 385,000 |
| `process` | exit status, event stream, signals | one ready condition and a guard, both signals once, every command and format | 135,000 |
| `options` | precedence, what reaches the runner | flags and recipes around the defaults, each stage able to disagree | 1.5 million |
| `segments` | splitting and reading back | recipes of one or two items, of which one is any item with up to three tokens in each part; names among nothing, a word, `--`, `--name` and a value flag; all command lines of up to four tokens out of six | 444,000 |
| `invocation` | from words to verdict, for each backend | command lines and worlds that differ in at most two fields from accepted and satisfying ones; all combinations where there are few | 551,000 |
| `log_tail` | counting, tail start, missing files, catching up | files of up to 8 bytes (three lines) on two inodes, scans of up to 6, 5 outside events | 330,000 |
| `log_bytes` | *violated*: every line is counted | files of 3 bytes written one by one | |
| `exec` | what the output and the end of a command become | 3 bytes to each stream in portions of 1 or 2, pipes of 2, limit 2, one descendant | 142,000 |
| `websocket` | conversations, time, cancellation | 3 frames out of 12, one unread, both timeouts 1, messages of up to 200 bytes, four matchers | 1.9 million |

Why the bounds are enough. In `Runner` every race is between two goroutines, or
a goroutine and the deadline, caller or `Run`; three goroutines include a
bystander and both kinds of condition, and the second poll reaches everything
that depends on an earlier one (three where a streak can break and start again).
The proofs of section 5 remove the bound for the safety properties. In
`PollTiming` 5 is not a power of two times the interval, so the cap is hit
between two doublings, and 7 is less than twice the largest interval, so a
doubling in the wrong place overflows; the timeout leaves room for a full
backoff, an outage and a complete streak. In `Process` every signal has two
receivers, and two signals are enough to fill main's channel, which holds one.
In `Options` a field is filled in from four sources, all of which occur with
equal, different and invalid values. In `Segments` the split looks one token
back, two ahead and at the segment's first token, all of which lie in an item
and its neighbour; the tokens are one of every kind the code tells apart, with a
value flag the list of value flags knows and one it does not (`--send`). In
`Invocation` the backends' rules relate at most two options, or an option and
one observation; the two-field distance reaches all such pairs. The limits on
sizes and numbers are those of the code, met exactly, exceeded by one and far
from; redirects go through none, one, two, nine or ten hops to the first origin,
another port or another host; the NTP era has 1000 seconds rather than 2^32. In
`LogTail` five events are a removal, a re-creation and writes before and after
it, and a scan may read one of two lines and a five-byte beginning, but not all.
In `Exec` a stream of three exceeds both the limit and the pipe, so that the
byte looked for may lie within the limit, beyond it, or beyond it only because
of the other stream. In `WebSocket` three frames are a message in two fragments
with a frame of another kind in between; one of the frames is 127 bytes long,
where the length's encoding changes twice, one exceeds the limit of 16 MiB (200
bytes here) and one makes the message exceed it. Matchers are told apart by the
empty message (`.*` and `^$` accept it, a substring does not), the marked one
and any other.

### Fairness

`Runner`: a goroutine that can take its next statement does so (the Go
scheduler; a timer fires, the callback returns); the deadline's timer fires;
`Run` returns from its join. A backend owes nothing while its context is live,
`Check` may hang, but once the context is done it returns: this is the contract
stated in `condition.go` ("Check must return promptly when ctx is cancelled").
No fairness is assumed on the gate beyond that: a goroutine waiting for one may
be passed over for ever, and the run still returns.

`Process`: main, `os/signal` and the context's goroutine run, and a run that is
complete or cancelled returns, which `Runner` shows. Neither the deadline nor a
condition owes anything: a signal must end the process without them.

`LogTail`: the runner goes on polling (`WF(Check)`); the outside events, and
with them cancelled scans, are finitely many.

`Exec`: goroutines run and `Wait` hears of an ended command. The command, its
descendant and the context owe nothing.

`WebSocket`: a dial returns, a broken connection is noticed and the closing
goroutine runs. The server and the clock owe nothing: `CancelReturns` has to
hold without a deadline's help.

`PollTiming` and the time bound of `WebSocket` have no liveness property:
`DetectedInTime` and `EndsInTime` say *when* by comparing with the clock, which
cannot run past a due timer.

### What only TLC shows

Liveness, which is beyond the prover: `EventuallyReturns`, `KeepsContract` with
its fairness (its steps are proved, `Refinement`), `CatchesUp`, `SignalEnds`,
`KillReturns` and `CancelReturns`. Every invariant and action property of the
passing runs is stated by a theorem of section 5.

## 4. Where code and documentation disagree

Shown by a run of their own:

* **Late guard** (`runner_late_guard`). `readyRemaining` reaches zero before
  the swap on `terminal`; a guard whose check is under way can win the swap and
  make a run fatal whose conditions were all satisfied. `docs/SPEC.md:497` and
  a test rule this out. The contract does not: the verdict is the swap.
* **Half lines** (`log_bytes`). A line found half written is matched in two
  pieces: it can be missed, or counted twice.

Stated in a module and refuted by TLC when added to the component's
configuration:

* `CaptureCapped` (`Exec`): `limitedBuffer` promotes `ReadFrom`, and
  `os/exec` copies with it: the two buffers grow with the output, whatever
  `--max-output-bytes` says (`docs/SPEC.md:342`), and their `truncated` stays
  false. The limit still holds for `--output-contains`, whose output is written
  (`exec.go:125`); `--jsonpath` reads stdout of any length. The tools' runs
  (`command_security.go:19`) capture through the same type, so that the refusal of a
  process list of more than 64 KiB (`process.go:175`) never happens. Doctor has a
  buffer of its own, which embeds nothing.
* `CatchesUpAtLength` (`LogTail`): more than 10 MiB behind the offset is an error
  that leaves the offset where it is, so every later check fails too;
  `docs/SPEC.md:380` has checks advance through the log.
* `S3BeginningSearched` (`Invocation`): an object of more than 10 MiB is unsatisfied
  wherever the marker is, while `docs/SPEC.md:246` has the first 10 MiB searched
  (`s3.go:329`).
* `WaitsCapped` (`PollTiming`): waits exceed `--max-interval` by up to the
  jitter, which is applied after the cap (`docs/SPEC.md:79`).
* `ExecKeepsItsSeparator` (`Segments`): `isExecCommandSeparator` looks at the
  first token of the segment, which is `guard` in `guard exec -- http`; the
  command line is split at exec's own separator (`docs/SPEC.md:53`), and the
  recipe `guards: [exec: {command: [http]}]` is refused.
* `PromptReturn` (`Exec`): a command that ended by itself and left a descendant
  with its pipes holds the check beyond the end of its context
  (`docs/SPEC.md:468`, `:339`): nobody is left to be killed through.
* `TermExits143` (`Process`): main can reach its `select` between the two
  deliveries of one SIGTERM and exit 130 (`docs/SPEC.md:578`).
* `MaxDefaultsToInterval` (`Options`): the default of `--max-interval` is taken
  before the recipe states another interval (`README.md:112` of the repository).
* `AnyLengthWillDo` (`WebSocket`): a message of exactly 127 bytes is refused,
  its 16-bit length being taken for the mark of a 64-bit one.

The guarded exec is hidden only if the token in front of its separator is not
one of `conditionValueFlags`: a name `--contains`, say, takes the separator for
its value. The cases that `Readable` excludes besides: an exec item with the name
`--` or a flag whose value is `--` (the first `--` is always exec's separator); a
command that
contains `-- BACKEND` (documented in `docs/SPEC.md:55`); `--name` as the value
of another flag (taken for the condition's name); an item that ends in a flag
of `conditionValueFlags` and is followed by another condition (the separator is
taken for its value); and a last token `--` that is part of exec's command or
the value of a flag missing from `conditionValueFlags`, such as `--send`
(refused as an empty trailing condition, although `docs/SPEC.md:63` promises
this treatment to every value-taking flag).

The exceptions that `Invocation`'s properties name are the list of what the two
copies of the backends' rules do not share:

* `LateTarget`, `LateOption`: accepted by the parser and found wrong by the
  first check, with exit code 3 rather than 2 (the repository's `README.md:349`). Among
  them: http URLs with user information, a fragment, a bad port or no host
  (`http://:80`), a bad method, bodies and texts to look for that are too large,
  more than 64 headers or 32 KiB of them, the header of a login included, and a
  bearer token with control characters; websocket URLs that are none, more than
  32 headers or 16 KiB of them and those of the handshake itself; S3 with half
  of its credentials; unsupported Kubernetes kinds (`docs/SPEC.md:430`);
  `dns --udp-size` from 1 to 511; glob patterns with a directory pattern or a bad
  one; negative durations of ntp, grpc, icmp and websocket.
* `SaysOtherwise`: `permission --mode 0` is no requirement; a blank archive
  member is none; `ssh --host-key-sha256` is looked at only in a login and
  `--banner-contains` only without one; grpc's UNKNOWN (0) is never on the wire;
  a clock beyond the NTP era (2036) counts as behind; the system resolver
  answers for a CNAME with a canonical name; a glob over more than 100,000
  names, or with more than 10,000 matches, is fatal, also where the matches asked
  for are among them; an S3 object of more than 10 MiB is not
  searched; http without user headers follows nine redirects and refuses a
  tenth (Go's default policy, which the code replaces only when there are
  headers to strip, `http.go:408`), with headers any number; lines of a log that
  satisfied an earlier check do not satisfy another one; and the pods of a
  stateful set that is scaled down are counted with the surplus ones
  (`k8s.go:442`).
* `Hopeless`: accepted, never found wrong and never satisfied: grpc addresses
  that do not parse and grpc's UNKNOWN, a blank archive member, negative
  numeric owners of `permission`, `dns --absent` of one kind with the `--rcode` of
  another, and more than one answer, or one that contains a text it does not have,
  asked of the one canonical name the system resolver gives for a CNAME; an http
  status 103, or something in the body of an answer to HEAD or of a 204;
  `websocket --expect-close-code` with a text to be found, as what is searched then
  is the empty message; `glob --min-count` above 10,000, or above 1 for a path
  without wildcards; an ssh banner or a line of a log with a line end in it; a
  log of which `--exclude '.*'` drops every line; and
  `exec` with an exit code above 255 or a text longer than what is searched.

In all three a pattern or an expression is opaque (it matches or not, as the
world says) except `.*`, which stands for the patterns that the empty text matches
and, in `--exclude`, for those that every line matches: that two patterns
contradict each other, or that a pattern matches nothing, no list says. Nor do they
say what an operating system rules out, such as a process number or a path beyond
its limits.

Observed while translating, without a property: `ssh --user --password` needs a
host key although the example in `README.md:182` has none; `help nosuch` exits
3; a Kubernetes progress deadline is looked at before `observedGeneration`;
websocket `--ping` passes over texts and leaves the server's pings unanswered;
an attempt may last three `--timeout`s and two `--read-timeout`s, not one;
stdout that exactly fills the limit is reported as truncated, because the
(possibly empty) stderr is then written to a full buffer (`exec.go:129`, in
`NothingLost`), and a match in stderr is dropped with it; a file that shrinks
between `os.Stat` and the open loses its offset but keeps its match count
(`log.go:123`; `CountExact` excludes replacements under a check for this
reason); after a satisfied check the next one is unsatisfied although the count
stands (`log.go:187`), so that with `--successes 2` the log backend waits for a
match in each of two consecutive polls.

## 5. Proofs

Each proof module has an inductive invariant `IInv`, a lemma per action or part,
`Invariance == Spec => []IInv`, and the properties as consequences.

`RunnerProofs` proves, for every finite set of conditions, any guards, gates,
mode and thresholds, from `RunnerAssumption` alone:

| theorem | property |
|---|---|
| `TypeCorrect` | `TypeOK`: above all, `readyRemaining` never goes below zero |
| `Serialization` | `ChecksSerialized` |
| `SatisfiedRunsEarned` | `SatisfiedIsEarned` |
| `GiveUpsAreHonest` | `GiveUpIsHonest` |
| `OneIsBlamed` | `OneFatalRecord` |
| `ReportsMatch` | `ReportMatchesProgress` |
| `NothingLate` | `NoLateRecord` |
| `StreaksAreEarned` | `StreakEarned`, of `RunnerHistory`, for any watched condition |
| `Refinement` | `ContractSteps`: every step of the runner is one of the contract, or changes nothing the contract speaks of |

The properties speak of the end of a run and are not inductive. `IInv` adds
what holds on the way: `ResultInv` (what result a goroutine can hold at each
statement), `LockInv` (who is where holds which gate or the mutex), `BlameInv`
(the swap's winner, the only goroutine with a fatal result past it, and the
verdict agree), `CountInv` (the counter is the number of ready conditions that
have no accepted success yet, so it reaches zero exactly once) and `ExitInv`
(why a goroutine returned: its record, the verdict or the context). Each action
has its own step under each part; `Invariance` combines them. The refinement
splits the actions by what they do to the mapped state: `Apply` is `Satisfy`,
`Claim` is `Complete` or `Fail`, `RunReturns` is `ReturnVerdict` or `GiveUp`.
For the streaks, `HistoryInv` names the place in the history where the present
streak began: from there on nothing failed, and the successes since are exactly
those the goroutine has counted. It is needed because the property compares a
counter that is reset with a history that is not.

`PollTimingProofs` proves for all durations: `TypeCorrect` (the schedule stays
between interval and maximum, so a doubling never overflows), `StretchIsStable`
(`StableStretch`), `NoLateSuccess` (`SatisfiedInTime`), `BackoffIsExact`
(`BackoffFollowsFailures`) and `ReadinessIsDetected` (`DetectedInTime`).
`BackoffInv` relates the schedule to `doubled`, the interval doubled once per
failure without a maximum: the schedule is there, or at the maximum, which
`nextExponentialInterval` may reach one unit early, as it compares with half of a
maximum that may be odd. The property ends with the run, as a run with one
required success stops with the schedule where the failures left it. For the detection `PhaseInv` bounds the time of each phase,
and `DetectInv` says when the check under way, or the next one, must have begun:
before the backend became reliable, at most one longest wait after that, or
within a streak that has got a success in every round since. The bound holds
from the moment on when every check succeeds within the attempt timeout; that
is what `ReliableAssumption` asks of the constant that stands for such a backend.

`SegmentsProofs` proves for all token lists, backends and flags: `TypeCorrect`
(the index stays in range, no segment is empty), `NoEmptySegment`
(`SplitSucceeds`: the "empty condition" errors inside the loop are dead code) and
`SegmentsRejoin` (`Rejoin`).
Above all, `RecipesReadBack` (`ReadBack`): any recipe of well-formed items, of any
length, yields exactly the conditions it states if and only if it is `Readable`.

`SplitSucceeds` is not inductive: `IInv` adds that the loop begins with the
first token (`BeforeLoop`), and that an empty segment always has a token to
come that is not `--` (`AtStart`), because a separator is followed by the start
of a condition. `JoinInv` says that the finished segments joined with the one
under construction are the tokens the loop has passed. Joining is a fold, a
recursion over sets of indices of which the library says nothing: `JoinExists`
shows that its function exists, from partial ones for sets of up to k indices,
`JoinUnfolds` that it takes the list from left to right, and `JoinedAppend` what
one more segment does. The induction is over sets of numbers (`SetInduction`,
from the library's theorem that `<` is well-founded), which needs no operator as
a parameter.

For `ReadBack`, `Layout` says where the segments of the items lie in the joined
list. `Whole`, `Parts` and `Separates` say which of its tokens end a segment when
the loop gets there: if the recipe is readable, those between two items and no
others (`NoSeparatorInside`), so `ReadInv` can name the item the loop is in
(`Reading`), and `ReadItem` shows that the parser makes of a segment the item it
came from. For the converse every way of being unreadable is followed to what it
does. Either a separator lies inside an item or between two items is none
(`SeparatorInside`): the list is then cut elsewhere (`CutInv`). Or the segment is
right and parsed into something else (`ParseExcludes`, which splits on what is
taken for the name or the separator: `NameCases`, `SeparatorMoves`). That a list
cut elsewhere is never read back as stated needs an argument of its own, as two
wrong segments could in principle make the right conditions: `ParsedLength` shows
that a condition states no more tokens than the segment has it was parsed from,
so if all conditions are as stated, no segment is shorter than stated; as they add
up to the same list, they are the stated segments (`SameSegments`). The attempt
corrected `Readable` twice, where the names TLC had been given were too plain to
tell: a name `--` in front of exec's separator, and a guarded exec whose separator
follows a value flag.

`InvocationProofs` proves for all flags and recipes: `OptionsTypeCorrect`,
`SourcesInOrder` (`Precedence`) and `RunnerNeverRefuses` (`RunnerAccepts`).
`StageInv` says what
the options are at each stage: what profile and flags make of the defaults
(`First`) before the recipe, that with the recipe's fields (`Filled`) after it,
and which validations they have passed; `Precedence` follows from an equation
per field. The invariant is needed because a field that is right at the end was
chosen two stages before.

It proves for every command line of the 27 backends that `CommandLines` describes,
and any sequence of worlds:

| theorem | property |
|---|---|
| `InvocationType` | `TypeOK` |
| `AcceptedIsUsable` | `UsableOnceAccepted`: what the parser accepts, no check finds misconfigured, but for `LateTarget` and `LateOption` |
| `VerdictsAreTrue` | `VerdictIsTrue`: a check answers satisfied if and only if the words ask for what it saw, but for `SaysOtherwise` |
| `WaitsMakeSense` | `CanBeSatisfied`: what the parser accepts some world satisfies, or the check finds it misconfigured, but for `Hopeless`, which no world satisfies |
| `OwnersAreAliases` | the dns backend's loop over CNAME records accepts the answers of exactly the names the queried one stands for, for any finite set of records |

Every backend has a lemma about its options (`FileUsable`, `HTTPUsable`, ...)
and one about its answers (`FileTrue`, ...); `NotValidIsLate`,
`ObservationIsAnswer` and `VerdictIsPromise` gather them. `IInv` is `TypeOK`
with `Polled`: the condition at hand is still the one the parser made of the
words and the verdict the answer of the last check, which is what relates an
answer to words read long before. Most lemmas are a split on the options that
the promise and the code read in different orders. Six need more: the check of
an http answer takes the redirects hop by hop and reads a body before it looks
at the status, and the promise asks for every matcher by itself
(`HTTPPromised`); the lines that count in a log are those behind an offset or
among the last ones (`LogMatching`); a port range is reported by its least open
or closed port (`LeastNumber`); a duplicated state option is refused only if two
different ones are given (`FewStates`); an accepted Kubernetes name stands for
at most one object and only that one's readings matter (`AtMostOneElement`,
`RolloutTrue`, `WaitForTrue`); and the aliases. `AcceptedOwners` is a recursive
function on the rounds of the code's loop, so `ReachExists` first shows that it
exists, from partial ones; a round that adds nothing is the last, every other
round uses up a record, so there are no more rounds than records and the names
found are closed under aliases; and every set that is closed and holds the
queried name holds what a round adds.

`WaitsMakeSense` gives for each backend a world, as a record made from the options
(`FileSatisfiable`, ...; `SomeWorldSatisfies` gathers them), and proves of the
command lines in `Hopeless` that no world does. It has two hypotheses. `EveryWorld`:
the instance has all worlds of `WorldsOf`, as with fewer the satisfying one may
be missing. `StringsExist`: the texts of those worlds are in `STRING`, which
has finite subsets of every size; it holds in TLA+, but the provers know nothing of
`STRING`. The sets are for a dns minimum (`--min-count`): as many records as asked for.

What a world may be (`WorldsOf`) is what the proofs assume of the outside: one object
of a kind and name in a namespace, finitely many records in a DNS answer, no pods
of a daemon set beyond the desired ones. The proofs changed the models
where TLC's instances had been too kind. Models of backends whose `CASE`s
overlapped now decide in the code's order; `Promises` followed chains of one or
two aliases, and the instance had no longer one; a CNAME record of another name than the
queried one had to join `SaysOtherwise`, for the system resolver. And `Hopeless` lacked
combinations of dns options: an absence of one kind with the return code of another,
and a single canonical name that should be several, or contain one text and be another.

`WebSocketProofs` proves for all timeouts, configurations, servers and numbers
of frames: `SatisfiedChecksEarned` (`SatisfiedIsEarned`) and `AttemptsEndInTime`
(`EndsInTime`), whatever the matchers. `DeadlineInv` bounds the deadline for each phase by what the
phases before it may have used; `PhaseInv` says which frames have been received
when a phase has been passed; `MessageInv` that the fragments read are an
unbroken part of what the server said, that their marks are the message's and
that its size is the sum of theirs, kept apart from it by the history `lengths`
(`LengthInv`). Of two frames of the conversation at most one begins a message
that the other ends, which is why the message that was read is the one the
property speaks of. `FirstMessagesDecide`
(`FirstMessageDecides`) adds for a check that reads a text that nothing of the
message has been passed over (`DecisionInv`): while no message has begun no frame
with data has been received, a frame received with the expected text has marked
the message, and a server whose frames are well formed gets no frame error. Well
formed includes control frames of at most 125 bytes; the length 127 of section 4
and messages of more than 16 MiB are excluded.

`ProcessProofs` proves for any conditions and numbers of attempts, any order of
signals and deliveries and a pipe that breaks at any time: `TypeCorrect`,
`ExitsAreTrue` (`ExitTruth`), `StreamsArePrefixes` (`StreamIsPrefix`) and
`RunsKeepTheContract`: what the process does to its run is a behaviour of
`WaitContract`, the same that `Runner` refines. `ExitTruth` speaks of the end of
the process, `CodeInv` of the code that has been computed but not yet returned
to the system; `StageInv` says which statements belong to which command and that
main asked for signals before any of them, `RunInv` what a run's outcome is
backed by (a cancelled run by a signal that was sent), and `StreamInv` that the
outcome is the last event, and there whenever a code 0 or 1 is.

`LogTailProofs` proves for any inodes, contents, sizes, limits and outside
events: `TypeCorrect`, `AppearedFilesAreRead` (`AppearedIsReadInFull`),
`CountsAreExact` (`CountExact`) and `TailsAreRight` (`TailStart`). `TrackInv`
says what the condition knows of the file it follows between any two system
calls, as long as no replacement escaped it; `HistoryInv` that a file which took
the place of another is read from its start. `MissedInv` follows the history
`missed`, kept by what checks have found and not by the code's own flag: after a
check without a file the condition has not begun and knows it, or stands at
offset zero, or follows a file that is gone. For the count, `CountInv` says that
`matchCount` is the number of matching lines between where the file is followed
from and the offset, which stands behind a line's end; that matches of two parts
add up when the first is made of whole lines is the lemma `MatchesAddUp`. Its
hypothesis `LinesComeWhole` (every write is made of whole lines) is the case in
which the code is right; `log_bytes` shows how it fails otherwise. The tail
theorem has no hypothesis: `TailHasLines` and `WindowOfLines` show, for lines of
any length and whether or not the last is complete, that the window of
`findTailStart` contains as many ends of lines as it looks for.

`ExecProofs` proves for every limit, pipe size, set of portions and exit codes:
`TypeCorrect`, `SatisfiedAreReal` (`SatisfiedIsReal`) and `NothingIsLost`
(`NothingLost`). `StreamInv` splits what was written to a stream into what was
copied and what is in the pipe. `CombinedEffect` says what two writes to a
limited buffer leave in it: the beginning of both, for any sequences, whether
the first was cut or not (`KeptLeft`), and the mark. `RunInv` and `ResultInv`
say what `Run` knows of the command by how far it is, so that an answer given at
the end still follows from the state.

The assumptions are the named `ASSUME`s of the modules: positive sizes and
timeouts, finite sets, the shape of configurations and of recipe items, command
lines and worlds that are among those `CommandLines` describes, a watched
condition that is a ready one, a reliable backend that answers within the
attempt timeout. TLC evaluates all of them.

## 6. Not modelled

Formatting, messages and elapsed times; byte encodings (frame headers, DNS
names, protobuf, SigV4 signatures, digests, archive formats); the redaction of
secrets; the JSON expression parser and evaluator, of which the backends' models
use the outcomes; the construction of the Kubernetes client and the diagnostics
added to its results; the texts of help and completion; the counterparts of the
Unix files on other systems; panics (the runner has no recovery, a panic ends
the process); monotonic clock against wall clock; the map iteration of
`recipeBackend` (`recipe.go:217`), which picks one of two backends that an
invalid recipe item names.

## 7. Plan

Left, in this order:

1. `LogWait`: `LogTail` composed with the runner's judgement of a check, where
   an expired attempt or an unfinished streak meets the consumed match
   (`log.go:187`), and the hazards at `log.go:123` and `log.go:141`.
2. `Gates`: `conditionGates` and `unwrapCondition` over bounded wrapper chains:
   same inner pointer, same gate; discharges the assumption on `GateOf`.
3. Proofs: the safety half of `KillReturns`.
4. The comparison rules of `internal/expr` over a small set of JSON values.
