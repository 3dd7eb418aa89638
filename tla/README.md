# A TLA+ model of NetCheck

NetCheck is a command-line network toolkit in Go. One run of it is one command
(a ping, a port check, a scan, a trace, a watch, ...), possibly with a web
dashboard and a metrics server beside it. Its difficulty is not in any one
check but in the goroutines around it: worker pools, receivers that outlive
their callers, channels closed from two sides, raw sockets that see everybody's
packets, lists that several goroutines append to, and a context whose
cancellation arrives at any moment. This directory models those parts, checks
them with TLC and proves what can be proved of them with TLAPS.

## The system

| component | state | operations | interacts with | hard behaviour | correct when |
|---|---|---|---|---|---|
| worker pool (`portscan`, `tcp.BatchCheck`, `udp.BatchCheck`) | two buffered channels, a WaitGroup, ctx | spawn, feed, take, probe, send, close, collect, cancel | one check per job | interleaving of workers, feeder, closer, collector and cancel | each job reported at most once, all of them unless cancelled, no blocked or panicking send, no goroutine left |
| host discovery (`discover`) | the pool, raw ICMP sockets, a list of addresses | list a prefix, reverse lookup, ping, dial each port, report | every socket sees every ICMP packet | replies crossing over between workers, arithmetic of addresses | one result per host; a verdict rests on that host; the hosts are the prefix's |
| ICMP ping (`ping`) | counters, RTT list, `receiveDone` | send loop, receiving goroutine, loss | the caller's ctx; other pingers | a channel closed twice, foreign, late and lost replies | returns, counts right, never kills the process |
| TCP check (`tcp.Checker`) | latencies under a mutex | dial, wait, judge | ctx | mixed outcomes, cancel between dials | verdict over all dials |
| UDP check (`udp.Checker`) | two channels, two sockets | write, read, listen for ICMP, select | ctx, timer, others' ICMP | four events racing for one verdict | the verdict rests on its event |
| monitoring (`monitoring`, `runWatch`) | data points, a channel of 100, `running` | tick, check, append, offer; Stop; Result | consumer, ctx | slow consumer, cancel and tick ready together | order kept, a point dropped when and only when the buffer is full, cancel ends it |
| dashboard (`web`) | the last 100 results, an RWMutex | handleCheck, handleHistory | net/http goroutines, their clients, all checks | concurrent trim, append and read, a client that does not read under the lock | newest kept, a page is one moment |
| TCP ping (`runTCPing`) | counters, ticker, `done` | tick, dial, summary | ctx | interrupt during a dial | the summary is right and the loop ends |
| MTR (`mtr`) | hops, RTTs per hop | cycles of probes, finalize | a raw socket per cycle, ctx | a cycle without a socket, a cancel between hops | hops probed alike, the report covers the samples |
| traceroute (`traceroute`) | the route | one probe per hop over one socket | every ICMP packet, ctx | late and foreign replies, a cancel between hops | hops in order, ends at the target, not shorter than the way |
| DNS lookups (`dns`) | records under a mutex | six concurrent lookups, one merge | resolver, ctx | merge order, partial failure | values of a type whole and together, every lookup waited for |
| HTTP check (`httpcheck`) | six time stamps, one result | request, redirects, trace callbacks, body | dialling goroutines of net/http | a dial left behind stamps while the times are read | redirects counted and bounded, times of connections made |
| TLS check (`tlscheck`, `runTLSCheck`) | one result, a gauge | dial, handshake, days left, warning | ctx | a handshake without a deadline, truncation at zero | warned in time |
| alerting (`alerts`) | the last error, the channel of a mail | send over three services | HTTP, SMTP, ctx | a mail that outlives its caller, one failure of three | no error means taken by all |
| dispatch (`runRoot`, `main`) | flags, ctx, exit code | version, configuration, one of 14 commands, export, exit | every command | failures that only the output shows, deaf commands | a signal ends it, the exit code tells |
| lifecycle (`runRoot`, both `ListenAndServe`) | ctx, `sigCh`, two servers | set up, signal, finish, shut down, exit | everything | exit while requests are in flight, a server that fails, a second signal | a signal ends the run, nothing else does |
| metrics | gauges | setters, ServeHTTP | lifecycle, TLS check | shutdown | - |
| config, export, logger, utils | settings, one mutex | parse, format, write | dispatch | - | - |

`PROJECT.json` lists every component with its status, and every hazard at its
line.

## Modules

| module | models | variables to code |
|---|---|---|
| `Batch` | what a batch of probes promises its caller | abstract |
| `WorkerPool` | the pool that `portscan.go`, `tcp.go`, `udp.go` and `discover.go` each write out | `fed`, `taken`, `jobsClosed`: `portCh`; `sent`, `got`, `closer`: `resultCh` and the goroutine that closes it; `wg`: the WaitGroup; `pc`, `hand`, `found`: a worker's position, port and state |
| `Discover` | `Discoverer.Run` and `pingHost`; EXTENDS `WorkerPool` and opens its probe into steps | `first`: the packet a worker's ReadFrom returns; `wire`: echo replies on their way; `report`: the HostResults |
| `Subnet` | `parseCIDR`, `incIP` | `prefix`, `ip`, `ips`: as in the code |
| `Samples` | what `tcp`, `mtr`, `monitoring` and `runTCPing` make of a series of samples: some are left out, the others added up and divided | none: operators |
| `Ping` | `Pinger.Run` | `sender`, `receiver`: the two goroutines; `doneClosed`: `receiveDone`; `net`, `foreign`: replies, own and others' |
| `TcpCheck`, `UdpCheck` | the two `Checker.Run` | `dials`: the WaitGroup of tcp; `readCh`, `icmpCh`, `timerDue`, `ctxDone`: the four cases of the select of udp |
| `Monitor` | `Monitor` and `runWatch` | `data`, `ch`, `running` as in the code; `delivered`: what the range received; `readAt`: how much that was when each point was offered (a history variable that no action looks at) |
| `Dashboard` | `handleCheck`, `handleHistory` | `results`; `writer`, `readers`: `d.mu` |
| `Mtr` | `MTR.Run`, `finalize`, `calculateStats` | `hopData`, `hops`: as in the code; `progress`: `Cycles` and `Running` |
| `TcPing` | `runTCPing` | its locals; `ticks`: `ticker.C` |
| `Traceroute` | `Tracer.Run` | `route`, `complete`: `result.Hops`, `result.Complete`; `wire`: replies on their way or in the socket |
| `DnsLookup` | `Resolver.Run` | `records`, `mu`: as in the code; `lookup`: its goroutines; `zone`: what the domain has |
| `HttpCheck` | `Checker.Run` of httpcheck | `via`: the requests made; `phaseStart`, `phaseEnd`: `dnsStart` ... `tlsEnd`; `dialPos`: how far the dial of each request is |
| `TlsCheck` | `Checker.Run` of tlscheck, `runTLSCheck` | `tlsResult`, `certGauge`, `warned`: as in the code; `certLeft`: `NotAfter` less now |
| `Alerts` | `Notifier.Send`, `sendTelegram`, `sendDiscord`, `sendEmail` | `given`: the fields of the Notifier; `mailDone`: the channel of a mail; `mailer`: its goroutine |
| `Context` | the `context.Context` of the commands | `ctxDone` |
| `RunRoot` | `main`, `runRoot`, `run...`, `writeExport`; EXTENDS `TcpCheck`, `TcPing`, `Mtr`, `DnsLookup`, `Traceroute`, `HttpCheck`, `TlsCheck`, `Subnet` | `line`: flags and arguments; `command`, `outputs`: what is left to do |
| `Lifecycle` | `runRoot` around a command, `Dashboard.Run`, `metrics.ServeHTTP` | `sigCh`, `listener`: the signal goroutine; `server`, `stopper`: a server and its Shutdown goroutine |
| `..._proofs` | the theorems about the module of that name; `WorkerPool_proofs` has those about `Discover` too, and `Context_proofs` those about the eight commands of `RunRoot`, about `RunRoot` itself and about `Alerts` | |

Each action is one step of one goroutine between two points where another one
can act: a channel operation, a lock, a system call, a return. A Go channel is
its content and whether it is closed; sending on a closed channel is never an
enabled action but a state that a property forbids (`SendSafe`), and closing a
closed one sets `panicked` in `Ping`, where the code does it. A check that
another module opens up is one step with an outcome: `WorkerPool` needs from
`tcp` and `udp` only that a check ends and that one that begins after a cancel
reports a state of its own; `Monitor` and `Dashboard` take from `Ping` that a
ping check may end the process (`Crash`).

Composition. The eight commands that `RunRoot` extends share one context with
it, and only the one that the command line selects takes steps (`Alone`).
`Discover` extends `WorkerPool`. `WorkerPool` implements `Batch`, and so do the
lookups of `DnsLookup`, by an instance of it each. `Lifecycle` keeps of a
command whether it heeds ctx; that all but two do is `CommandsHeedCancel` of
`RunRoot`. `Ping`, `UdpCheck`, `WorkerPool` and `Monitor` have contexts and
runs of their own and are single steps of `RunRoot`, with the endings they have.

There are no separate model-checking modules: the instances need nothing but
constants, which the `.cfg` files give as small numbers and sets of model
values, and no symmetry, since most runs check liveness.

Definitions whose names carry an underscore and a description (such as
`CloseResults_Early`) are mutations of the action next to them: each property of
a passing run is known to fail under the one listed for it in `PROJECT.json`.

Three data races of the code are nondeterministic choices: `ping` reads the list
of RTTs without its mutex (`ProcessResult` sees any earlier length of it),
`Stop` reads `running` without one, and the callbacks of `httpcheck` write the
times that `Run` reads (`HttpDialling` between any two steps).

## Runs

All bounds are in the `.cfg` files. The passing runs:

| run | instance | states | shows |
|---|---|---|---|
| `WorkerPool_batch` | 3 workers, 4 jobs, so that a worker takes a second job after another has left | 115,194 | the safety of the pool; it ends, and implements `Batch` with its liveness |
| `Discover_pool` | 2 workers, 2 hosts, 2 ports, every set of answering hosts and open ports | 505,552 | discovery implements the pool; TCP verdicts are right |
| `Ping_run` | 3 requests, a timeout that the third reply exceeds, 2 foreign replies | 11,388 | errors and counts; Run returns and the receiver ends |
| `UdpCheck_verdict` | port 53 and a generic port equal to the length its ICMP quotes, 2 foreign messages | 2,707 | what verdicts rest on; nothing leaks |
| `Monitor_watch` | 3 checks of a port or a host, a channel of 2, 4 ticks, two latencies | 278,058 | order, which points are dropped, reports; cancellation with and without a reader |
| `Dashboard_requests` | 3 requests that may crash or hang, one history reader, a list of 2, a page of 2 | 65,768 | the list and the page under concurrency; who is answered while pages are read |
| `Lifecycle_run` | 2 servers, 2 requests, 2 counted signals | 22,041 | causes of a stop, clean shutdown; a signal ends the run |
| `RunRoot_commands` | every command line of at most 2 flags, and the constants below | 123,892 | what eight commands report is what they measured; a signal ends all but two |
| `Alerts_send` | every set of configured fields, every outcome of 3 services | 1,248 | errors mean what they say; a cancel ends Send; the mailer ends |

The commands of `RunRoot_commands`:

| command | instance | properties |
|---|---|---|
| tcp | 3 dials (what `runTCPCheck` asks for), two latencies, one equal to the timeout | `VerdictIsWhole` |
| tcping | 4 counted probes, two latencies | `SummaryIsTrue` |
| mtr | 3 cycles, 2 hops, two latencies and the timeout | `HopsAreProbedAlike`, `ReportCoversSamples`, `MtrStopsPromptly` |
| dns | a type that must have values, one that need not, and CNAME with one at most; up to 2 values | `RecordsAreWhole`, `LookupsAreABatch` |
| traceroute | 3 hops, a target 3 hops away, 1 foreign packet | `RouteEndsAtTarget`, `RouteIsNotTooShort` |
| http | a limit of 3 requests, 2 phases per dial | `HttpReportIsSane` |
| tls | hours around 0, 30 and 31 days, up to an hour between verification and measurement | `WarnsInTime` |
| discover | 2 octets of 2 bits, every prefix; a list of 18 addresses, more than the 16 there are | `HostsAreTheSubnet` |
| all | | `CommandsHeedCancel`, `RootTypeOK` |

The bounds are small but each case of the code occurs in them: a full and an
empty buffer, a list that overflows, more jobs than workers, a foreign message
before and after the own one, an octet that carries and one that wraps to the
first address, a redirect at the limit, a cancel in every state. Channel and
list sizes of 100 are scaled to 2 because the code compares lengths with the
limit and with nothing else, and so is the limit of 10 redirects to 3. The code
of `discover` is the same for any size and number of octets. Two flags are
enough for any two cases of the dispatch to compete, and for two exports. Where
a loop is endless (`TcPing`, `Lifecycle`), what is bounded is what is counted
and not how often it happens; `Monitor` bounds the ticks, so its liveness is
about a cancel before, during or after the last. `CHECK_DEADLOCK FALSE` is said
where the system stops: the process has exited or waits for a signal that need
not come (`RunRoot`), the call has returned or waits for a service (`Alerts`).

`InOrder` says of each data point whether it may be missing. `readAt` has, for
each point offered, how many the consumer had received; with the points that
were put into the channel before it, that tells how many were waiting in the
buffer, and the points delivered or still in the channel are exactly those that
found fewer than the buffer holds. A reader that drains the channel between two
drops is among the behaviours, and what is counted is the buffer at the moment
of each offer.

What `HttpReportIsSane` claims of times, `RouteIsNotTooShort` of distances and
`CountsAreSane` of counts has a premise (no dial was out, no packet of another
program was read), and the code does worse when it fails, as the table below
says.

Some of what documents say does not hold. Three such statements have a run
that violates them, with the document quoted in `PROJECT.json`:

| run | what happens |
|---|---|
| `Ping_cancel` | `receiveDone` is closed by Run and then by the receiver, which panics once the caller's cancel is seen |
| `UdpCheck_open` | a read error counts as an answer: a silent port may be OPEN |
| `RunRoot_exit` | a lookup, a request, a handshake, a configuration or an export fails and the exit code is 0 |

The others were met on the way and have no run. The models contain the
behaviour unless the row says otherwise:

| where | what the code does | what is said |
|---|---|---|
| `monitoring.go:119-125` | a watch of a host dies of the ping panic (`Crash` in `Monitor`; also in `Dashboard`) | user-manual.md:187, 191 |
| `monitoring.go:77` | `--interval 0` or a negative one panics in `time.NewTicker` (not in the model, whose ticker always ticks) | - |
| `web.go:305-331, 64-67` | a client that does not read its history page keeps the read lock, for the server has no WriteTimeout, and every check waits for it (`PagesAreRead` in `Dashboard`) | - |
| `ping.go:103-114, 199` | other pingers' replies are counted: more received than sent, a negative loss | api.md:12 |
| `ping.go:111-112, 165-167` | the RTT is computed from the sequence number, so a late reply is counted | api.md:153, "Per-ping timeout" |
| `tcp.go:74-78, 115-117` | a port none of whose dials was answered is CLOSED | user-manual.md:103, "OPEN, CLOSED, or TIMEOUT" |
| `discover.go:198-209` | a silent host is alive on an ICMP reply to another worker, which the model contains (`wire`) | user-manual.md:131, "Discover alive hosts" |
| `discover.go:107` | a host that answers nothing is Unknown; nothing assigns Down | api.md:37 |
| `mtr.go:244` | the display between cycles takes samples below 5 seconds for answers, and a lost probe is a sample of 3: it never shows a loss (the display is not in the model) | README.md:95, "real-time loss/latency" |
| `mtr.go:157` | an interrupted run reports the cycles asked for | - |
| `web.go:272-274` | the DNS page posts a check type that its handler does not know (statuses are not in the model) | user-manual.md:232 |
| `main.go:262-268` | the summary divides by zero when every probe failed (`panicked` in `TcPing`) | README.md:64 |
| `main.go:126`, `tlscheck.go:57` | a handshake that hangs survives every signal (`deaf` in `Lifecycle`) | README.md:109 |
| `main.go:167-170`, `web.go:71-73` | the process exits while Shutdown waits (`cut` in `Lifecycle`) | developer-guide.md:125 |
| `discover.go:145` | 0.0.0.0/0 is listed for ever: the address after the last is the first (`Endless` in `Subnet`) | README.md:109 |
| `traceroute.go:112-140` | any ICMP packet is the answer of the current hop: a late reply adds hops, an echo reply to another pinger ends the trace | - |
| `main.go:379-387` | a trace that is interrupted returns what it has with an error, and the route is not printed | - |
| `httpcheck.go:54-58, 97-105` | a dial that was left behind stamps while the times are read, and a phase may take negative time (`overlapped` in `HttpCheck`) | user-manual.md:173, "DNS/TCP/TLS timings" |
| `httpcheck.go:107-110` | a page cut short is reported as a small page without an error (`body`) | - |
| `dns.go:176-179` | the nameserver reported is the word "system" or none, whichever was asked (not in the model) | - |
| `tlscheck.go:87` | Expired is never set: an expired certificate fails the handshake, and one that expires after it has 0 days | - |
| `main.go:406-415` | a TLS check that failed sets the gauge of days left to 0 (`certGauge`) | - |
| `main.go:190-199` | `--tcping` and `--udp` without a numeric port ping or watch the host (`Cases`) | - |
| `main.go:226, 240, 316` | only ping, tcp and udp write the files of `--json`, `--csv` and `--html` (`Exports`) | user-manual.md:196, "Export results" |
| `config.go:100-114` | Validate is called by tests alone: a file may ask for 0 pings or workers | - |
| `alerts.go:60-82` | a service with half of its fields is skipped without an error (`Configured`) | - |

## Fairness

Weak fairness of a goroutine says that the Go scheduler runs it while it can
run. Three further assumptions: every dial, read and lookup with a timeout ends
(weak fairness of the step that ends it); a `select` with several ready cases
chooses at random, so a case that stays ready is chosen in the end (strong
fairness of `SeeCancel` in `Monitor`, of `TcPingStops` in `RunRoot`); and
`sync.RWMutex` starves neither side (strong fairness in `Dashboard`). Nobody
need cancel, signal, answer or send. In `Ping` the caller's deferred cancel
follows the return. A TLS handshake, which has neither a deadline nor a ctx, has
no fairness: it is the deaf command of `Lifecycle`, in `RunRoot` the action
`ServerHandshakes`, and in `Dashboard` the request that may hang (`MayHang`).
Nor has a response in `Dashboard`: the servers have no WriteTimeout
(web.go:64-67), so `Finish`, which writes a history page under the read lock,
and `Respond`, which writes the answer of a check without a lock, wait for a
client that need not read. That pages are read is the premise `PagesAreRead` of
`RequestsAreAnswered`, and without it TLC finds every check waiting behind one
history request; that the answers of checks are read is no premise, and a check
counts as answered when it has released the lock and come to its response.
The same holds in `Alerts` of the services and of `smtp.SendMail`: only the code
and the end of a cancelled request are fair. The consumer of a watch has no
fairness either; `CancelEndsWatch` takes it as a premise for the range over the
channel, and the end of the loop does without it.

## Proofs

All proofs are for every value of the constants, from the named assumptions on
them alone, and for any number of steps. Every invariant that a passing run
checks is the conclusion of a theorem. The type invariants of the proved modules
are theorems too (`TypeCorrect`, `HostTypesHold`, `TypesHold`, `AlertTypesHold`)
and are not run again; those of the eight commands are in `RootTypeOK`, which is
run and proved (`RootTypesHold`).

| module | theorems | the inductive invariant |
|---|---|---|
| `WorkerPool_proofs` | `AtMostOnce`, `SendSafe`, `CompleteUnlessCancelled`, `PromptStop`, the safety of `Batch` | layers, below |
| | `ImplementsPool`, with it all the safety of the pool for `Discover`, and `TcpVerdictsAreRight` | *Verdicts*: a worker between two dials has found the ports before this one closed |
| `Ping_proofs` | `ErrTellsTheTruth`, `CountsAreSane` | *Control* ties positions to the loop variable; *Numbers* bounds replies recorded and on their way by the requests sent and the foreign replies read |
| `UdpCheck_proofs` | `VerdictRests` | the timer fires after the read deadline; an unreachable on the wire or in the channel is the peer's while no foreign one was heard |
| `Monitor_proofs` | `InOrder` | what was delivered and what is in the channel is an increasing sequence below the point being offered; each point offered has a place in it, after `n` others, where it is if fewer than `Cap` of these were unread (`Followed`); *Ticks* bounds the checks by the ticks |
| | `ReportAddsUp`, `ReportsGrow` | `ReportInv`: the last report counts no more checks and no more failures than `data` has, which is only appended to, and a point more is a failure more or none |
| `Dashboard_proofs` | `KeepsTheNewest`, `PageIsAMoment` | the list is a suffix of what was stored, one longer than its limit only under the write lock; a reader under its lock sees a list that stands still |
| `Lifecycle_proofs` | `StopHasACause`, `ShutdownIsClean` | every stage of a shutdown is ascribed to its cause |
| `Context_proofs` | `RouteEndsAtTarget`, `RouteIsNotTooShort` | the replies on the wire are of probes sent, and no hop has used one that is still there |
| | `LookupsAreABatch`, `RecordsAreWhole` | at most the holder of the mutex is storing; the values stored by a type stand at the end of the list while it holds it, in one place afterwards |
| | `HopsAreProbedAlike`, `MtrStopsPromptly` | the hops below the loop variable have one sample more than the others in a cycle that has a socket |
| | `WarnsInTime` | what the result says of the days is `Days` of the hours left, which are more than minus one day |
| | `HttpReportIsSane` | for each phase, a dial is inside it or its end came after its start, and a dial that has passed its start has stamped it; the first request can only have a connection that it dialled |
| | `ReportCoversSamples` | `HopListInv`: the list has the hops that were probed, because only the first cycle adds to it and that cycle goes through them in order |
| | `VerdictIsWhole` | `TcpInv`: at most one dial is out, there is one latency for each of the others, and as many of these are not 0 as dials succeeded |
| | `SummaryIsTrue` | `TcPingInv`: the running total, minimum and maximum are those of `rtts`, the latencies accepted so far |
| | `HostsAreTheSubnet` | `SubnetInv`: while a prefix other than 0.0.0.0/0 is listed, the addresses so far have the values from its first one's on, and `ip` has the next |
| | `RootTypeOK` | `RootVarsOK` for the dispatch; the inductive invariants of the commands, and those of DNS, MTR and HTTP a typing of their own |
| | `CommandsRunAlone`, `ProgramKeepsThem` | none: a refinement of each command by its own variables and ctx |
| | `OutcomeIsTrue` | as long as no call has failed, every configured service before the current one has taken the alert |

`WorkerPool_proofs` is the longest. None of its properties is inductive alone.
The invariant `IndInv` is proved layer by layer, each on top of the ones before.
*Carry* holds the types. *Phases* relates the positions: workers are spawned
before the feeding, `wg` is the set of workers that have not ended, `resultCh`
is closed only once `wg` is empty. *Holding* says what a position implies for
the job in a worker's hand: it has been taken, no other worker holds it and no
result reports it, which gives `AtMostOnce`. *Accounting* is the converse:
unless the batch was cancelled, every job taken is in a hand or reported, with
the state PROBED, and a worker that has ended has found the jobs closed and all
taken; completeness follows. *Room* counts: the results sent and the busy
workers together never exceed the jobs taken, which is why a send finds room in
a buffer as long as the batch. `PromptStop` is a bound of its own, because a
worker past its look at ctx has begun its probe before the cancel. Each layer
has one step per action.

The theorems of `Context_proofs` are about a module in a run of its own
(`TcpSpec`, `TcPingSpec`, `TraceSpec`, `DnsSpec`, `MtrSpec`, `TlsSpec`,
`HttpSpec`, `SubnetSpec`, `AlertSpec`): its steps and cancels at any moment.
`CommandsRunAlone` carries all but the last over to the program: every step of
`RootSpec` is, for each command, a step of its own, a cancel or a stutter,
because no step of a command ends ctx (one lemma per command) and the others are
left alone. `ProgramKeepsThem` is the outcome: the program has the twelve
properties proved of its eight commands, for every command line.

Three invariants are about what a loop has computed: a mean lies between a least
and a greatest sample, a list of addresses is an interval. No theorem of the
library that takes an operator can be used, which leaves out those on induction,
on recursive functions and on folds, so `Samples_proofs` starts from sets. That
the proper subsets of a finite set are well-founded is in the library without an
operator; it gives a least element to every set of numbers that is not empty
(`LeastNumber`), and with it induction as a fact about a set that contains 0 and
the successor of each of its elements (`Induction`, and `SequencesGrow` for a
set of sequences). `FoldLeft` is a CHOOSE of a function on sets of indices:
`TableExists` shows by induction that there is one, and `TableIsPartials` that
it holds the partial results in order. From these come the two facts that every
proof about samples uses, what `Total` and `Keep` are of one sample more, and
`MeanIsBounded`. `ValueOf` of `Subnet` is such a fold too, and `PowerOfTwo` a
recursive function of which the same induction shows that it exists. The
arithmetic of `incIP` is then exact (`IncIPCounts`): the octets that overflow
are the full ones at the end, and the value of the address goes up by one,
unless it is the last of all.

That is why the models use `Keep` for a loop that leaves samples out, where
`SelectSeq` would do, and `PowerOfTwo` for the powers of 2: the provers know
neither `SelectSeq` nor `^`.

Only model-checked: what is liveness, or a conjunction with it, since fairness
and ENABLED are outside the prover. These are `NoLeak`, `ImplementsBatch` (its
safety half is `PoolIsABatch`), `BothEnd`, `NothingLeaks`, `CancelEndsWatch`,
`RequestsAreAnswered`, `SignalEndsRun`, `CommandsHeedCancel`, `CancelEndsSend`
and `MailerEnds`.

## Not modelled

The logger holds one mutex around one write. HTML pages, export formats and the
parsing of a configuration are conversions that no property is about; of a
configuration and an export `RunRoot` has that they may fail. The metrics
setters write one gauge each of a library. Helpers of `utils` other than the
enumeration of a prefix are called by tests alone. Durations are units or
events, never nanoseconds; jitter, round-trip times of a trace, reverse names
and floating point are left out.

## Plan

Written: every module the inventory asks for. What is left, in this order:

1. `Discover` over the list of `Subnet`, and `Ping` as a command of `RunRoot`,
   if the state spaces allow it; then the safety of `Ping` carries over to the
   program as that of the other commands does.
2. Proofs: that a check ends at all is liveness, but the safety that it rests on
   could be stated and proved: that no reachable state of `WorkerPool`, `Ping`
   and `Lifecycle` is one where a goroutine waits for a step that nobody can
   take.
