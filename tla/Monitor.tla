------------------------------- MODULE Monitor -------------------------------
(***************************************************************************)
(* A watch: internal/monitoring Monitor, with the program that uses it     *)
(* (cmd/netcheck runWatch).  Start returns a buffered channel and runs a   *)
(* loop: wait for a tick or for ctx, check the target, append the data     *)
(* point under the mutex, and offer it to the channel, dropping it when    *)
(* the buffer is full.  runWatch ranges over the channel; Result reads the *)
(* data points; Stop closes a channel that the loop never looks at.        *)
(*                                                                         *)
(* A data point is its index in data; what it says is in data.             *)
(*                                                                         *)
(* A ping check takes the process with it, during the check or after it:   *)
(* its deferred cancel makes ping's receiver close receiveDone a second    *)
(* time (module Ping).                                                     *)
(***************************************************************************)
EXTENDS Samples

CONSTANTS
  MonTypes,   \* the types watched: "ping", and others that run as one program
  Count,      \* checks to make; 0 for no end
  Cap,        \* the buffer of the channel: 100 in the code
  Latencies,  \* bound: the latencies a check measures
  MaxTicks    \* bound: how often the ticker fires

ASSUME MonitorAssumption ==
  /\ Count \in Nat /\ Cap \in Nat \ {0} /\ MaxTicks \in Nat
  /\ Latencies \subseteq Nat

VARIABLES
  monType,     \* m.monType
  loop,        \* where the goroutine of Start is
  iterations,
  tick,        \* ticker.C holds a tick; it has room for one
  ticks,       \* how often it has fired
  data,        \* m.data
  ch,          \* what the channel holds
  chClosed,
  delivered,   \* what the consumer has received
  readAt,      \* history: Len(delivered) when each data point was offered
  consumer,    \* runWatch: "ranging" or "returned"
  running,
  stopped,     \* m.done is closed
  ctxDone,
  report,      \* the last MonitorResult that Result returned
  alive        \* the process is running

loopVars == <<loop, iterations, data>>
tickVars == <<tick, ticks>>
chanVars == <<ch, chClosed, delivered, readAt, consumer>>
callVars == <<running, stopped, report>>
runVars == <<monType, ctxDone, alive>>
vars == <<loopVars, tickVars, chanVars, callVars, runVars>>

DataPoint == [available : BOOLEAN, latency : Latencies \union {0}]
Available == {p \in DataPoint : p.available}

Hour == 3600000   \* MinLatency before the first success, in milliseconds

(* The mutant takes the average over all checks, failed ones too. *)
LatenciesOf(ok) == [k \in DOMAIN ok |-> ok[k].latency]

Average_OverAll(points, ok) ==
  IF ok = <<>> THEN 0 ELSE Total(LatenciesOf(ok)) \div Len(points)

Average(points, ok) == IF ok = <<>> THEN 0 ELSE Mean(LatenciesOf(ok))

(* Result: totals over the data points, the failures left out of latency. *)
Summary(points) ==
  LET ok == Keep(points, Available)
      lat == ToSet(LatenciesOf(ok))
  IN  [total    |-> Len(points),
       failures |-> Len(points) - Len(ok),
       min      |-> IF points = <<>> THEN 0 ELSE Min(lat \union {Hour}),
       max      |-> Max(lat \union {0}),
       avg      |-> Average(points, ok)]

TypeOK ==
  /\ monType \in MonTypes
  /\ loop \in {"select", "check", "late", "offer", "unset", "close",
              "exited"}
  /\ iterations \in 0..MaxTicks
  /\ tick \in BOOLEAN /\ ticks \in 0..MaxTicks
  /\ data \in Seq(DataPoint)
  /\ ch \in Seq(1..Len(data)) /\ Len(ch) <= Cap
  /\ chClosed \in BOOLEAN
  /\ delivered \in Seq(1..Len(data))
  /\ readAt \in Seq(0..Len(delivered))
  /\ consumer \in {"ranging", "returned"}
  /\ running \in BOOLEAN /\ stopped \in BOOLEAN /\ ctxDone \in BOOLEAN
  /\ alive \in BOOLEAN

(* Start has returned the channel; its goroutine is about to run. *)
Init ==
  /\ monType \in MonTypes
  /\ loop = "select" /\ iterations = 0 /\ data = <<>>
  /\ tick = FALSE /\ ticks = 0
  /\ ch = <<>> /\ chClosed = FALSE /\ delivered = <<>> /\ readAt = <<>>
  /\ consumer = "ranging"
  /\ running = TRUE /\ stopped = FALSE
  /\ report = Summary(<<>>)
  /\ ctxDone = FALSE /\ alive = TRUE

------------------------------------------------------------------------------
(* The ticker drops a tick that finds the last one not taken. *)
Fire ==
  /\ loop \in {"select", "check", "late", "offer"}
  /\ ticks < MaxTicks
  /\ ticks' = ticks + 1
  /\ tick' = TRUE
  /\ UNCHANGED <<loopVars, chanVars, callVars, runVars>>

Enough == Count > 0 /\ iterations >= Count

Finished ==
  /\ loop = "select" /\ Enough
  /\ loop' = "unset"
  /\ UNCHANGED <<iterations, data, tickVars, chanVars, callVars, runVars>>

(* select takes either case when both are ready. *)
SeeCancel ==
  /\ loop = "select" /\ ~Enough /\ ctxDone
  /\ loop' = "unset"
  /\ UNCHANGED <<iterations, data, tickVars, chanVars, callVars, runVars>>

SeeTick ==
  /\ loop = "select" /\ ~Enough /\ tick
  /\ tick' = FALSE
  /\ loop' = IF ctxDone THEN "late" ELSE "check"
  /\ UNCHANGED <<iterations, data, ticks, chanVars, callVars, runVars>>

(* A check that begins with ctx done finds the target unavailable.  In one   *)
(* that is under way a dial, or a reply, may still succeed.                  *)
Outcomes ==
  {p \in DataPoint : /\ loop = "late" => ~p.available
                     /\ ~p.available => p.latency = 0
                     /\ p.available => p.latency \in Latencies}

(* Mutant: only the last two data points are kept. *)
Check_Trims ==
  /\ loop \in {"check", "late"}
  /\ \E p \in Outcomes :
       data' = IF Len(data) < 2 THEN Append(data, p) ELSE <<data[2], p>>
  /\ loop' = "offer"
  /\ UNCHANGED <<iterations, tickVars, chanVars, callVars, runVars>>

Check ==
  /\ loop \in {"check", "late"}
  /\ \E p \in Outcomes : data' = Append(data, p)
  /\ loop' = "offer"
  /\ UNCHANGED <<iterations, tickVars, chanVars, callVars, runVars>>

(* Mutant: what is compared with the buffer is the points taken so far. *)
Offered_OnceFull == IF Len(data) <= Cap THEN Append(ch, Len(data)) ELSE ch

(* A full buffer drops the point. *)
Offered == IF Len(ch) < Cap THEN Append(ch, Len(data)) ELSE ch

(* Mutant: the send blocks. *)
Offer_Blocks ==
  /\ loop = "offer" /\ Len(ch) < Cap
  /\ ch' = Offered
  /\ readAt' = Append(readAt, Len(delivered))
  /\ iterations' = iterations + 1
  /\ loop' = "select"
  /\ UNCHANGED <<data, tickVars, chClosed, delivered, consumer, callVars,
                 runVars>>

Offer ==
  /\ loop = "offer"
  /\ ch' = Offered
  /\ readAt' = Append(readAt, Len(delivered))
  /\ iterations' = iterations + 1
  /\ loop' = "select"
  /\ UNCHANGED <<data, tickVars, chClosed, delivered, consumer, callVars,
                 runVars>>

(* The deferred calls, last first: running = false, then close(ch). *)
Unset ==
  /\ loop = "unset"
  /\ running' = FALSE
  /\ loop' = "close"
  /\ UNCHANGED <<iterations, data, tickVars, chanVars, stopped, report,
                 runVars>>

Close ==
  /\ loop = "close"
  /\ chClosed' = TRUE
  /\ loop' = "exited"
  /\ UNCHANGED <<iterations, data, tickVars, ch, delivered, readAt, consumer,
                 callVars, runVars>>

------------------------------------------------------------------------------
(* The callers. *)

Receive ==
  /\ consumer = "ranging" /\ ch # <<>>
  /\ delivered' = Append(delivered, Head(ch))
  /\ ch' = Tail(ch)
  /\ UNCHANGED <<loopVars, tickVars, chClosed, readAt, consumer, callVars,
                 runVars>>

(* The range ends when the channel is closed and empty. *)
EndWatch ==
  /\ consumer = "ranging" /\ ch = <<>> /\ chClosed
  /\ consumer' = "returned"
  /\ UNCHANGED <<loopVars, tickVars, ch, chClosed, delivered, readAt, callVars,
                 runVars>>

Result ==
  /\ report' = Summary(data)
  /\ UNCHANGED <<loopVars, tickVars, chanVars, running, stopped, runVars>>

(* close(m.done), if running, which is read without mu: the loop's last      *)
(* write may not be seen.  A second Stop while the loop runs would close it  *)
(* again and panic; nothing in the program calls Stop at all.                *)
Stop ==
  /\ ~stopped
  /\ stopped' \in {running, TRUE}
  /\ UNCHANGED <<loopVars, tickVars, chanVars, running, report, runVars>>

Cancel ==
  /\ ~ctxDone
  /\ ctxDone' = TRUE
  /\ UNCHANGED <<loopVars, tickVars, chanVars, callVars, monType, alive>>

(* The panic in ping's receiver. *)
Crash ==
  /\ monType = "ping"
  /\ loop \in {"check", "late"} \/ data # <<>>
  /\ alive' = FALSE
  /\ UNCHANGED <<loopVars, tickVars, chanVars, callVars, monType, ctxDone>>

Loop == Finished \/ SeeCancel \/ SeeTick \/ Check \/ Offer \/ Unset \/ Close
Consumer == Receive \/ EndWatch

Next ==
  \/ /\ alive
     /\ Fire \/ Loop \/ Consumer \/ Result \/ Stop \/ Cancel \/ Crash
  \/ ~alive /\ UNCHANGED vars

(* The ticker is a clock.  A select with both cases ready picks at random,   *)
(* so ctx is not passed over for ever: strong fairness.                      *)
LoopFairness ==
  /\ WF_vars(alive /\ Fire) /\ WF_vars(alive /\ Loop)
  /\ SF_vars(alive /\ SeeCancel)
ConsumerFairness == WF_vars(alive /\ Consumer)

(* Nobody need read the channel. *)
Spec == Init /\ [][Next]_vars /\ LoopFairness

------------------------------------------------------------------------------
(* Properties. *)

(* The points sent before point k that nobody had read when it was offered.  *)
Waiting(k, seen) ==
  Cardinality({j \in DOMAIN seen : seen[j] < k}) - readAt[k]

(* The consumer gets the data points in the order they were taken and none   *)
(* twice, and those that are missing are the ones that found the buffer      *)
(* full, so many points the consumer was behind, and no others               *)
(* (monitoring.go:90-98).                                                    *)
InOrder ==
  LET seen == delivered \o ch
  IN  /\ \A j, k \in 1..Len(seen) : j < k => seen[j] < seen[k]
      /\ ToSet(seen) = {k \in 1..Len(readAt) : Waiting(k, seen) < Cap}

(* A report adds up, whenever it is asked for: the latencies are in order    *)
(* if any check succeeded (monitoring.go:167-209).                           *)
ReportAddsUp ==
  /\ report.failures \in 0..report.total
  /\ report.total > report.failures =>
       report.min <= report.avg /\ report.avg <= report.max

(* A later report never forgets a check or a failure.                        *)
ReportsGrow ==
  [][/\ report'.total >= report.total
     /\ report'.failures >= report.failures]_report

(* A cancel ends the loop whether or not anybody reads the channel, and the  *)
(* range over it if its reader goes on reading, unless the process dies.     *)
CancelEndsWatch ==
  /\ ctxDone ~> (loop = "exited" /\ ~running) \/ ~alive
  /\ ConsumerFairness => (ctxDone ~> consumer = "returned" \/ ~alive)
=============================================================================
