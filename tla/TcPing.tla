------------------------------- MODULE TcPing -------------------------------
(***************************************************************************)
(* runTCPing (cmd/netcheck): one TCP probe per tick until Ctrl+C, then a   *)
(* summary.  A goroutine turns ctx.Done into the closing of a channel of   *)
(* its own, and the loop selects between that channel and the ticker.      *)
(*                                                                         *)
(* Latencies are whole units.  The loop itself never ends, so its counters *)
(* are bounded by counting no probe beyond the first MaxCounted; what the  *)
(* loop decides from them (total > 0, success = 0) is not affected.        *)
(***************************************************************************)
EXTENDS Context, Samples

CONSTANTS
  RoundTrips,  \* of a connection that is accepted
  MaxCounted   \* bound: the probes that are counted

ASSUME TcPingAssumption ==
  /\ IsFiniteSet(RoundTrips)
  /\ RoundTrips \subseteq Nat \ {0}
  /\ MaxCounted \in Nat \ {0}

VARIABLES
  tcping,                  \* where the loop is
  ticks,                   \* ticks in ticker.C, whose buffer holds one
  doneClosed,              \* the channel done is closed
  total, success, fail,
  minLat, maxLat, totalLat,
  summary,                 \* what has been printed at the end
  rtts                     \* history: the latencies counted

counters == <<total, success, fail, minLat, maxLat, totalLat>>
stopVars == <<ctxDone, doneClosed>>
tcPingVars == <<tcping, ticks, doneClosed, counters, summary, rtts>>

NoSummary == [printed |-> FALSE]

TcPingTypeOK ==
  /\ tcping \in {"select", "dial", "returned", "panicked"}
  /\ ticks \in 0..1
  /\ doneClosed \in BOOLEAN
  /\ total \in 0..MaxCounted
  /\ success \in 0..MaxCounted
  /\ fail \in 0..MaxCounted
  /\ {minLat, maxLat} \subseteq RoundTrips \union {0}
  /\ totalLat \in Nat
  /\ summary = NoSummary \/ summary.printed
  /\ rtts \in Seq(RoundTrips)

TcPingInit ==
  /\ tcping = "select"
  /\ ticks = 0
  /\ doneClosed = FALSE
  /\ total = 0 /\ success = 0 /\ fail = 0
  /\ minLat = 0 /\ maxLat = 0 /\ totalLat = 0
  /\ summary = NoSummary
  /\ rtts = <<>>

------------------------------------------------------------------------------
TcPingRunning == tcping \in {"select", "dial"}

(* A tick that finds the last one still there is dropped. *)
Tick ==
  /\ TcPingRunning
  /\ ticks' = 1
  /\ UNCHANGED <<tcping, stopVars, counters, summary, rtts>>

(* The goroutine: <-ctx.Done(); close(done). *)
CloseDone ==
  /\ ctxDone
  /\ ~doneClosed
  /\ doneClosed' = TRUE
  /\ UNCHANGED <<tcping, ticks, ctxDone, counters, summary, rtts>>

SelectTick ==
  /\ tcping = "select"
  /\ ticks = 1
  /\ ticks' = 0
  /\ tcping' = "dial"
  /\ UNCHANGED <<stopVars, counters, summary, rtts>>

Counted == total < MaxCounted

(* net.DialTimeout gives up after 5 seconds; ctx does not interrupt it. *)
DialFails ==
  /\ tcping = "dial"
  /\ tcping' = "select"
  /\ IF Counted
     THEN total' = total + 1 /\ fail' = fail + 1
     ELSE UNCHANGED <<total, fail>>
  /\ UNCHANGED <<ticks, stopVars, success, minLat, maxLat, totalLat, summary,
                 rtts>>

(* Mutant: the minimum starts from zero and not from the first latency. *)
CountLatency_FromZero(lat) ==
  /\ minLat' = Min({minLat, lat})
  /\ maxLat' = Max({maxLat, lat})
  /\ totalLat' = totalLat + lat

CountLatency(lat) ==
  /\ minLat' = IF success = 0 THEN lat ELSE Min({minLat, lat})
  /\ maxLat' = IF success = 0 THEN lat ELSE Max({maxLat, lat})
  /\ totalLat' = totalLat + lat

DialSucceeds(lat) ==
  /\ tcping = "dial"
  /\ tcping' = "select"
  /\ IF Counted
     THEN /\ total' = total + 1
          /\ success' = success + 1
          /\ CountLatency(lat)
          /\ rtts' = Append(rtts, lat)
     ELSE UNCHANGED <<total, success, minLat, maxLat, totalLat, rtts>>
  /\ UNCHANGED <<ticks, stopVars, fail, summary>>

(* The summary; "rtt min/avg/max" only when success > 0. *)
Summary ==
  [printed |-> TRUE, total |-> total, success |-> success, fail |-> fail,
   min |-> minLat, avg |-> totalLat \div success, max |-> maxLat]

(* Mutant: "break", which leaves the select and not the loop. *)
SelectDone_Break ==
  /\ tcping = "select"
  /\ doneClosed
  /\ UNCHANGED <<tcPingVars, ctxDone>>

(* case <-done.  The average is computed before success is looked at, and   *)
(* an integer division by zero panics.                                      *)
SelectDone ==
  /\ tcping = "select"
  /\ doneClosed
  /\ \/ total = 0 /\ tcping' = "returned" /\ UNCHANGED summary
     \/ total > 0 /\ success = 0 /\ tcping' = "panicked" /\ UNCHANGED summary
     \/ success > 0 /\ tcping' = "returned" /\ summary' = Summary
  /\ UNCHANGED <<ticks, stopVars, counters, rtts>>

DialEnds == DialFails \/ \E lat \in RoundTrips : DialSucceeds(lat)

(* A select with several ready cases picks one at random: what else is ready *)
(* when done is closed is a Tick, a SelectTick or the end of a dial.         *)
TcPingGoesOn == Tick \/ SelectTick \/ DialEnds

TcPingStep == CloseDone \/ TcPingGoesOn \/ SelectDone

(* A run of its own, for what is proved of it. *)
TcPingSpec ==
  /\ TcPingInit /\ ContextInit
  /\ [][TcPingStep \/ (Cancel /\ UNCHANGED tcPingVars)]_<<tcPingVars, ctxDone>>

------------------------------------------------------------------------------
(* Properties. *)

(* A printed summary is the summary of the probes made: the counts add up   *)
(* and the three latencies are those of the accepted ones, whichever came   *)
(* first and whatever failed in between (main.go:263-271, 287-300).         *)
SummaryIsTrue ==
  summary.printed =>
    /\ summary.total = summary.success + summary.fail
    /\ summary.success = Len(rtts)
    /\ summary.min = Min(ToSet(rtts))
    /\ summary.max = Max(ToSet(rtts))
    /\ summary.avg = Mean(rtts)
=============================================================================
