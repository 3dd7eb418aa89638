------------------------------ MODULE TcpCheck ------------------------------
(***************************************************************************)
(* One TCP port check, internal/tcp Checker.Run: count dials, each in a    *)
(* goroutine that the loop waits for before it starts the next, a latency  *)
(* of 0 standing for a dial that failed, and a verdict over the latencies. *)
(* The outcome of a dial is the environment's: within the timeout, refused *)
(* at once, or unanswered until the timeout.                               *)
(***************************************************************************)
EXTENDS Context, Samples

CONSTANTS
  TcpCount,      \* dials per check (--count)
  TcpTimeout,    \* of each dial
  TcpLatencies   \* bound: the latencies of dials that succeed

(* The clock is fine enough for a successful dial to take some time. *)
ASSUME TcpAssumption ==
  /\ TcpCount \in Nat /\ TcpTimeout \in Nat \ {0}
  /\ TcpLatencies \subseteq 1..TcpTimeout

VARIABLES
  tcp,        \* where Run is: "loop", "wait" or "done"
  dialled,    \* dials started
  dials,      \* those in flight: the goroutines in the WaitGroup
  latencies,  \* what they appended
  outcomes,   \* history: how each dial really ended
  tcpResult

tcpVars == <<tcp, dialled, dials, latencies, outcomes, tcpResult>>

TcpNoResult ==
  [state |-> "none", samples |-> 0, min |-> 0, avg |-> 0, max |-> 0]

TcpTypeOK ==
  /\ tcp \in {"loop", "wait", "done"}
  /\ dialled \in 0..TcpCount
  /\ dials \in SUBSET (1..TcpCount)
  /\ latencies \in Seq(TcpLatencies \union {0}) /\ Len(latencies) <= dialled
  /\ outcomes \in Seq({"open", "refused", "unanswered"})
  /\ tcpResult.state \in {"none", "OPEN", "CLOSED", "TIMEOUT"}

TcpInit ==
  /\ tcp = "loop" /\ dialled = 0 /\ dials = {}
  /\ latencies = <<>> /\ outcomes = <<>>
  /\ tcpResult = TcpNoResult

(* The samples of the verdict are the latencies that are not 0, and Min      *)
(* starts at the timeout.                                                    *)
TcpValid == Keep(latencies, Nat \ {0})

TcpVerdict ==
  IF latencies = <<>> THEN [TcpNoResult EXCEPT !.state = "TIMEOUT"]
  ELSE IF TcpValid = <<>>
       THEN [TcpNoResult EXCEPT !.state = "CLOSED", !.min = TcpTimeout]
  ELSE [state |-> "OPEN", samples |-> Len(TcpValid),
        min |-> Min(ToSet(TcpValid) \union {TcpTimeout}),
        avg |-> Mean(TcpValid),
        max |-> Max(ToSet(TcpValid))]

(* ctx is seen between two dials; what was measured so far is dropped. *)
TcpGiveUp ==
  /\ tcp = "loop" /\ dialled < TcpCount /\ ctxDone
  /\ tcpResult' = [TcpNoResult EXCEPT !.state = "TIMEOUT"]
  /\ tcp' = "done"
  /\ UNCHANGED <<dialled, dials, latencies, outcomes, ctxDone>>

(* Mutants: i <= c.count, and a loop that does not wait for the dial. *)
TcpDial_OneTooMany ==
  /\ tcp = "loop" /\ dialled <= TcpCount /\ ~ctxDone
  /\ dialled' = dialled + 1
  /\ dials' = dials \union {dialled + 1}
  /\ tcp' = "wait"
  /\ UNCHANGED <<latencies, outcomes, tcpResult, ctxDone>>

TcpDial_NoWait ==
  /\ tcp = "loop" /\ dialled < TcpCount /\ ~ctxDone
  /\ dialled' = dialled + 1
  /\ dials' = dials \union {dialled + 1}
  /\ UNCHANGED <<tcp, latencies, outcomes, tcpResult, ctxDone>>

TcpDial ==
  /\ tcp = "loop" /\ dialled < TcpCount /\ ~ctxDone
  /\ dialled' = dialled + 1
  /\ dials' = dials \union {dialled + 1}
  /\ tcp' = "wait"
  /\ UNCHANGED <<latencies, outcomes, tcpResult, ctxDone>>

(* The goroutine of dial d, then wg.Done.  ctx does not end a dial. *)
TcpDialEnds(d) ==
  /\ \/ /\ \E l \in TcpLatencies : latencies' = Append(latencies, l)
        /\ outcomes' = Append(outcomes, "open")
     \/ /\ latencies' = Append(latencies, 0)
        /\ \E o \in {"refused", "unanswered"} : outcomes' = Append(outcomes, o)
  /\ dials' = dials \ {d}
  /\ UNCHANGED <<tcp, dialled, tcpResult, ctxDone>>

(* wg.Wait() *)
TcpWaited ==
  /\ tcp = "wait" /\ dials = {}
  /\ tcp' = "loop"
  /\ UNCHANGED <<dialled, dials, latencies, outcomes, tcpResult, ctxDone>>

TcpJudge ==
  /\ tcp = "loop" /\ dialled = TcpCount
  /\ tcpResult' = TcpVerdict
  /\ tcp' = "done"
  /\ UNCHANGED <<dialled, dials, latencies, outcomes, ctxDone>>

TcpRun == TcpGiveUp \/ TcpDial \/ TcpWaited \/ TcpJudge
TcpDialling == \E d \in dials : TcpDialEnds(d)

TcpStep == TcpRun \/ TcpDialling

(* A run of its own, for what is proved of it. *)
TcpSpec ==
  /\ TcpInit /\ ContextInit
  /\ [][TcpStep \/ (Cancel /\ UNCHANGED tcpVars)]_<<tcpVars, ctxDone>>

------------------------------------------------------------------------------
(* Properties. *)

(* The verdict is about all of the dials: none is still out when it is made, *)
(* one success makes it OPEN unless ctx cut the check short, it is OPEN on no*)
(* other ground, and its statistics are in order and over as many samples as *)
(* dials succeeded (tcp.go:59-122).                                          *)
VerdictIsWhole ==
  tcp = "done" =>
    LET opens == Keep(outcomes, {"open"})
    IN  /\ dials = {}
        /\ ~ctxDone => Len(outcomes) = TcpCount
        /\ tcpResult.state = "OPEN" => opens # <<>>
        /\ tcpResult.state # "OPEN" /\ ~ctxDone => opens = <<>>
        /\ tcpResult.state = "OPEN" =>
             /\ tcpResult.samples = Len(opens)
             /\ tcpResult.min <= tcpResult.avg
             /\ tcpResult.avg <= tcpResult.max
=============================================================================
