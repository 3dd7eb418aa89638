----------------------------- MODULE WorkerPool -----------------------------
(***************************************************************************)
(* The worker pool behind every batch of probes.  internal/portscan,       *)
(* internal/tcp (BatchCheck), internal/udp (BatchCheck) and                *)
(* internal/discover each write the same program: a buffered channel of    *)
(* jobs, a number of workers that range over it, a buffered channel of     *)
(* results, a WaitGroup, a goroutine that closes the results once the      *)
(* workers are done, and the caller collecting until the close.            *)
(*                                                                         *)
(* A job is its position in the list handed to the pool, so a list that    *)
(* names a port twice still has distinct jobs.  A channel is a log and its *)
(* counters: jobs taken+1 .. fed are in portCh, and entries got+1 ..       *)
(* Len(sent) of the log are in resultCh.                                   *)
(***************************************************************************)
EXTENDS Integers, Sequences, FiniteSets

CONSTANTS
  Workers,   \* the goroutines the pool starts; --workers is not validated
  NumJobs    \* the length of the list of ports or addresses

ASSUME PoolAssumption == IsFiniteSet(Workers) /\ NumJobs \in Nat

VARIABLES
  main,        \* where the calling goroutine is
  pc,          \* where each worker is
  hand,        \* the job a worker took from portCh, 0 if none
  found,       \* the state its checker returned, until it is sent
  wg,          \* the workers added to the WaitGroup and not done
  fed, taken,  \* jobs sent to and received from portCh
  jobsClosed,  \* portCh is closed
  sent,        \* every result sent to resultCh, in order
  got,         \* how many of them the caller has received
  closer,      \* the goroutine that closes resultCh
  cancelled,   \* ctx is done
  atCancel     \* history: Len(sent) when ctx was cancelled

workerVars == <<pc, hand, found, wg>>
jobVars == <<fed, taken, jobsClosed>>
resultVars == <<sent, got, closer>>
ctxVars == <<cancelled, atCancel>>
vars == <<main, workerVars, jobVars, resultVars, ctxVars>>

Jobs == 1..NumJobs
State == {"PROBED", "CANCELLED"}
Result == [job : Jobs, state : State]

(* The buffers hold the whole batch. *)
PortCap == NumJobs
ResultCap == NumJobs

TypeOK ==
  /\ main \in {"spawn", "feed", "collect", "returned"}
  /\ pc \in [Workers -> {"unborn", "recv", "check", "probe", "send", "exited"}]
  /\ hand \in [Workers -> 0..NumJobs]
  /\ found \in [Workers -> State \union {"NONE"}]
  /\ wg \in SUBSET Workers
  /\ fed \in 0..NumJobs
  /\ taken \in 0..NumJobs
  /\ jobsClosed \in BOOLEAN
  /\ sent \in Seq(Result)
  /\ got \in Nat
  /\ closer \in {"unborn", "waiting", "closed"}
  /\ cancelled \in BOOLEAN
  /\ atCancel \in Nat

Init ==
  /\ main = "spawn"
  /\ pc = [w \in Workers |-> "unborn"]
  /\ hand = [w \in Workers |-> 0]
  /\ found = [w \in Workers |-> "NONE"]
  /\ wg = {}
  /\ fed = 0
  /\ taken = 0
  /\ jobsClosed = FALSE
  /\ sent = <<>>
  /\ got = 0
  /\ closer = "unborn"
  /\ cancelled = FALSE
  /\ atCancel = 0

------------------------------------------------------------------------------
(* The calling goroutine. *)

(* wg.Add(1) before the go statement. *)
Spawn(w) ==
  /\ main = "spawn"
  /\ pc[w] = "unborn"
  /\ wg' = wg \union {w}
  /\ pc' = [pc EXCEPT ![w] = "recv"]
  /\ UNCHANGED <<main, hand, found, jobVars, resultVars, ctxVars>>

SpawnDone ==
  /\ main = "spawn"
  /\ \A w \in Workers : pc[w] # "unborn"
  /\ main' = "feed"
  /\ UNCHANGED <<workerVars, jobVars, resultVars, ctxVars>>

(* portCh <- port: blocks while the buffer is full. *)
Feed ==
  /\ main = "feed"
  /\ fed < NumJobs
  /\ fed - taken < PortCap
  /\ fed' = fed + 1
  /\ UNCHANGED <<main, workerVars, taken, jobsClosed, resultVars, ctxVars>>

(* Mutant: portCh is never closed. *)
CloseJobs_LeftOpen ==
  /\ main = "feed"
  /\ fed = NumJobs
  /\ closer' = "waiting"
  /\ main' = "collect"
  /\ UNCHANGED <<workerVars, jobVars, sent, got, ctxVars>>

(* close(portCh), then the goroutine that waits for the workers. *)
CloseJobs ==
  /\ main = "feed"
  /\ fed = NumJobs
  /\ jobsClosed' = TRUE
  /\ closer' = "waiting"
  /\ main' = "collect"
  /\ UNCHANGED <<workerVars, fed, taken, sent, got, ctxVars>>

Collect ==
  /\ main = "collect"
  /\ got < Len(sent)
  /\ got' = got + 1
  /\ UNCHANGED <<main, workerVars, jobVars, sent, closer, ctxVars>>

(* Mutant: an empty resultCh is taken for the end. *)
Return_WhenEmpty ==
  /\ main = "collect"
  /\ got = Len(sent)
  /\ main' = "returned"
  /\ UNCHANGED <<workerVars, jobVars, resultVars, ctxVars>>

(* The range over resultCh ends when it is closed and drained. *)
Return ==
  /\ main = "collect"
  /\ closer = "closed"
  /\ got = Len(sent)
  /\ main' = "returned"
  /\ UNCHANGED <<workerVars, jobVars, resultVars, ctxVars>>

------------------------------------------------------------------------------
(* A worker. *)

Exit(w) ==
  /\ pc' = [pc EXCEPT ![w] = "exited"]
  /\ wg' = wg \ {w}

Take(w) ==
  /\ pc[w] = "recv"
  /\ taken < fed
  /\ taken' = taken + 1
  /\ hand' = [hand EXCEPT ![w] = taken + 1]
  /\ pc' = [pc EXCEPT ![w] = "check"]
  /\ UNCHANGED <<main, found, wg, fed, jobsClosed, resultVars, ctxVars>>

(* The range over portCh ends when it is closed and drained. *)
Drain(w) ==
  /\ pc[w] = "recv"
  /\ jobsClosed
  /\ taken = fed
  /\ Exit(w)
  /\ UNCHANGED <<main, hand, found, jobVars, resultVars, ctxVars>>

(* case <-ctx.Done(): the worker leaves and the job it holds is dropped. *)
Abandon(w) ==
  /\ pc[w] = "check"
  /\ cancelled
  /\ Exit(w)
  /\ hand' = [hand EXCEPT ![w] = 0]
  /\ UNCHANGED <<main, found, jobVars, resultVars, ctxVars>>

(* Mutant: the worker does not look at ctx. *)
StartProbe_IgnoresCtx(w) ==
  /\ pc[w] = "check"
  /\ pc' = [pc EXCEPT ![w] = "probe"]
  /\ UNCHANGED <<main, hand, found, wg, jobVars, resultVars, ctxVars>>

StartProbe(w) ==
  /\ pc[w] = "check"
  /\ ~cancelled
  /\ pc' = [pc EXCEPT ![w] = "probe"]
  /\ UNCHANGED <<main, hand, found, wg, jobVars, resultVars, ctxVars>>

(* Mutant: a slow probe is reported as one that was never made. *)
Outcome_Any == State

(* The dial, exchange or lookup ends, by its own timeout at the latest; ctx  *)
(* does not interrupt it.  A checker that finds ctx done reports TIMEOUT     *)
(* (tcp) or FILTERED (udp) in place of what it would have found: CANCELLED.  *)
Outcome == IF cancelled THEN State ELSE {"PROBED"}

EndProbe(w) ==
  /\ pc[w] = "probe"
  /\ \E s \in Outcome : found' = [found EXCEPT ![w] = s]
  /\ pc' = [pc EXCEPT ![w] = "send"]
  /\ UNCHANGED <<main, hand, wg, jobVars, resultVars, ctxVars>>

(* Mutant: the worker falls through after a first send and sends again. *)
SendResult_Twice(w) ==
  /\ pc[w] = "send"
  /\ Len(sent) - got < ResultCap
  /\ sent' = Append(sent, [job |-> hand[w], state |-> found[w]])
  /\ \/ UNCHANGED workerVars
     \/ /\ hand' = [hand EXCEPT ![w] = 0]
        /\ found' = [found EXCEPT ![w] = "NONE"]
        /\ pc' = [pc EXCEPT ![w] = "recv"]
        /\ UNCHANGED wg
  /\ UNCHANGED <<main, jobVars, got, closer, ctxVars>>

SendResult(w) ==
  /\ pc[w] = "send"
  /\ Len(sent) - got < ResultCap
  /\ sent' = Append(sent, [job |-> hand[w], state |-> found[w]])
  /\ hand' = [hand EXCEPT ![w] = 0]
  /\ found' = [found EXCEPT ![w] = "NONE"]
  /\ pc' = [pc EXCEPT ![w] = "recv"]
  /\ UNCHANGED <<main, wg, jobVars, got, closer, ctxVars>>

(* Mutant: resultCh is closed without waiting for the workers. *)
CloseResults_Early ==
  /\ closer = "waiting"
  /\ closer' = "closed"
  /\ UNCHANGED <<main, workerVars, jobVars, sent, got, ctxVars>>

------------------------------------------------------------------------------
(* wg.Wait(); close(resultCh). *)
CloseResults ==
  /\ closer = "waiting"
  /\ wg = {}
  /\ closer' = "closed"
  /\ UNCHANGED <<main, workerVars, jobVars, sent, got, ctxVars>>

(* SIGINT, a deadline, or the caller's deferred cancel. *)
Cancel ==
  /\ ~cancelled
  /\ cancelled' = TRUE
  /\ atCancel' = Len(sent)
  /\ UNCHANGED <<main, workerVars, jobVars, resultVars>>

Main == (\E w \in Workers : Spawn(w)) \/ SpawnDone \/ Feed \/ CloseJobs
        \/ Collect \/ Return

Worker(w) == Take(w) \/ Drain(w) \/ Abandon(w) \/ StartProbe(w) \/ EndProbe(w)
             \/ SendResult(w)

(* The call is over; ctx may still be cancelled. *)
Done == main = "returned" /\ UNCHANGED vars

Next == \/ Main
        \/ \E w \in Workers : Worker(w)
        \/ CloseResults
        \/ Cancel
        \/ Done

(* The Go scheduler runs every runnable goroutine, and every probe ends by  *)
(* its timeout.  Nobody has to cancel.                                      *)
Fairness ==
  /\ WF_vars(Main)
  /\ \A w \in Workers : WF_vars(Worker(w))
  /\ WF_vars(CloseResults)

SafeSpec == Init /\ [][Next]_vars
Spec == SafeSpec /\ Fairness

------------------------------------------------------------------------------
(* Properties. *)

Busy == {w \in Workers : pc[w] \in {"check", "probe", "send"}}
Probing == {w \in Workers : pc[w] \in {"probe", "send"}}

(* No job is ever reported twice, and no worker holds a job that has been   *)
(* reported or that another worker holds: portscan.go:90-120.               *)
AtMostOnce ==
  /\ \A i, j \in 1..Len(sent) : sent[i].job = sent[j].job => i = j
  /\ \A v, w \in Busy : hand[v] = hand[w] => v = w
  /\ \A w \in Busy, i \in 1..Len(sent) : sent[i].job # hand[w]

(* A worker that is about to send finds resultCh open (a send on a closed   *)
(* channel panics) and with room: the buffers make every send immediate, so *)
(* no worker waits on the collector and no job waits on a worker that left  *)
(* (portscan.go:82-83, 124-132).                                            *)
SendSafe ==
  \A w \in Workers : pc[w] = "send" => /\ closer # "closed"
                                       /\ Len(sent) - got < ResultCap

(* A batch that returns without having been cancelled has probed and        *)
(* reported every job, unless it had no worker: portscan.go:134-147.        *)
CompleteUnlessCancelled ==
  (main = "returned" /\ ~cancelled /\ Workers # {}) =>
     /\ {sent[i].job : i \in 1..Len(sent)} = Jobs
     /\ \A i \in 1..Len(sent) : sent[i].state = "PROBED"

(* After a cancel each worker completes at most the probe it has begun: the *)
(* pool sends at most one more result per worker (portscan.go:91-95).       *)
PromptStop ==
  cancelled =>
    (Len(sent) - atCancel) + Cardinality(Probing) <= Cardinality(Workers)

(* The call returns, cancelled or not, and leaves no goroutine behind.      *)
NoLeak ==
  <>[](main = "returned" /\ closer = "closed"
       /\ \A w \in Workers : pc[w] = "exited")

(* The pool implements the abstract batch: a result counts as reported when *)
(* a worker sends it.                                                       *)
Unreported == Jobs \ {sent[i].job : i \in 1..Len(sent)}

Abstract == INSTANCE Batch WITH
  log <- sent, pending <- Unreported, cancelled <- cancelled,
  finished <- (main = "returned"), Jobs <- Jobs, Staffed <- (Workers # {})

ImplementsBatch == Abstract!BatchSpec
=============================================================================
