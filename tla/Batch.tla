------------------------------- MODULE Batch -------------------------------
(***************************************************************************)
(* What a batch of probes promises its caller, whatever runs it: a scan of *)
(* ports (portscan.Scanner.Run, tcp.BatchCheck, udp.BatchCheck) or of hosts*)
(* (discover.Discoverer.Run).  Each job is reported at most once; the call *)
(* returns when every job has been reported, or earlier if the caller's    *)
(* context has been cancelled; and it does return.                         *)
(*                                                                         *)
(* Staffed is FALSE for a batch started with no worker at all: nothing     *)
(* validates --workers, and such a batch returns an empty report.          *)
(***************************************************************************)
EXTENDS Sequences

CONSTANTS
  Jobs,     \* what is to be probed
  Staffed   \* whether the batch has a worker

VARIABLES
  log,        \* the results reported so far, in order
  pending,    \* the jobs not reported yet
  cancelled,  \* the caller's context is done
  finished    \* the call has returned

batchVars == <<log, pending, cancelled, finished>>

Result == [job : Jobs, state : {"PROBED", "CANCELLED"}]

BatchInit ==
  /\ log = <<>>
  /\ pending = Jobs
  /\ cancelled = FALSE
  /\ finished = FALSE

(* A state that stands for "never probed" is reported only after a cancel. *)
Report(r) ==
  /\ ~finished
  /\ r.job \in pending
  /\ r.state = "CANCELLED" => cancelled
  /\ log' = Append(log, r)
  /\ pending' = pending \ {r.job}
  /\ UNCHANGED <<cancelled, finished>>

CancelBatch ==
  /\ ~cancelled
  /\ cancelled' = TRUE
  /\ UNCHANGED <<log, pending, finished>>

Finish ==
  /\ ~finished
  /\ pending = {} \/ cancelled \/ ~Staffed
  /\ finished' = TRUE
  /\ UNCHANGED <<log, pending, cancelled>>

ReportSome == \E r \in Result : Report(r)

BatchNext == ReportSome \/ CancelBatch \/ Finish

(* The safety half, and the promise that the call returns. *)
BatchSafety == BatchInit /\ [][BatchNext]_batchVars

BatchSpec ==
  /\ BatchSafety
  /\ WF_batchVars(ReportSome)
  /\ WF_batchVars(Finish)
=============================================================================
