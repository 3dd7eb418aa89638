-------------------------------- MODULE Ping --------------------------------
(***************************************************************************)
(* One ICMP ping, internal/ping Pinger.Run: the sending loop in the        *)
(* caller's goroutine, the receiving goroutine, the channel receiveDone    *)
(* that both of them close, and the caller's context, which every caller   *)
(* cancels after the call if not before.                                   *)
(*                                                                         *)
(* The socket is a raw ICMP socket: it sees every echo reply that reaches  *)
(* the machine, those to other pingers too.  The code does not look at the *)
(* ID of a reply, and takes its sequence number for its age: timeBase(seq) *)
(* is seq milliseconds ago, so the RTT it measures is seq milliseconds     *)
(* whenever the reply came.                                                *)
(***************************************************************************)
EXTENDS Integers, Sequences, FiniteSets

CONSTANTS
  Count,       \* echo requests to send (--count)
  Timeout,     \* the per-ping timeout, in milliseconds
  MaxForeign,  \* bound: replies to other pingers
  ForeignSeq   \* their sequence numbers

ASSUME PingAssumption ==
  Count \in Nat /\ Timeout \in Nat /\ MaxForeign \in Nat /\ ForeignSeq \in Nat

VARIABLES
  sender,      \* where Run is
  i,           \* the loop variable: the sequence number to send
  sent,        \* result.Sent
  receiver,    \* where the receiving goroutine is
  doneClosed,  \* receiveDone is closed
  rtts,        \* the replies recorded
  net,         \* replies to this pinger that are on their way or queued
  foreign,     \* replies to other pingers still to come
  ctxDone,     \* ctx is cancelled or its deadline has passed
  result,      \* what Run returned
  panicked     \* the process died in close(receiveDone)

senderVars == <<sender, i, sent, result>>
netVars == <<net, foreign>>
vars == <<senderVars, receiver, doneClosed, rtts, netVars, ctxDone, panicked>>

Reply == [own : BOOLEAN, seq : Nat]
NoResult == [received |-> -1, loss |-> 0, err |-> "nil"]

TypeOK ==
  /\ sender \in {"open", "loop", "sleep", "close", "report", "returned"}
  /\ i \in 0..Count
  /\ sent \in 0..Count
  /\ receiver \in {"unborn", "check", "read", "closing", "exited"}
  /\ doneClosed \in BOOLEAN
  /\ \A k \in 1..Len(rtts) : rtts[k] \in Reply
  /\ net \subseteq Reply
  /\ foreign \in 0..MaxForeign
  /\ ctxDone \in BOOLEAN
  /\ result.received \in -1..(Count + MaxForeign)
  /\ result.err \in {"nil", "open", "ctx"}
  /\ panicked \in BOOLEAN

Init ==
  /\ sender = "open" /\ i = 0 /\ sent = 0
  /\ receiver = "unborn"
  /\ doneClosed = FALSE
  /\ rtts = <<>>
  /\ net = {} /\ foreign = MaxForeign
  /\ ctxDone = FALSE
  /\ result = NoResult
  /\ panicked = FALSE

(* close(receiveDone): the second close of a channel panics. *)
CloseDone ==
  IF doneClosed THEN panicked' = TRUE /\ UNCHANGED doneClosed
                ELSE doneClosed' = TRUE /\ UNCHANGED panicked

(* processResult: 100% if nothing came back, (Sent - Received)/Sent if      *)
(* something was sent, and 0 if replies came back to nothing.               *)
Loss(s, r) ==
  CASE r = 0 -> 100
    [] r > 0 /\ s > 0 -> ((s - r) * 100) \div s
    [] OTHER -> 0

(* It reads rtts without mu while the receiver may be appending: it sees the *)
(* list as it is, or as it was at any moment before.                        *)
ProcessResult(err) ==
  /\ \E r \in 0..Len(rtts) :
       result' = [received |-> r, loss |-> Loss(sent, r), err |-> err]
  /\ sender' = "returned"

------------------------------------------------------------------------------
(* The sending loop. *)

Open ==
  /\ sender = "open"
  /\ sender' = "loop"
  /\ receiver' = "check"
  /\ UNCHANGED <<i, sent, result, doneClosed, rtts, netVars, ctxDone,
                 panicked>>

(* No such host, or no right to a raw socket: no goroutine is started. *)
OpenFails ==
  /\ sender = "open"
  /\ sender' = "returned"
  /\ result' = [NoResult EXCEPT !.err = "open"]
  /\ UNCHANGED <<i, sent, receiver, doneClosed, rtts, netVars, ctxDone,
                 panicked>>

(* A request goes out and may be answered at any later time, or never.      *)
Send ==
  /\ sender = "loop" /\ i < Count /\ ~ctxDone
  /\ sent' = sent + 1
  /\ sender' = "sleep"
  /\ \/ UNCHANGED net
     \/ net' = net \union {[own |-> TRUE, seq |-> i]}
  /\ UNCHANGED <<i, result, receiver, doneClosed, rtts, foreign, ctxDone,
                 panicked>>

(* WriteTo fails: the loop goes on at once, nothing counted as sent. *)
SendFails ==
  /\ sender = "loop" /\ i < Count /\ ~ctxDone
  /\ i' = i + 1
  /\ UNCHANGED <<sender, sent, result, receiver, doneClosed, rtts, netVars,
                 ctxDone, panicked>>

Wake ==
  /\ sender = "sleep"
  /\ sender' = "loop"
  /\ i' = i + 1
  /\ UNCHANGED <<sent, result, receiver, doneClosed, rtts, netVars, ctxDone,
                 panicked>>

(* Mutant: the early return forgets ctx.Err(). *)
ReturnCancelled_NilError ==
  /\ sender = "loop" /\ i < Count /\ ctxDone
  /\ ProcessResult("nil")
  /\ UNCHANGED <<i, sent, receiver, doneClosed, rtts, netVars, ctxDone,
                 panicked>>

(* The loop sees ctx done: partial result, ctx.Err(), and receiveDone is    *)
(* left to the receiver.                                                    *)
ReturnCancelled ==
  /\ sender = "loop" /\ i < Count /\ ctxDone
  /\ ProcessResult("ctx")
  /\ UNCHANGED <<i, sent, receiver, doneClosed, rtts, netVars, ctxDone,
                 panicked>>

(* The loop is over; 200ms later receiveDone is closed. *)
LoopEnds ==
  /\ sender = "loop" /\ i = Count
  /\ sender' = "close"
  /\ UNCHANGED <<i, sent, result, receiver, doneClosed, rtts, netVars, ctxDone,
                 panicked>>

SenderCloses ==
  /\ sender = "close"
  /\ CloseDone
  /\ sender' = "report"
  /\ UNCHANGED <<i, sent, result, receiver, rtts, netVars, ctxDone>>

Return ==
  /\ sender = "report"
  /\ ProcessResult("nil")
  /\ UNCHANGED <<i, sent, receiver, doneClosed, rtts, netVars, ctxDone,
                 panicked>>

(* Mutant: the receiver watches nothing. *)
ReceiverChecks_Never ==
  /\ receiver = "check"
  /\ receiver' = "read"
  /\ UNCHANGED <<senderVars, doneClosed, rtts, netVars, ctxDone, panicked>>

------------------------------------------------------------------------------
(* The receiving goroutine.  It never looks at receiveDone: only ctx ends it.*)

ReceiverChecks ==
  /\ receiver = "check"
  /\ receiver' = IF ctxDone THEN "closing" ELSE "read"
  /\ UNCHANGED <<senderVars, doneClosed, rtts, netVars, ctxDone, panicked>>

(* The RTT it computes is seq milliseconds: that is what timeout is held to. *)
Record(reply) == IF reply.seq < Timeout THEN Append(rtts, reply) ELSE rtts

(* The socket is closed when Run returns; until then a reply can be read.   *)
ReadOwn ==
  /\ receiver = "read" /\ sender # "returned"
  /\ \E reply \in net : rtts' = Record(reply) /\ net' = net \ {reply}
  /\ receiver' = "check"
  /\ UNCHANGED <<senderVars, doneClosed, foreign, ctxDone, panicked>>

ReadForeign ==
  /\ receiver = "read" /\ sender # "returned"
  /\ foreign > 0
  /\ foreign' = foreign - 1
  /\ rtts' = Record([own |-> FALSE, seq |-> ForeignSeq])
  /\ receiver' = "check"
  /\ UNCHANGED <<senderVars, doneClosed, net, ctxDone, panicked>>

(* Mutant: a failed read falls through and parses the last packet again. *)
ReadFails_ParsesAgain ==
  /\ receiver = "read" /\ Len(rtts) < Count + MaxForeign
  /\ receiver' = "check"
  /\ rtts' = IF rtts = <<>> THEN rtts ELSE Append(rtts, rtts[Len(rtts)])
  /\ UNCHANGED <<senderVars, doneClosed, netVars, ctxDone, panicked>>

(* 100ms without a packet, a packet that is no echo reply, or a closed      *)
(* socket: the loop goes round.                                             *)
ReadFails ==
  /\ receiver = "read"
  /\ receiver' = "check"
  /\ UNCHANGED <<senderVars, doneClosed, rtts, netVars, ctxDone, panicked>>

(* defer close(receiveDone). *)
ReceiverCloses ==
  /\ receiver = "closing"
  /\ CloseDone
  /\ receiver' = "exited"
  /\ UNCHANGED <<senderVars, rtts, netVars, ctxDone>>

(* A signal or a deadline during the call, the deferred cancel after it. *)
Cancel ==
  /\ ~ctxDone
  /\ ctxDone' = TRUE
  /\ UNCHANGED <<senderVars, receiver, doneClosed, rtts, netVars, panicked>>

Sender == Open \/ OpenFails \/ Send \/ SendFails \/ Wake \/ ReturnCancelled
          \/ LoopEnds \/ SenderCloses \/ Return

Receiver == ReceiverChecks \/ ReadOwn \/ ReadForeign \/ ReadFails
            \/ ReceiverCloses

Over ==
  panicked \/ (sender = "returned" /\ receiver \in {"unborn", "exited"})

Next == \/ ~panicked /\ (Sender \/ Receiver \/ Cancel)
        \/ Over /\ UNCHANGED vars

(* Both goroutines run; the caller's deferred cancel runs once Run returns. *)
Fairness ==
  /\ WF_vars(~panicked /\ Sender)
  /\ WF_vars(~panicked /\ Receiver)
  /\ WF_vars(~panicked /\ sender = "returned" /\ Cancel)

Spec == Init /\ [][Next]_vars /\ Fairness

------------------------------------------------------------------------------
(* Properties. *)

(* A nil error means the whole count was attempted; an early return says    *)
(* so: ping.go:119-124, 162.                                                *)
ErrTellsTheTruth ==
  sender = "returned" =>
    CASE result.err = "nil" -> i = Count
      [] result.err = "ctx" -> ctxDone /\ i < Count
      [] result.err = "open" -> receiver = "unborn"

(* What the counts say is right as long as no other pinger's reply has been *)
(* read: no reply is counted twice, there are no more of them than requests *)
(* sent, and the loss is a percentage (ping.go:110-115, 169-200).           *)
CountsAreSane ==
  foreign = MaxForeign =>
    /\ \A j, k \in 1..Len(rtts) : rtts[j].seq = rtts[k].seq => j = k
    /\ Len(rtts) <= sent
    /\ sender = "returned" => result.loss \in 0..100

(* Run returns, and the receiver does not outlive the caller's cancel, unless*)
(* the process dies first (ping.go:75-83, 126-162).                         *)
BothEnd ==
  <>(panicked \/ (sender = "returned" /\ receiver \in {"unborn", "exited"}))

(* Closing receiveDone never kills the process: README.md:109 promises      *)
(* "Context-aware cancellation" and docs/developer-guide.md:125 "Implement  *)
(* context cancellation for graceful shutdown".                             *)
GracefulCancel == ~panicked
=============================================================================
