------------------------------ MODULE UdpCheck ------------------------------
(***************************************************************************)
(* One UDP port check, internal/udp Checker.Run: a probe is sent, and the  *)
(* verdict is whichever comes first of the reading goroutine's message,    *)
(* the ICMP listener's, the timer and ctx.                                 *)
(*                                                                         *)
(* The reader's message carries the error of conn.Read, which Run does not *)
(* look at.  The listener compares the port with bytes 2-3 of the packet   *)
(* quoted in the ICMP message: the total length of an IPv4 packet.         *)
(***************************************************************************)
EXTENDS Naturals

CONSTANTS
  Ports,      \* ports to check, one per behaviour
  MaxForeign, \* bound: ICMP unreachables meant for other programs
  ForeignLen  \* the total length they quote

ASSUME UdpAssumption ==
  Ports \subseteq 1..65535 /\ MaxForeign \in Nat /\ ForeignLen \in Nat

VARIABLES
  port,
  peer,       \* what is at the port: it "answers", "refuses", or is "silent"
  run,        \* where Run is
  state,      \* result.State
  reader,     \* the goroutine in conn.Read
  readCh,     \* its channel: "empty", "reply" or "error"
  listener,   \* the ICMP goroutine
  icmpCh,     \* its channel holds a message
  net,        \* what the probe brought back, not yet noticed by everyone
  foreign,    \* unreachables for others still to come
  readDue,    \* the read deadline has passed
  timerDue,   \* time.After has fired
  ctxDone

procVars == <<run, state, reader, readCh, listener, icmpCh>>
envVars == <<port, peer, net, foreign, readDue, timerDue, ctxDone>>
vars == <<procVars, envVars>>

(* How long the probe's payload by DetectProtocol may be: a syslog line holds*)
(* the local time, whose zone is "Z" or an offset.                           *)
ProbeLens(p) ==
  CASE p = 53 -> {27} [] p = 123 -> {48} [] p = 161 -> {40}
    [] p = 514 -> {55, 60} [] OTHER -> {18}

(* The IPv4 packet around it. *)
TotalLens(p) == {20 + 8 + len : len \in ProbeLens(p)}

TypeOK ==
  /\ port \in Ports
  /\ peer \in {"answers", "refuses", "silent"}
  /\ run \in {"dial", "listen", "write", "wait", "done"}
  /\ state \in {"none", "OPEN", "CLOSED", "FILTERED", "OPEN_OR_FILTERED"}
  /\ run = "done" => state # "none"
  /\ reader \in {"unborn", "reading", "exited"}
  /\ readCh \in {"empty", "reply", "error"}
  /\ listener \in {"unborn", "check", "read", "exited"}
  /\ icmpCh \in BOOLEAN
  /\ net \subseteq {"reply", "refusal", "unreachable"}
  /\ foreign \in 0..MaxForeign
  /\ readDue \in BOOLEAN /\ timerDue \in BOOLEAN /\ ctxDone \in BOOLEAN

Init ==
  /\ port \in Ports
  /\ peer \in {"answers", "refuses", "silent"}
  /\ run = "dial" /\ state = "none"
  /\ reader = "unborn" /\ readCh = "empty"
  /\ listener = "unborn" /\ icmpCh = FALSE
  /\ net = {} /\ foreign = MaxForeign
  /\ readDue = FALSE /\ timerDue = FALSE /\ ctxDone = FALSE

Verdict(s) == state' = s /\ run' = "done"

------------------------------------------------------------------------------
(* Run *)

Dial ==
  /\ run = "dial"
  /\ \/ run' = "listen" /\ UNCHANGED state
     \/ Verdict("FILTERED")
  /\ UNCHANGED <<reader, readCh, listener, icmpCh, envVars>>

(* Without the right to a raw socket there is no listener. *)
Listen ==
  /\ run = "listen"
  /\ run' = "write"
  /\ listener' \in {"unborn", "check"}
  /\ UNCHANGED <<state, reader, readCh, icmpCh, envVars>>

WriteFails ==
  /\ run = "write"
  /\ Verdict("FILTERED")
  /\ UNCHANGED <<reader, readCh, listener, icmpCh, envVars>>

(* The probe goes out and the reader starts.  An unreachable comes to the   *)
(* connected socket as a refusal and to the raw socket as it is.            *)
Write ==
  /\ run = "write"
  /\ run' = "wait"
  /\ reader' = "reading"
  /\ net' \in {{}, CASE peer = "answers" -> {"reply"}
                     [] peer = "refuses" -> {"refusal", "unreachable"}
                     [] peer = "silent" -> {}}
  /\ UNCHANGED <<state, readCh, listener, icmpCh, port, peer, foreign, readDue,
                 timerDue, ctxDone>>

(* Mutant: a closed port is filtered. *)
SelectIcmp_Filtered ==
  /\ icmpCh /\ icmpCh' = FALSE
  /\ Verdict("FILTERED") /\ UNCHANGED readCh

(* The cases of the select: any that is ready. *)
SelectRead ==
  /\ readCh # "empty" /\ readCh' = "empty"
  /\ Verdict("OPEN") /\ UNCHANGED icmpCh

SelectIcmp ==
  /\ icmpCh /\ icmpCh' = FALSE
  /\ Verdict("CLOSED") /\ UNCHANGED readCh

SelectTimer ==
  /\ timerDue
  /\ Verdict("OPEN_OR_FILTERED") /\ UNCHANGED <<readCh, icmpCh>>

SelectCtx ==
  /\ ctxDone
  /\ Verdict("FILTERED") /\ UNCHANGED <<readCh, icmpCh>>

Select ==
  /\ run = "wait"
  /\ SelectRead \/ SelectIcmp \/ SelectTimer \/ SelectCtx
  /\ UNCHANGED <<reader, listener, envVars>>

------------------------------------------------------------------------------
(* The reading goroutine: one Read, one message into a buffer of one. *)

ReaderDone(msg) ==
  /\ reader = "reading"
  /\ readCh' = msg
  /\ reader' = "exited"

ReadReply ==
  /\ "reply" \in net /\ run # "done"
  /\ ReaderDone("reply")
  /\ net' = net \ {"reply"}
  /\ UNCHANGED <<run, state, listener, icmpCh, port, peer, foreign, readDue,
                 timerDue, ctxDone>>

(* Mutant: the reader has no deadline. *)
ReadError_NoDeadline ==
  /\ "refusal" \in net
  /\ ReaderDone("error")
  /\ UNCHANGED <<run, state, listener, icmpCh, envVars>>

(* ECONNREFUSED, the deadline, or the deferred conn.Close. *)
ReadError ==
  /\ "refusal" \in net \/ readDue \/ run = "done"
  /\ ReaderDone("error")
  /\ UNCHANGED <<run, state, listener, icmpCh, envVars>>

(* The ICMP listener. *)

ListenerChecks ==
  /\ listener = "check"
  /\ listener' = IF ctxDone THEN "exited" ELSE "read"
  /\ UNCHANGED <<run, state, reader, readCh, icmpCh, envVars>>

(* A message that quotes a packet of length len. *)
Heard(len) ==
  IF len = port THEN icmpCh' = TRUE /\ listener' = "exited"
                ELSE listener' = "check" /\ UNCHANGED icmpCh

HearOwn ==
  /\ listener = "read" /\ "unreachable" \in net /\ run # "done"
  /\ \E len \in TotalLens(port) : Heard(len)
  /\ net' = net \ {"unreachable"}
  /\ UNCHANGED <<run, state, reader, readCh, port, peer, foreign, readDue,
                 timerDue, ctxDone>>

HearForeign ==
  /\ listener = "read" /\ foreign > 0 /\ run # "done"
  /\ Heard(ForeignLen)
  /\ foreign' = foreign - 1
  /\ UNCHANGED <<run, state, reader, readCh, port, peer, net, readDue,
                 timerDue, ctxDone>>

(* The listener's own deadline, which is set before the probe goes out and   *)
(* may be the first to pass, or the deferred icmpConn.Close.                 *)
ListenerGivesUp ==
  /\ listener = "read"
  /\ listener' = "exited"
  /\ UNCHANGED <<run, state, reader, readCh, icmpCh, envVars>>

------------------------------------------------------------------------------
(* Time.  The read deadline is set before the timer and for as long. *)
ReadDeadline ==
  /\ run \in {"wait", "done"} /\ ~readDue
  /\ readDue' = TRUE
  /\ UNCHANGED <<procVars, port, peer, net, foreign, timerDue, ctxDone>>

TimerFires ==
  /\ run = "wait" /\ readDue /\ ~timerDue
  /\ timerDue' = TRUE
  /\ UNCHANGED <<procVars, port, peer, net, foreign, readDue, ctxDone>>

Cancel ==
  /\ ~ctxDone
  /\ ctxDone' = TRUE
  /\ UNCHANGED <<procVars, port, peer, net, foreign, readDue, timerDue>>

Run == Dial \/ Listen \/ WriteFails \/ Write \/ Select
Reader == ReadReply \/ ReadError
Listener == ListenerChecks \/ HearOwn \/ HearForeign \/ ListenerGivesUp

Over ==
  /\ run = "done" /\ reader # "reading" /\ listener \in {"unborn", "exited"}
  /\ UNCHANGED vars

Next ==
  Run \/ Reader \/ Listener \/ ReadDeadline \/ TimerFires \/ Cancel \/ Over

(* Goroutines run and clocks advance. *)
Fairness ==
  /\ WF_vars(Run) /\ WF_vars(Reader) /\ WF_vars(Listener)
  /\ WF_vars(ReadDeadline) /\ WF_vars(TimerFires)

Spec == Init /\ [][Next]_vars /\ Fairness

------------------------------------------------------------------------------
(* Properties. *)

(* What a verdict rests on: OPEN_OR_FILTERED on the whole timeout, CLOSED on *)
(* an unreachable, the peer's own if no other has been heard, and            *)
(* FILTERED after a probe that went out on ctx alone: udp.go:161-172.        *)
VerdictRests ==
  /\ state = "OPEN_OR_FILTERED" => readDue /\ timerDue
  /\ state = "CLOSED" => /\ listener = "exited"
                         /\ foreign = MaxForeign => peer = "refuses"
  /\ state = "FILTERED" /\ reader # "unborn" => ctxDone

(* The check ends, and no goroutine outlives it, whichever case won.         *)
NothingLeaks ==
  <>(run = "done" /\ reader # "reading" /\ listener \in {"unborn", "exited"})

(* OPEN means that the port answered: docs/api.md:24, "Response: OPEN |      *)
(* CLOSED | FILTERED | OPEN_OR_FILTERED".                                    *)
OpenMeansAnswered == state = "OPEN" => peer = "answers"
=============================================================================
