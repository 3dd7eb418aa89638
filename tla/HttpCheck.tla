------------------------------ MODULE HttpCheck ------------------------------
(***************************************************************************)
(* internal/httpcheck Checker.Run: one GET with the redirects it leads to. *)
(* The times of the phases of a connection are stamped by callbacks that   *)
(* the dialling goroutines of net/http call, and are read when the answer  *)
(* has come.  A request that is given an idle connection leaves its dial   *)
(* behind, whose callbacks go on stamping.                                 *)
(*                                                                         *)
(* Time is the number of stamps made.  One dial has one address.           *)
(***************************************************************************)
EXTENDS Context, Integers, Sequences, FiniteSets

CONSTANTS
  RedirectLimit,     \* 10 in the code
  FollowRedirects,   \* c.followRedirects: the program sets it
  PhaseCount         \* of a dial: DNS, TCP and, for https, TLS

ASSUME HttpAssumption ==
  /\ RedirectLimit \in Nat \ {0}
  /\ FollowRedirects \in BOOLEAN
  /\ PhaseCount \in 1..3

VARIABLES
  http,        \* where Run is
  via,         \* the requests made: an element of 0..RedirectLimit
  dialPos,     \* the callbacks each request's dial has called, or one of these
  stamps,      \* the stamps made: the clock
  phaseStart,  \* dnsStart, tcpStart, tlsStart; 0 is the zero time
  phaseEnd,    \* dnsEnd, tcpEnd, tlsEnd
  httpResult,
  overlapped   \* history: a dial was still out when the times were read

dialVars == <<dialPos, stamps, phaseStart, phaseEnd>>
httpVars == <<http, via, dialVars, httpResult, overlapped>>

Phases == 1..PhaseCount
Requests == 0..RedirectLimit

NotDialled == -1
DialDead == -2

HttpNoResult == [redirects |-> 0, error |-> FALSE,
                 times |-> [p \in Phases |-> 0], body |-> "none"]

HttpTypeOK ==
  /\ http \in {"start", "connect", "answer", "read", "body", "done"}
  /\ via \in Requests
  /\ dialPos \in [Requests -> -2..(2 * PhaseCount)]
  /\ stamps \in Nat
  /\ {phaseStart, phaseEnd} \subseteq [Phases -> 0..stamps]
  /\ httpResult.redirects \in Requests /\ httpResult.error \in BOOLEAN
  /\ httpResult.times \in [Phases -> Int]
  /\ httpResult.body \in {"none", "part", "whole"}
  /\ overlapped \in BOOLEAN

HttpInit ==
  /\ http = "start" /\ via = 0
  /\ dialPos = [r \in Requests |-> NotDialled]
  /\ stamps = 0
  /\ phaseStart = [p \in Phases |-> 0] /\ phaseEnd = [p \in Phases |-> 0]
  /\ httpResult = HttpNoResult
  /\ overlapped = FALSE

------------------------------------------------------------------------------
HttpError ==
  /\ http' = "done"
  /\ httpResult' = [httpResult EXCEPT !.error = TRUE]

(* A URL that cannot be parsed makes no request. *)
HttpStart ==
  /\ http = "start"
  /\ \/ http' = "connect" /\ UNCHANGED httpResult
     \/ HttpError
  /\ UNCHANGED <<via, dialVars, overlapped, ctxDone>>

(* The transport: a request that finds no idle connection starts a dial. *)
HttpDials ==
  /\ http = "connect" /\ dialPos[via] = NotDialled
  /\ dialPos' = [dialPos EXCEPT ![via] = 0]
  /\ UNCHANGED <<http, via, stamps, phaseStart, phaseEnd, httpResult,
                 overlapped, ctxDone>>

(* The transport: a request takes its own connection, or the one that an     *)
(* earlier request has left, also while its own dial is out.                 *)
HttpConnected ==
  /\ http = "connect"
  /\ dialPos[via] = 2 * PhaseCount \/ via > 0
  /\ http' = "answer"
  /\ UNCHANGED <<via, dialVars, httpResult, overlapped, ctxDone>>

DialOut(r) == dialPos[r] \in 0..(2 * PhaseCount - 1)

(* The callbacks come in pairs, one pair per phase. *)
PhaseOf(r) == dialPos[r] \div 2 + 1
PhaseBegins(r) == dialPos[r] % 2 = 0

CallStart(r) ==
  /\ DialOut(r) /\ PhaseBegins(r)
  /\ stamps' = stamps + 1
  /\ phaseStart' = [phaseStart EXCEPT ![PhaseOf(r)] = stamps + 1]
  /\ dialPos' = [dialPos EXCEPT ![r] = @ + 1]
  /\ UNCHANGED <<http, via, phaseEnd, httpResult, overlapped, ctxDone>>

(* Mutant: the callbacks of an end ignore one that comes with an error. *)
CallEnd_OnSuccess(r) ==
  /\ DialOut(r) /\ ~PhaseBegins(r)
  /\ stamps' = stamps + 1
  /\ \/ /\ phaseEnd' = [phaseEnd EXCEPT ![PhaseOf(r)] = stamps + 1]
        /\ dialPos' = [dialPos EXCEPT ![r] = @ + 1]
     \/ dialPos' = [dialPos EXCEPT ![r] = DialDead] /\ UNCHANGED phaseEnd
  /\ UNCHANGED <<http, via, phaseStart, httpResult, overlapped, ctxDone>>

(* The phase succeeds, or ends the dial; the callback stamps both.           *)
CallEnd(r) ==
  /\ DialOut(r) /\ ~PhaseBegins(r)
  /\ stamps' = stamps + 1
  /\ phaseEnd' = [phaseEnd EXCEPT ![PhaseOf(r)] = stamps + 1]
  /\ \E next \in {dialPos[r] + 1, DialDead} :
       dialPos' = [dialPos EXCEPT ![r] = next]
  /\ UNCHANGED <<http, via, phaseStart, httpResult, overlapped, ctxDone>>

(* A dial that nobody waits for goes on, but what it stamps after the result *)
(* is made is not looked at.                                                 *)
HttpDialling == http # "done" /\ \E r \in Requests : CallStart(r) \/ CallEnd(r)

(* client.Do fails: the dial or the connection did, the 10 seconds are over, *)
(* or ctx is done.                                                           *)
HttpFails ==
  /\ http \in {"connect", "answer"}
  /\ HttpError
  /\ UNCHANGED <<via, dialVars, overlapped, ctxDone>>

(* CheckRedirect, given the number of requests made. *)
CheckRedirect(n) ==
  IF ~FollowRedirects THEN "last"
  ELSE IF n >= RedirectLimit THEN "error" ELSE "follow"

(* A redirect is answered: its request is one of those made. *)
HttpRedirected ==
  /\ http = "answer"
  /\ httpResult' = [httpResult EXCEPT
       !.redirects = via + 1, !.error = CheckRedirect(via + 1) = "error"]
  /\ http' = CASE CheckRedirect(via + 1) = "follow" -> "connect"
               [] CheckRedirect(via + 1) = "last" -> "read"
               [] CheckRedirect(via + 1) = "error" -> "done"
  /\ via' = IF CheckRedirect(via + 1) = "follow" THEN via + 1 ELSE via
  /\ UNCHANGED <<dialVars, overlapped, ctxDone>>

HttpAnswered ==
  /\ http = "answer"
  /\ http' = "read"
  /\ UNCHANGED <<via, dialVars, httpResult, overlapped, ctxDone>>

(* Both times are set, or the phase counts for nothing. *)
Elapsed(p) ==
  IF 0 \in {phaseStart[p], phaseEnd[p]} THEN 0 ELSE phaseEnd[p] - phaseStart[p]

HttpTimes ==
  /\ http = "read"
  /\ httpResult' = [httpResult EXCEPT !.times = [p \in Phases |-> Elapsed(p)]]
  /\ overlapped' = \E r \in Requests : DialOut(r)
  /\ http' = "body"
  /\ UNCHANGED <<via, dialVars, ctxDone>>

(* An error of the read is dropped: a page cut short counts as a short one.  *)
HttpBody ==
  /\ http = "body"
  /\ \E b \in {"part", "whole"} :
       httpResult' = [httpResult EXCEPT !.body = b]
  /\ http' = "done"
  /\ UNCHANGED <<via, dialVars, overlapped, ctxDone>>

HttpStep ==
  \/ HttpStart \/ HttpDials \/ HttpConnected \/ HttpDialling \/ HttpFails
  \/ HttpRedirected \/ HttpAnswered \/ HttpTimes \/ HttpBody

(* A run of its own, for what is proved of it. *)
HttpSpec ==
  /\ HttpInit /\ ContextInit
  /\ [][HttpStep \/ (Cancel /\ UNCHANGED httpVars)]_<<httpVars, ctxDone>>

------------------------------------------------------------------------------
(* Properties. *)

(* A check without an error has followed fewer redirects than the limit, all *)
(* of them counted, and its times are those of connections it has made: they *)
(* are positive, if no dial was left behind that was still stamping when they*)
(* were read (httpcheck.go:50-74, 97-105).                                   *)
HttpReportIsSane ==
  http = "done" /\ ~httpResult.error =>
    /\ via < RedirectLimit
    /\ FollowRedirects => httpResult.redirects = via
    /\ ~overlapped => \A p \in Phases : httpResult.times[p] > 0
=============================================================================
