----------------------------- MODULE Traceroute -----------------------------
(***************************************************************************)
(* internal/traceroute Tracer.Run: one socket for all hops, one echo       *)
(* request per hop with a time to live one larger than the last, and the   *)
(* next packet of the socket taken for its answer, whatever it answers.    *)
(*                                                                         *)
(* Times and names are left out.  A router Distance - 1 hops away or less  *)
(* answers that the time is exceeded, the target that it was reached.  A   *)
(* reply may be lost, late (it stays in the socket) or overtaken.          *)
(***************************************************************************)
EXTENDS Context, Integers, Sequences, FiniteSets

CONSTANTS
  TraceHops,   \* t.maxHops
  Distance,    \* of the target; beyond TraceHops it is out of reach
  MaxStray     \* bound: the packets of other programs that are read

ASSUME TraceAssumption ==
  TraceHops \in Nat /\ Distance \in Nat \ {0} /\ MaxStray \in Nat

VARIABLES
  trace,      \* where Run is
  hopTtl,     \* the loop variable
  wire,       \* the probes whose reply is on its way or in the socket
  route,      \* result.Hops
  complete,   \* result.Complete
  traceErr,   \* "none" until Run returns
  stray       \* history: the packets of other programs that were read

traceVars == <<trace, hopTtl, wire, route, complete, traceErr, stray>>

(* What a hop was made from: the probe whose reply was read, or one of these.*)
NoReply == 0
Stray == -1

Hops == [number : 1..TraceHops, answers : {Stray, NoReply} \union 1..TraceHops,
         reached : BOOLEAN]

TraceTypeOK ==
  /\ trace \in {"resolve", "listen", "hop", "read", "done"}
  /\ hopTtl \in 1..(TraceHops + 1)
  /\ wire \subseteq 1..TraceHops
  /\ route \in Seq(Hops)
  /\ complete \in BOOLEAN
  /\ traceErr \in {"none", "nil", "resolve", "listen", "ctx"}
  /\ stray \in 0..MaxStray

TraceInit ==
  /\ trace = "resolve" /\ hopTtl = 1
  /\ wire = {} /\ route = <<>> /\ complete = FALSE
  /\ traceErr = "none" /\ stray = 0

------------------------------------------------------------------------------
TraceReturns(e) == trace' = "done" /\ traceErr' = e

TraceResolve ==
  /\ trace = "resolve"
  /\ \/ trace' = "listen" /\ UNCHANGED traceErr
     \/ TraceReturns("resolve")
  /\ UNCHANGED <<hopTtl, wire, route, complete, stray, ctxDone>>

TraceListen ==
  /\ trace = "listen"
  /\ \/ trace' = "hop" /\ UNCHANGED traceErr
     \/ TraceReturns("listen")
  /\ UNCHANGED <<hopTtl, wire, route, complete, stray, ctxDone>>

(* ctx is looked at between two hops; the route so far is returned with it.  *)
TraceSeeCancel ==
  /\ trace = "hop" /\ hopTtl <= TraceHops /\ ctxDone
  /\ TraceReturns("ctx")
  /\ UNCHANGED <<hopTtl, wire, route, complete, stray, ctxDone>>

(* Mutant: the loop counts from 0 and SetTTL adds the one.                   *)
TraceSend_TtlPlusOne ==
  /\ trace = "hop" /\ hopTtl <= TraceHops /\ ~ctxDone
  /\ \/ wire' = wire \union {hopTtl + 1}
     \/ UNCHANGED wire
  /\ trace' = "read"
  /\ UNCHANGED <<hopTtl, route, complete, traceErr, stray, ctxDone>>

(* The probe is sent, and a reply will come or not. *)
TraceSend ==
  /\ trace = "hop" /\ hopTtl <= TraceHops /\ ~ctxDone
  /\ \/ wire' = wire \union {hopTtl}
     \/ UNCHANGED wire
  /\ trace' = "read"
  /\ UNCHANGED <<hopTtl, route, complete, traceErr, stray, ctxDone>>

(* SetTTL or WriteTo fails: the route has no hop of that number. *)
TraceSendFails ==
  /\ trace = "hop" /\ hopTtl <= TraceHops /\ ~ctxDone
  /\ hopTtl' = hopTtl + 1
  /\ UNCHANGED <<trace, wire, route, complete, traceErr, stray, ctxDone>>

(* Mutant: the break leaves the switch and not the loop. *)
TraceHop_NoBreak(answers, reached) ==
  /\ route' = Append(route, [number |-> hopTtl, answers |-> answers,
                             reached |-> reached])
  /\ complete' = (complete \/ reached)
  /\ hopTtl' = hopTtl + 1
  /\ trace' = "hop"
  /\ UNCHANGED <<traceErr, ctxDone>>

(* The hop is added to the route, and an echo reply ends the loop. *)
TraceHop(answers, reached) ==
  /\ route' = Append(route, [number |-> hopTtl, answers |-> answers,
                             reached |-> reached])
  /\ complete' = (complete \/ reached)
  /\ IF reached THEN TraceReturns("nil") /\ UNCHANGED hopTtl
     ELSE trace' = "hop" /\ hopTtl' = hopTtl + 1 /\ UNCHANGED traceErr
  /\ UNCHANGED ctxDone

(* The identifier and the number of the reply are not looked at. *)
TraceReadReply ==
  /\ trace = "read"
  /\ \E p \in wire :
       /\ wire' = wire \ {p}
       /\ TraceHop(p, p >= Distance)
  /\ UNCHANGED stray

(* An echo reply to another pinger passes for the target's. *)
TraceReadStray ==
  /\ trace = "read" /\ stray < MaxStray
  /\ stray' = stray + 1
  /\ \E reached \in BOOLEAN : TraceHop(Stray, reached)
  /\ UNCHANGED wire

TraceTimesOut ==
  /\ trace = "read"
  /\ TraceHop(NoReply, FALSE)
  /\ UNCHANGED <<wire, stray>>

TraceEnds ==
  /\ trace = "hop" /\ hopTtl > TraceHops
  /\ TraceReturns("nil")
  /\ UNCHANGED <<hopTtl, wire, route, complete, stray, ctxDone>>

TraceStep ==
  \/ TraceResolve \/ TraceListen \/ TraceSeeCancel \/ TraceSend
  \/ TraceSendFails \/ TraceReadReply \/ TraceReadStray \/ TraceTimesOut
  \/ TraceEnds

(* A run of its own, for what is proved of it. *)
TraceSpec ==
  /\ TraceInit /\ ContextInit
  /\ [][TraceStep \/ (Cancel /\ UNCHANGED traceVars)]_<<traceVars, ctxDone>>

------------------------------------------------------------------------------
(* Properties. *)

(* A route stops at the target: its numbers grow, only its last hop reached  *)
(* the target, it is complete exactly then, and without an error it is either*)
(* complete or has used up every hop (traceroute.go:76-150).                 *)
RouteEndsAtTarget ==
  /\ \A j, k \in 1..Len(route) : j < k =>
       route[j].number < route[k].number /\ ~route[j].reached
  /\ complete <=> \E k \in 1..Len(route) : route[k].reached
  /\ complete => traceErr = "nil"
  /\ traceErr = "nil" /\ ~complete => hopTtl > TraceHops

(* Late replies make a route longer, never shorter.  As long as no packet of *)
(* another program was read, each hop rests on a probe of its own, sent for  *)
(* it or for an earlier hop, and the target is not shown nearer than it is   *)
(* (traceroute.go:112-140).                                                  *)
RouteIsNotTooShort ==
  stray = 0 =>
    /\ \A k \in 1..Len(route) :
         /\ route[k].answers <= route[k].number
         /\ route[k].reached => route[k].number >= Distance
    /\ \A j, k \in 1..Len(route) :
         j # k /\ route[j].answers = route[k].answers =>
           route[j].answers = NoReply
=============================================================================
