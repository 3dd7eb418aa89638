------------------------------ MODULE Discover ------------------------------
(***************************************************************************)
(* Discoverer.Run (internal/discover): the worker pool, with each probe    *)
(* opened into its steps.  A worker pings its host over a raw ICMP socket  *)
(* of its own, and if that tells it nothing dials the TCP ports in turn.   *)
(*                                                                         *)
(* A raw ICMP socket receives every ICMP packet that reaches the machine   *)
(* while it is open, and pingHost reads one packet and looks at its type   *)
(* only.  So the packets of one worker's probe reach all workers that have *)
(* a socket open: first[w] is the packet w's read returns.                 *)
(*                                                                         *)
(* Reverse lookup fills in a name and decides nothing: it is the time a    *)
(* worker spends before it opens its socket.                               *)
(***************************************************************************)
EXTENDS WorkerPool

CONSTANTS
  Ports,        \* d.tcpPorts is 1..Ports
  IcmpEnabled, TcpEnabled,
  MaxOther      \* bound: ICMP packets that are no echo reply

ASSUME DiscoverAssumption ==
  /\ Ports \in Nat
  /\ IcmpEnabled \in BOOLEAN
  /\ TcpEnabled \in BOOLEAN
  /\ MaxOther \in Nat

VARIABLES
  replies,  \* the hosts that answer an echo request
  open,     \* the ports each host accepts connections on
  step,     \* where each worker is in its probe
  first,    \* the first packet on its socket: a host's reply, Other or None
  port,     \* the TCP port it dials
  wire,     \* echo replies on their way, by the host that sends them
  state,    \* the HostResult of each worker's probe
  report,   \* the HostResults sent, in the order of the log sent
  others    \* packets that are no echo reply so far

worldVars == <<replies, open>>
probeVars == <<step, first, port, state>>
wireVars == <<wire, others>>
hostVars == <<worldVars, probeVars, wireVars, report>>

None == 0
Other == NumJobs + 1  \* a packet that is no echo reply

HostState == {"", "Alive/ICMP", "Alive/TCP", "Unknown"}

HostTypeOK ==
  /\ TypeOK
  /\ replies \subseteq Jobs
  /\ open \in [Jobs -> SUBSET (1..Ports)]
  /\ step \in [Workers -> {"idle", "socket", "send", "read", "dial"}]
  /\ first \in [Workers -> {None, Other} \union Jobs]
  /\ port \in [Workers -> 0..Ports]
  /\ wire \subseteq replies
  /\ state \in [Workers -> HostState]
  /\ report \in Seq(HostState \ {""})
  /\ Len(report) = Len(sent)
  /\ others \in 0..MaxOther

HostInit ==
  /\ Init
  /\ replies \in SUBSET Jobs
  /\ open \in [Jobs -> SUBSET (1..Ports)]
  /\ step = [w \in Workers |-> "idle"]
  /\ first = [w \in Workers |-> None]
  /\ port = [w \in Workers |-> 0]
  /\ wire = {}
  /\ state = [w \in Workers |-> ""]
  /\ report = <<>>
  /\ others = 0

------------------------------------------------------------------------------
(* The steps of a probe; to the pool they are all one. *)

Inside == UNCHANGED <<vars, report>>

(* Where a worker that knows no better yet goes next. *)
ToPorts(w) ==
  /\ step' = [step EXCEPT ![w] = "dial"]
  /\ port' = [port EXCEPT ![w] = IF TcpEnabled /\ Ports > 0 THEN 1 ELSE 0]

Conclude(w, s) ==
  /\ state' = [state EXCEPT ![w] = s]
  /\ EndProbe(w)
  /\ found'[w] = "PROBED"
  /\ UNCHANGED report

BeginHost(w) ==
  /\ StartProbe(w)
  /\ IF IcmpEnabled
     THEN step' = [step EXCEPT ![w] = "socket"] /\ UNCHANGED port
     ELSE ToPorts(w)
  /\ UNCHANGED <<first, state, worldVars, wireVars, report>>

(* icmp.ListenPacket *)
OpenSocket(w) ==
  /\ step[w] = "socket"
  /\ step' = [step EXCEPT ![w] = "send"]
  /\ Inside
  /\ UNCHANGED <<first, port, state, worldVars, wireVars>>

(* Without the privilege there is no ping, nor if the echo does not go out.  *)
PingFails(w) ==
  /\ step[w] \in {"socket", "send"}
  /\ ToPorts(w)
  /\ first' = [first EXCEPT ![w] = None]
  /\ Inside
  /\ UNCHANGED <<state, worldVars, wireVars>>

SendEcho(w) ==
  /\ step[w] = "send"
  /\ step' = [step EXCEPT ![w] = "read"]
  /\ wire' = wire \union ({hand[w]} \intersect replies)
  /\ Inside
  /\ UNCHANGED <<first, port, state, worldVars, others>>

(* A packet reaches every socket that is open, and is the first for some. *)
Received(p) ==
  first' = [w \in Workers |->
              IF step[w] \in {"send", "read"} /\ first[w] = None THEN p
              ELSE first[w]]

Deliver(h) ==
  /\ h \in wire
  /\ wire' = wire \ {h}
  /\ Received(h)
  /\ Inside
  /\ UNCHANGED <<step, port, state, worldVars, others>>

OtherPacket ==
  /\ others < MaxOther
  /\ others' = others + 1
  /\ Received(Other)
  /\ Inside
  /\ UNCHANGED <<step, port, state, worldVars, wire>>

Lose(h) ==
  /\ h \in wire
  /\ wire' = wire \ {h}
  /\ Inside
  /\ UNCHANGED <<probeVars, worldVars, others>>

(* conn.ReadFrom: any echo reply will do; the socket is closed on return. *)
ReadReply(w) ==
  /\ step[w] = "read"
  /\ first[w] \in Jobs
  /\ Conclude(w, "Alive/ICMP")
  /\ step' = [step EXCEPT ![w] = "idle"]
  /\ first' = [first EXCEPT ![w] = None]
  /\ UNCHANGED <<port, worldVars, wireVars>>

(* Another packet came first, or none before the deadline. *)
ReadNothing(w) ==
  /\ step[w] = "read"
  /\ first[w] \notin Jobs
  /\ ToPorts(w)
  /\ first' = [first EXCEPT ![w] = None]
  /\ Inside
  /\ UNCHANGED <<state, worldVars, wireVars>>

(* Mutant: the last port is left out. *)
DialPort_SkipsLast(w) ==
  /\ step[w] = "dial"
  /\ port[w] # 0
  /\ IF port[w] \in open[hand[w]]
     THEN /\ Conclude(w, "Alive/TCP")
          /\ step' = [step EXCEPT ![w] = "idle"]
          /\ port' = [port EXCEPT ![w] = 0]
     ELSE /\ port' = [port EXCEPT ![w] = (port[w] + 1) % Ports]
          /\ Inside
          /\ UNCHANGED <<step, state>>
  /\ UNCHANGED <<first, worldVars, wireVars>>

DialPort(w) ==
  /\ step[w] = "dial"
  /\ port[w] # 0
  /\ IF port[w] \in open[hand[w]]
     THEN /\ Conclude(w, "Alive/TCP")
          /\ step' = [step EXCEPT ![w] = "idle"]
          /\ port' = [port EXCEPT ![w] = 0]
     ELSE /\ port' = [port EXCEPT ![w] = (port[w] + 1) % (Ports + 1)]
          /\ Inside
          /\ UNCHANGED <<step, state>>
  /\ UNCHANGED <<first, worldVars, wireVars>>

(* No port is left: the host may be up for all the tool knows. *)
GiveUp(w) ==
  /\ step[w] = "dial"
  /\ port[w] = 0
  /\ Conclude(w, "Unknown")
  /\ step' = [step EXCEPT ![w] = "idle"]
  /\ UNCHANGED <<first, port, worldVars, wireVars>>

(* Mutant: after a TCP port is found, no "continue" (discover.go:102-104). *)
SendHost_NoContinue(w) ==
  /\ report' = Append(report, state[w])
  /\ IF state[w] = "Alive/TCP"
     THEN /\ sent' = Append(sent, [job |-> hand[w], state |-> found[w]])
          /\ pc[w] = "send"
          /\ state' = [state EXCEPT ![w] = "Unknown"]
          /\ UNCHANGED <<main, workerVars, jobVars, got, closer, ctxVars>>
     ELSE SendResult(w) /\ state' = [state EXCEPT ![w] = ""]
  /\ UNCHANGED <<step, first, port, worldVars, wireVars>>

(* resultCh <- result; the next host starts from an empty HostResult. *)
SendHost(w) ==
  /\ SendResult(w)
  /\ report' = Append(report, state[w])
  /\ state' = [state EXCEPT ![w] = ""]
  /\ UNCHANGED <<step, first, port, worldVars, wireVars>>

Probe(w) == OpenSocket(w) \/ PingFails(w) \/ SendEcho(w) \/ ReadReply(w)
            \/ ReadNothing(w) \/ DialPort(w) \/ GiveUp(w)

PoolStep == /\ \/ Main
               \/ \E w \in Workers : Take(w) \/ Drain(w) \/ Abandon(w)
               \/ CloseResults
               \/ Cancel
               \/ Done
            /\ UNCHANGED hostVars

Wire == OtherPacket \/ \E h \in Jobs : Deliver(h) \/ Lose(h)

HostNext == \/ PoolStep
            \/ \E w \in Workers : BeginHost(w) \/ Probe(w) \/ SendHost(w)
            \/ Wire

HostSpec == HostInit /\ [][HostNext]_<<vars, hostVars>>

------------------------------------------------------------------------------
(* Properties. *)

(* However a host was found, one result leaves the worker for it: discovery *)
(* implements the pool of WorkerPool, so what is proved of the pool holds.  *)
ImplementsPool == SafeSpec

Host(i) == sent[i].job

(* What a result says rests on this host alone whenever it was TCP that     *)
(* told: Alive/TCP is a host with an open port, and a host with an open     *)
(* port is never Unknown, given that a dial to it succeeds                  *)
(* (discover.go:90-108).                                                    *)
TcpVerdictsAreRight ==
  \A i \in 1..Len(report) :
    /\ report[i] = "Alive/TCP" => open[Host(i)] # {}
    /\ report[i] = "Unknown" => ~TcpEnabled \/ open[Host(i)] = {}
=============================================================================
