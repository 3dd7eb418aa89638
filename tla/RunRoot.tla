------------------------------- MODULE RunRoot -------------------------------
(***************************************************************************)
(* cmd/netcheck: runRoot from its flags to the exit code, around the       *)
(* commands it calls.  The commands are their own modules; ping, udp, the  *)
(* port scan, the pool of discovery and watch mode, which have runs of     *)
(* their own, are one step here with the ways in which they end.           *)
(*                                                                         *)
(* The servers and what follows the return of runRoot are in Lifecycle.  A *)
(* flag is given or not; of its value only what decides matters.           *)
(***************************************************************************)
EXTENDS TcpCheck, TcPing, Mtr, DnsLookup, Traceroute, HttpCheck, TlsCheck,
        Subnet

CONSTANT MaxFlags   \* bound: the flags of one command line

ASSUME RootAssumption == MaxFlags \in Nat

Formats == <<"json", "csv", "html">>
Flags == {"version", "dns", "traceroute", "mtr", "tls", "metrics", "web",
          "discover", "ports", "tcping", "udp", "watch"} \union ToSet(Formats)

(* What the arguments are; the port is the second one. *)
Hosts == {"none", "plain", "url"}
Ports == {"none", "number", "word"}

CommandLines ==
  {line \in [flags : UNION {kSubset(n, Flags) : n \in 0..MaxFlags},
             host : Hosts, port : Ports] :
     line.host = "none" => line.port = "none"}

Commands == {"none", "help", "dns", "traceroute", "mtr", "tls", "serve",
             "http", "discover", "ports", "tcping", "udp", "watch", "tcp",
             "ping"}

VARIABLES
  stage,      \* where runRoot is
  line,       \* the command line, forgotten when the command is known
  command,    \* the command that runs
  outputs,    \* the formats that writeExport has left to write
  exitCode,   \* -1 until the process exits
  failed      \* history: something that the user asked for has failed

rootVars == <<stage, line, command, outputs, exitCode, failed>>
subVars == <<tcpVars, tcPingVars, mtrVars, dnsVars, traceVars, httpVars,
             tlsVars, subnetVars>>
vars == <<rootVars, subVars, ctxDone>>

NoLine == [flags |-> {}, host |-> "none", port |-> "none"]

RootTypeOK ==
  /\ stage \in {"start", "config", "dispatch", "run", "export", "exit"}
  /\ line.flags \subseteq Flags /\ line.host \in Hosts /\ line.port \in Ports
  /\ command \in Commands
  /\ outputs \in Seq(ToSet(Formats)) /\ Len(outputs) <= Len(Formats)
  /\ exitCode \in -1..2
  /\ failed \in BOOLEAN
  /\ ctxDone \in BOOLEAN
  /\ TcpTypeOK /\ TcPingTypeOK /\ MtrTypeOK /\ DnsTypeOK
  /\ TraceTypeOK /\ HttpTypeOK /\ TlsTypeOK /\ SubnetTypeOK

RootInit ==
  /\ stage = "start" /\ line \in CommandLines /\ command = "none"
  /\ outputs = <<>> /\ exitCode = -1 /\ failed = FALSE
  /\ ContextInit
  /\ TcpInit /\ TcPingInit /\ MtrInit /\ DnsInit
  /\ TraceInit /\ HttpInit /\ TlsInit /\ SubnetInit

------------------------------------------------------------------------------
(* main: an error of runRoot is exit code 1, a panic is 2. *)
Leave(code) ==
  /\ stage' = "exit"
  /\ exitCode' = code

ShowVersion ==
  /\ stage = "start" /\ "version" \in line.flags
  /\ Leave(0)
  /\ UNCHANGED <<line, command, outputs, failed, subVars, ctxDone>>

(* A file that cannot be read is logged, and the defaults are used. *)
LoadConfig ==
  /\ stage = "start" /\ "version" \notin line.flags
  /\ failed' \in BOOLEAN
  /\ stage' = "dispatch"
  /\ UNCHANGED <<line, command, outputs, exitCode, subVars, ctxDone>>

Given(flag) == flag \in line.flags

(* The cases of runRoot in its order, the last one for every command line.   *)
Cases ==
  << <<Given("dns"), "dns">>,
     <<Given("traceroute"), "traceroute">>,
     <<Given("mtr"), "mtr">>,
     <<Given("tls"), "tls">>,
     <<(Given("metrics") \/ Given("web")) /\ line.host = "none", "serve">>,
     <<line.host = "none", "help">>,
     <<line.host = "url", "http">>,
     <<Given("discover"), "discover">>,
     <<Given("ports"), "ports">>,
     <<Given("tcping") /\ line.port = "number", "tcping">>,
     <<Given("udp") /\ line.port = "number", "udp">>,
     <<Given("watch"), "watch">>,
     <<line.port = "number", "tcp">>,
     <<TRUE, "ping">> >>

CommandOf == Cases[SelectInSeq(Cases, LAMBDA case : case[1])][2]

(* These call writeExport; the others leave the flags for it unread. *)
Exports == {"ping", "tcp", "udp"}

Dispatch ==
  /\ stage = "dispatch"
  /\ command' = CommandOf
  /\ outputs' = IF CommandOf \in Exports
                THEN Keep(Formats, line.flags) ELSE <<>>
  /\ line' = NoLine
  /\ stage' = "run"
  /\ UNCHANGED <<exitCode, failed, subVars, ctxDone>>

------------------------------------------------------------------------------
Runs(c) == stage = "run" /\ command = c

(* Only the command that runs takes steps. *)
Alone(c) ==
  /\ UNCHANGED rootVars
  /\ IF c = "tcp" THEN TRUE ELSE UNCHANGED tcpVars
  /\ IF c = "tcping" THEN TRUE ELSE UNCHANGED tcPingVars
  /\ IF c = "mtr" THEN TRUE ELSE UNCHANGED mtrVars
  /\ IF c = "dns" THEN TRUE ELSE UNCHANGED dnsVars
  /\ IF c = "traceroute" THEN TRUE ELSE UNCHANGED traceVars
  /\ IF c = "http" THEN TRUE ELSE UNCHANGED httpVars
  /\ IF c = "tls" THEN TRUE ELSE UNCHANGED tlsVars
  /\ IF c = "discover" THEN TRUE ELSE UNCHANGED subnetVars

RunDns == Runs("dns") /\ DnsStep /\ Alone("dns")
RunTraceroute == Runs("traceroute") /\ TraceStep /\ Alone("traceroute")
RunMTR == Runs("mtr") /\ MtrStep /\ Alone("mtr")
RunTLSCheck == Runs("tls") /\ TlsProceeds /\ Alone("tls")
ServerHandshakes == Runs("tls") /\ TlsHandshake /\ Alone("tls")
RunHTTPCheck == Runs("http") /\ HttpStep /\ Alone("http")
RunTCPCheck == Runs("tcp") /\ TcpStep /\ Alone("tcp")
RunDiscover == Runs("discover") /\ SubnetStep /\ Alone("discover")
TcPingNotices == Runs("tcping") /\ CloseDone /\ Alone("tcping")
TcPingProbes == Runs("tcping") /\ TcPingGoesOn /\ Alone("tcping")
TcPingStops == Runs("tcping") /\ SelectDone /\ Alone("tcping")

(* How the command can end now: "nil" and "error" are what it returns.       *)
Endings ==
  CASE command = "help" -> {"nil"}
    [] command = "dns" /\ dns = "done" -> {"nil"}
    [] command = "traceroute" /\ trace = "done" ->
         {IF traceErr = "nil" THEN "nil" ELSE "error"}
    [] command = "mtr" /\ mtr = "returned" ->
         {IF mtrErr = "nil" THEN "nil" ELSE "error"}
    [] command = "tls" /\ tls = "done" -> {"nil"}
    [] command = "serve" /\ ctxDone -> {"nil"}
    [] command = "http" /\ http = "done" -> {"nil"}
    [] command = "discover" /\ subnet = "failed" -> {"error"}
    [] command = "discover" /\ subnet = "done" -> {"nil"}
    [] command = "ports" -> {"nil", "error"}
    [] command = "tcping" /\ tcping = "returned" -> {"nil"}
    [] command = "tcping" /\ tcping = "panicked" -> {"panic"}
    [] command = "udp" -> {"nil"}
    [] command = "watch" /\ ctxDone -> {"nil"}
    [] command = "tcp" /\ tcp = "done" -> {"nil"}
    [] command = "ping" -> {"nil", "error", "panic"}
    [] OTHER -> {}

(* The result says that it is none, which the command only prints. *)
ResultFails ==
  \/ command = "dns" /\ dnsError
  \/ command = "http" /\ httpResult.error
  \/ command = "tls" /\ tlsResult.error

CommandReturns ==
  /\ stage = "run"
  /\ \E ending \in Endings :
       CASE ending = "nil" /\ command \in Exports ->
              stage' = "export" /\ UNCHANGED exitCode
         [] ending = "nil" /\ command \notin Exports -> Leave(0)
         [] ending = "error" -> Leave(1)
         [] ending = "panic" -> Leave(2)
  /\ failed' = (failed \/ ResultFails)
  /\ UNCHANGED <<line, command, outputs, subVars, ctxDone>>

(* A ping of the watch ends the process. *)
WatchCrashes ==
  /\ Runs("watch")
  /\ Leave(2)
  /\ UNCHANGED <<line, command, outputs, failed, subVars, ctxDone>>

(* A file that cannot be written is logged, and the next one is tried. *)
WriteExport ==
  /\ stage = "export" /\ outputs # <<>>
  /\ failed' \in {failed, TRUE}
  /\ outputs' = Tail(outputs)
  /\ UNCHANGED <<stage, line, command, exitCode, subVars, ctxDone>>

ExportsDone ==
  /\ stage = "export" /\ outputs = <<>>
  /\ Leave(0)
  /\ UNCHANGED <<line, command, outputs, failed, subVars, ctxDone>>

(* Signals are listened to from before the dispatch. *)
Interrupt ==
  /\ stage \in {"dispatch", "run", "export"}
  /\ Cancel
  /\ UNCHANGED <<rootVars, subVars>>

(* What the program and the timeouts of its calls bring about. *)
Program ==
  \/ ShowVersion \/ LoadConfig \/ Dispatch
  \/ RunDns \/ RunTraceroute \/ RunMTR \/ RunTLSCheck \/ RunHTTPCheck
  \/ RunTCPCheck \/ RunDiscover \/ TcPingProbes
  \/ CommandReturns \/ WriteExport \/ ExportsDone

RootNext ==
  \/ Program \/ TcPingNotices \/ TcPingStops
  \/ ServerHandshakes \/ WatchCrashes \/ Interrupt

(* A select takes a case that is ready again and again (SF); the server of a *)
(* TLS check need not answer.                                                *)
RootSpec ==
  /\ RootInit /\ [][RootNext]_vars
  /\ WF_vars(Program) /\ WF_vars(TcPingNotices) /\ SF_vars(TcPingStops)

------------------------------------------------------------------------------
(* Properties. *)

(* A signal ends the program, whatever its command line and however far its  *)
(* command is, by the looks it takes at ctx or because what it waits for has *)
(* a timeout.  Two commands are deaf: a TLS handshake that the server does   *)
(* not answer, and the list of 0.0.0.0/0 (main.go:105-215).                  *)
CommandsHeedCancel ==
  ctxDone ~> \/ stage = "exit"
             \/ command = "tls" /\ tls = "handshake"
             \/ command = "discover" /\ Endless

(* What fails shows in the exit code, as docs/api.md:128-137 says. *)
FailureIsReported == stage = "exit" /\ failed => exitCode # 0
=============================================================================
