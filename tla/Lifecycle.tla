----------------------------- MODULE Lifecycle -----------------------------
(***************************************************************************)
(* One run of the program (runRoot in cmd/netcheck): a goroutine that turns*)
(* the first signal into a cancel, up to two HTTP servers on goroutines of *)
(* their own (metrics.ServeHTTP and Dashboard.Run, the same program twice),*)
(* and the work of the main goroutine, which is one of                     *)
(*   serve   no command: <-ctx.Done()                                      *)
(*   heeds   a command that stops when ctx is done, or ends by itself      *)
(*   deaf    a command that can wait where neither ctx nor a deadline      *)
(*           reaches it: runTLSCheck, in its handshake                     *)
(* When runRoot returns the process exits, whatever the servers are doing. *)
(***************************************************************************)
EXTENDS Naturals, FiniteSets

CONSTANTS
  Servers,     \* the servers the flags ask for
  Requests,    \* HTTP requests, each sent to one of them
  MaxSignals   \* bound: the signals counted; any number may be sent

ASSUME LifecycleAssumption ==
  /\ IsFiniteSet(Servers)
  /\ IsFiniteSet(Requests)
  /\ MaxSignals \in Nat \ {0}

VARIABLES
  work,       \* what the main goroutine has to do
  main,       \* where it is
  signals,    \* SIGINT and SIGTERM sent so far, up to MaxSignals
  sigCh,      \* signals in sigCh, whose buffer holds one
  listener,   \* the goroutine that receives from it
  cancelled,  \* ctx is done
  server,     \* the state of each server
  stopper,    \* the goroutine that shuts each server down
  open,       \* the requests each server is answering
  answered, cut

signalVars == <<signals, sigCh, listener>>
requestVars == <<open, answered, cut>>
serverVars == <<server, stopper>>
vars == <<work, main, signalVars, cancelled, serverVars, requestVars>>

Alive == main # "exited"

TypeOK ==
  /\ work \in {"serve", "heeds", "deaf"}
  /\ main \in {"setup", "running", "returning", "exited"}
  /\ signals \in 0..MaxSignals
  /\ sigCh \in 0..1
  /\ listener \in {"unborn", "waiting", "gone"}
  /\ cancelled \in BOOLEAN
  /\ server \in
       [Servers -> {"off", "starting", "listening", "failed", "closed"}]
  /\ stopper \in [Servers -> {"unborn", "waiting", "draining", "gone"}]
  /\ open \in [Servers -> SUBSET Requests]
  /\ answered \subseteq Requests
  /\ cut \subseteq Requests

Init ==
  /\ work \in {"serve", "heeds", "deaf"}
  /\ work = "serve" => Servers # {}
  /\ main = "setup"
  /\ signals = 0
  /\ sigCh = 0
  /\ listener = "unborn"
  /\ cancelled = FALSE
  /\ server = [s \in Servers |-> "off"]
  /\ stopper = [s \in Servers |-> "unborn"]
  /\ open = [s \in Servers |-> {}]
  /\ answered = {}
  /\ cut = {}

------------------------------------------------------------------------------
(* The main goroutine. *)

Exit ==
  /\ main' = "exited"
  /\ cut' = cut \union UNION {open[s] : s \in Servers}
  /\ open' = [s \in Servers |-> {}]
  /\ UNCHANGED answered

(* signal.Notify, and the go statements of the listener and the servers. *)
Setup ==
  /\ main = "setup"
  /\ main' = "running"
  /\ listener' = "waiting"
  /\ server' = [s \in Servers |-> "starting"]
  /\ UNCHANGED <<work, signals, sigCh, cancelled, stopper,
                 requestVars>>

(* Mutant: a server without a command is waited for, not ctx. *)
Finish_WhenServersEnd ==
  /\ main = "running"
  /\ work = "serve" => \A s \in Servers : server[s] \in {"failed", "closed"}
  /\ work = "deaf" => ~cancelled
  /\ cancelled' = TRUE
  /\ main' = "returning"
  /\ UNCHANGED <<work, signalVars, serverVars, requestVars>>

(* The command ends, or <-ctx.Done() does; runRoot's deferred cancel runs. *)
Finish ==
  /\ main = "running"
  /\ work = "serve" => cancelled
  /\ cancelled' = TRUE
  /\ main' = "returning"
  /\ UNCHANGED <<work, signalVars, serverVars, requestVars>>

(* main returns: every goroutine of the process ends with it. *)
Leave ==
  /\ main = "returning"
  /\ Exit
  /\ UNCHANGED <<work, signalVars, cancelled, serverVars>>

------------------------------------------------------------------------------
(* Signals. *)

(* Before Notify a signal kills the process.  After it, a signal that finds *)
(* sigCh full is dropped.                                                   *)
Signal ==
  /\ Alive
  /\ signals' = IF signals < MaxSignals THEN signals + 1 ELSE signals
  /\ IF main = "setup"
     THEN Exit /\ UNCHANGED sigCh
     ELSE sigCh' = 1 /\ UNCHANGED <<main, requestVars>>
  /\ UNCHANGED <<work, listener, cancelled, serverVars>>

(* Mutant: the listener takes the signal and does not call cancel. *)
Listen_NoCancel ==
  /\ Alive
  /\ listener = "waiting"
  /\ sigCh = 1
  /\ sigCh' = 0
  /\ listener' = "gone"
  /\ UNCHANGED <<work, main, signals, cancelled, serverVars, requestVars>>

(* <-sigCh; cancel().  The goroutine is gone then: nobody receives a second *)
(* signal.                                                                  *)
Listen ==
  /\ Alive
  /\ listener = "waiting"
  /\ sigCh = 1
  /\ sigCh' = 0
  /\ listener' = "gone"
  /\ cancelled' = TRUE
  /\ UNCHANGED <<work, main, signals, serverVars, requestVars>>

------------------------------------------------------------------------------
(* A server: ListenAndServe, and a goroutine for its Shutdown. *)

StartStopper(s) ==
  /\ Alive
  /\ server[s] = "starting"
  /\ stopper[s] = "unborn"
  /\ stopper' = [stopper EXCEPT ![s] = "waiting"]
  /\ UNCHANGED <<work, main, signalVars, cancelled, server,
                 requestVars>>

(* A port in use is an error, which is logged and stops nothing else; a     *)
(* server that has been shut down does not start.                           *)
Bind(s) ==
  /\ Alive
  /\ server[s] = "starting"
  /\ stopper[s] # "unborn"
  /\ \E b \in IF stopper[s] = "waiting" THEN {"listening", "failed"}
                                        ELSE {"closed"} :
       server' = [server EXCEPT ![s] = b]
  /\ UNCHANGED <<work, main, signalVars, cancelled, stopper,
                 requestVars>>

Accept(s, q) ==
  /\ Alive
  /\ server[s] = "listening"
  /\ q \notin answered \union cut \union UNION {open[t] : t \in Servers}
  /\ open' = [open EXCEPT ![s] = @ \union {q}]
  /\ UNCHANGED <<work, main, signalVars, cancelled, serverVars, answered, cut>>

Answer(s, q) ==
  /\ Alive
  /\ q \in open[s]
  /\ open' = [open EXCEPT ![s] = @ \ {q}]
  /\ answered' = answered \union {q}
  /\ UNCHANGED <<work, main, signalVars, cancelled, serverVars, cut>>

(* Mutant: the server is closed and its requests with it. *)
BeginShutdown_Close(s) ==
  /\ Alive
  /\ stopper[s] = "waiting"
  /\ cancelled
  /\ stopper' = [stopper EXCEPT ![s] = "gone"]
  /\ server' = [server EXCEPT ![s] = IF @ = "listening" THEN "closed" ELSE @]
  /\ open' = [open EXCEPT ![s] = {}]
  /\ cut' = cut \union open[s]
  /\ UNCHANGED <<work, main, signalVars, cancelled, answered>>

(* server.Shutdown closes the listener, and ListenAndServe returns at once. *)
BeginShutdown(s) ==
  /\ Alive
  /\ stopper[s] = "waiting"
  /\ cancelled
  /\ stopper' = [stopper EXCEPT ![s] = "draining"]
  /\ server' = [server EXCEPT ![s] = IF @ = "listening" THEN "closed" ELSE @]
  /\ UNCHANGED <<work, main, signalVars, cancelled, requestVars>>

(* It has waited for the requests, or for 5 seconds. *)
EndShutdown(s) ==
  /\ Alive
  /\ stopper[s] = "draining"
  /\ stopper' = [stopper EXCEPT ![s] = "gone"]
  /\ UNCHANGED <<work, main, signalVars, cancelled, server, requestVars>>

Handle == \E s \in Servers, q \in Requests : Accept(s, q) \/ Answer(s, q)

Serve(s) == StartStopper(s) \/ Bind(s) \/ BeginShutdown(s) \/ EndShutdown(s)

(* The process is gone. *)
Gone == ~Alive /\ UNCHANGED vars

Next == Setup \/ Finish \/ Leave \/ Signal \/ Listen \/ Handle
        \/ (\E s \in Servers : Serve(s)) \/ Gone

(* The goroutines run.  A command that heeds ctx ends once ctx is done, and *)
(* so does <-ctx.Done(); a deaf one may wait for its peer for ever.         *)
Fairness ==
  /\ WF_vars(Setup)
  /\ WF_vars(Leave)
  /\ WF_vars(Listen)
  /\ WF_vars(work # "deaf" /\ cancelled /\ Finish)
  /\ \A s \in Servers : WF_vars(Serve(s))

Spec == Init /\ [][Next]_vars /\ Fairness

------------------------------------------------------------------------------
(* Properties. *)

Signalled == signals > 0

(* A server stops accepting only for a reason: a signal, or the end of the  *)
(* run.  One server that fails to bind, or a slow Shutdown, takes neither   *)
(* the other server nor the command down (main.go:125-149, web.go:69-80).   *)
StopHasACause ==
  /\ cancelled => Signalled \/ main \in {"returning", "exited"}
  /\ main = "exited" => Signalled \/ work # "serve"
  /\ \A s \in Servers : server[s] = "closed" => cancelled

(* Shutdown itself drops no request: as long as the process lives, every    *)
(* request that was accepted is answered or still being answered, and no    *)
(* server goes on listening once its shutdown has begun (web.go:69-74,      *)
(* metrics.go:120-125).                                                     *)
ShutdownIsClean ==
  /\ Alive => cut = {}
  /\ \A s \in Servers :
       server[s] = "listening" => stopper[s] = "waiting"

(* One signal ends a run that serves, and a run whose command heeds ctx, no *)
(* matter when it comes and which servers failed (main.go:125-131, 167-170).*)
SignalEndsRun == Signalled /\ work # "deaf" ~> main = "exited"
=============================================================================
