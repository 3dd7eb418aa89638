--------------------------- MODULE Lifecycle_proofs ---------------------------
(***************************************************************************)
(* The safety of a run of the program, for any servers, any requests and   *)
(* any number of signals.                                                  *)
(***************************************************************************)
EXTENDS Lifecycle, TLAPS

(* What a step can rely on: a signal is delivered only if one was sent, and a*)
(* server shuts down, or the main goroutine leaves, only for its reason.     *)
LifecycleInv ==
  /\ TypeOK
  /\ sigCh > 0 => Signalled
  /\ cancelled => Signalled \/ main \in {"returning", "exited"}
  /\ main \in {"returning", "exited"} => Signalled \/ work # "serve"
  /\ \A s \in Servers :
       /\ stopper[s] \in {"draining", "gone"} => cancelled
       /\ server[s] = "closed" => cancelled
       /\ server[s] = "listening" => stopper[s] = "waiting"
  /\ Alive => cut = {}

LEMMA LifecycleStart == Init => LifecycleInv
<1> SUFFICES ASSUME Init PROVE LifecycleInv
  OBVIOUS
<1>1. /\ 0 \in 0..MaxSignals /\ main = "setup" /\ ~(sigCh > 0)
      /\ ~cancelled /\ cut = {}
  BY LifecycleAssumption DEF Init
<1>2. \A s \in Servers : stopper[s] = "unborn" /\ server[s] = "off"
  BY DEF Init
<1>3. open \in [Servers -> SUBSET Requests]
  BY DEF Init
<1>4. /\ server \in [Servers ->
                      {"off", "starting", "listening", "failed", "closed"}]
      /\ stopper \in [Servers -> {"unborn", "waiting", "draining", "gone"}]
  BY DEF Init
<1>5. /\ signals \in 0..MaxSignals /\ sigCh \in 0..1 /\ listener = "unborn"
      /\ answered = {}
  BY <1>1 DEF Init
<1>6. cancelled \in BOOLEAN /\ work \in {"serve", "heeds", "deaf"}
  BY DEF Init
<1>7. TypeOK
  BY <1>1, <1>3, <1>4, <1>5, <1>6 DEF TypeOK
<1> QED BY <1>1, <1>2, <1>7 DEF LifecycleInv, Alive

LEMMA LifecycleSteps == LifecycleInv /\ [Next]_vars => LifecycleInv'
<1> SUFFICES ASSUME LifecycleInv, [Next]_vars PROVE LifecycleInv'
  OBVIOUS
<1>m. MaxSignals \in Nat /\ MaxSignals > 0
  BY LifecycleAssumption
<1> USE DEF LifecycleInv, TypeOK, Signalled, Alive, signalVars, requestVars,
            serverVars
<1>1. CASE Setup
  BY <1>1 DEF Setup
<1>2. CASE Finish
  BY <1>2 DEF Finish
<1>3. CASE Leave
  <2>1. UNION {open[s] : s \in Servers} \subseteq Requests
    OBVIOUS
  <2> QED BY <1>3, <2>1 DEF Leave, Exit
<1>4. CASE Signal
  <2>1. signals' \in 1..MaxSignals
    BY <1>4, <1>m DEF Signal
  <2>2. CASE main = "setup"
    <3>1. UNION {open[s] : s \in Servers} \subseteq Requests
      OBVIOUS
    <3> QED BY <1>4, <2>1, <2>2, <3>1 DEF Signal, Exit
  <2>3. CASE main # "setup"
    BY <1>4, <2>1, <2>3 DEF Signal
  <2> QED BY <2>2, <2>3
<1>5. CASE Listen
  BY <1>5 DEF Listen
<1>6. ASSUME NEW s \in Servers, NEW q \in Requests,
             Accept(s, q) \/ Answer(s, q)
      PROVE  LifecycleInv'
  BY <1>6 DEF Accept, Answer
<1>7. ASSUME NEW s \in Servers, StartStopper(s) PROVE LifecycleInv'
  BY <1>7 DEF StartStopper
<1>8. ASSUME NEW s \in Servers, Bind(s) PROVE LifecycleInv'
  BY <1>8 DEF Bind
<1>9. ASSUME NEW s \in Servers, BeginShutdown(s) PROVE LifecycleInv'
  BY <1>9 DEF BeginShutdown
<1>10. ASSUME NEW s \in Servers, EndShutdown(s) PROVE LifecycleInv'
  BY <1>10 DEF EndShutdown
<1>11. CASE UNCHANGED vars
  BY <1>11 DEF vars
<1> QED
  BY <1>1, <1>2, <1>3, <1>4, <1>5, <1>6, <1>7, <1>8, <1>9, <1>10, <1>11
     DEF Next, Handle, Serve, Gone

LEMMA LifecycleInvariant == Spec => []LifecycleInv
  BY LifecycleStart, LifecycleSteps, PTL DEF Spec

(* The state of a run stays well typed (runRoot). *)
THEOREM TypesHold == Spec => []TypeOK
<1>1. LifecycleInv => TypeOK
  BY DEF LifecycleInv
<1> QED BY <1>1, LifecycleInvariant, PTL

(* With any number of servers, failing to bind in any combination: a run that*)
(* serves ends only by a signal, and a server stops only when ctx is done.   *)
THEOREM StopsHaveACause == Spec => []StopHasACause
<1>1. LifecycleInv => StopHasACause
  BY DEF LifecycleInv, StopHasACause
<1> QED BY <1>1, LifecycleInvariant, PTL

(* With any number of requests in any server: as long as the process lives,  *)
(* a shutdown cuts none off (Dashboard.Run, metrics.ServeHTTP).              *)
THEOREM ShutdownsAreClean == Spec => []ShutdownIsClean
<1>1. LifecycleInv => ShutdownIsClean
  BY DEF LifecycleInv, ShutdownIsClean
<1> QED BY <1>1, LifecycleInvariant, PTL
===============================================================================
