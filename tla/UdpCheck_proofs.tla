--------------------------- MODULE UdpCheck_proofs ---------------------------
(***************************************************************************)
(* What the verdict of a UDP check rests on, for any ports and any number  *)
(* of unreachables that were meant for other programs.                     *)
(***************************************************************************)
EXTENDS UdpCheck, TLAPS

UdpInv ==
  /\ TypeOK
  /\ state # "none" => run = "done"
  /\ run \in {"dial", "listen", "write"} => reader = "unborn"
  /\ run \in {"dial", "listen"} => listener = "unborn"
  /\ timerDue => readDue
  /\ "unreachable" \in net => peer = "refuses"
  /\ icmpCh => /\ listener = "exited"
               /\ foreign = MaxForeign => peer = "refuses"
  /\ VerdictRests

LEMMA UdpStart == Init => UdpInv
<1> SUFFICES ASSUME Init PROVE UdpInv
  OBVIOUS
<1>1. MaxForeign \in 0..MaxForeign
  BY UdpAssumption
<1>2. /\ ~icmpCh /\ ~readDue /\ ~timerDue /\ ~ctxDone /\ state = "none"
      /\ icmpCh \in BOOLEAN /\ readDue \in BOOLEAN /\ timerDue \in BOOLEAN
      /\ ctxDone \in BOOLEAN /\ run = "dial"
  BY DEF Init
<1>3. TypeOK
  BY <1>1, <1>2 DEF Init, TypeOK
<1> QED BY <1>2, <1>3 DEF Init, UdpInv, VerdictRests

LEMMA UdpSteps == UdpInv /\ [Next]_vars => UdpInv'
<1> SUFFICES ASSUME UdpInv, [Next]_vars PROVE UdpInv'
  OBVIOUS
<1>n. MaxForeign \in Nat /\ foreign \in 0..MaxForeign
  BY UdpAssumption DEF UdpInv, TypeOK
<1> USE DEF UdpInv, TypeOK, VerdictRests, Verdict, procVars, envVars
<1>1. CASE Dial
  BY <1>1 DEF Dial
<1>2. CASE Listen
  <2>1. CASE listener' = "unborn"
    BY <1>2, <2>1 DEF Listen
  <2>2. CASE listener' = "check"
    BY <1>2, <2>2 DEF Listen
  <2> QED BY <1>2, <2>1, <2>2 DEF Listen
<1>3. CASE WriteFails
  BY <1>3 DEF WriteFails
<1>4. CASE Write
  BY <1>4 DEF Write
<1>5. CASE Select
  <2>1. CASE SelectRead
    BY <1>5, <2>1 DEF Select, SelectRead
  <2>2. CASE SelectIcmp
    BY <1>5, <2>2 DEF Select, SelectIcmp
  <2>3. CASE SelectTimer
    BY <1>5, <2>3 DEF Select, SelectTimer
  <2>4. CASE SelectCtx
    BY <1>5, <2>4 DEF Select, SelectCtx
  <2> QED BY <1>5, <2>1, <2>2, <2>3, <2>4 DEF Select
<1>6. CASE Reader
  <2>1. CASE ReadReply
    BY <2>1 DEF ReadReply, ReaderDone
  <2>2. CASE ReadError
    BY <2>2 DEF ReadError, ReaderDone
  <2> QED BY <1>6, <2>1, <2>2 DEF Reader
<1>7. CASE ListenerChecks
  BY <1>7 DEF ListenerChecks
<1>8. CASE HearOwn
  BY <1>8 DEF HearOwn, Heard
<1>9. CASE HearForeign
  <2>1. foreign' \in 0..MaxForeign /\ foreign' # MaxForeign
    BY <1>9, <1>n DEF HearForeign
  <2> QED BY <1>9, <2>1 DEF HearForeign, Heard
<1>10. CASE ListenerGivesUp
  BY <1>10 DEF ListenerGivesUp
<1>11. CASE ReadDeadline \/ TimerFires
  <2>1. CASE ReadDeadline
    BY <2>1 DEF ReadDeadline
  <2>2. CASE TimerFires
    BY <2>2 DEF TimerFires
  <2> QED BY <1>11, <2>1, <2>2
<1>12. CASE Cancel
  BY <1>12 DEF Cancel
<1>13. CASE UNCHANGED vars
  BY <1>13 DEF vars
<1> QED
  BY <1>1, <1>2, <1>3, <1>4, <1>5, <1>6, <1>7, <1>8, <1>9, <1>10, <1>11, <1>12,
     <1>13 DEF Next, Run, Listener, Over

LEMMA UdpInvariant == Spec => []UdpInv
  BY UdpStart, UdpSteps, PTL DEF Spec

(* The state of a UDP check stays well typed; one that is done has a verdict *)
(* (Checker.Run).                                                            *)
THEOREM TypesHold == Spec => []TypeOK
<1>1. UdpInv => TypeOK
  BY DEF UdpInv
<1> QED BY <1>1, UdpInvariant, PTL

(* Whichever of the reader, the ICMP listener, the timer and ctx comes first:*)
(* a port is called open or filtered, closed, or filtered for its reason     *)
(* only (udp.go:161-172).                                                    *)
THEOREM VerdictsRest == Spec => []VerdictRests
<1>1. UdpInv => VerdictRests
  BY DEF UdpInv
<1> QED BY <1>1, UdpInvariant, PTL
==============================================================================
