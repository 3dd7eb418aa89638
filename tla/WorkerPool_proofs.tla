-------------------------- MODULE WorkerPool_proofs --------------------------
(***************************************************************************)
(* Proofs about WorkerPool, for every finite set of workers and every      *)
(* number of jobs.  The inductive invariant is built in layers: types, the *)
(* phases of the call, who holds which job, that nothing is lost without a *)
(* cancel, and the room left in the channels.  Each layer is proved from   *)
(* the ones below it.                                                      *)
(*                                                                         *)
(* The second part is about Discover.  Host discovery is a worker pool:    *)
(* every step of it is a step of WorkerPool or leaves its variables alone, *)
(* so what is proved of the pool holds of discovery over any network.      *)
(***************************************************************************)
EXTENDS Discover, FiniteSetTheorems, TLAPS

(* What appending one element does to the indices of a log and to its        *)
(* entries.                                                                  *)
LEMMA AppendIndices ==
  ASSUME NEW S, NEW s \in Seq(S), NEW e \in S
  PROVE  /\ Len(Append(s, e)) = Len(s) + 1
         /\ 1..Len(Append(s, e)) = 1..Len(s) \union {Len(s) + 1}
         /\ Len(s) + 1 \notin 1..Len(s)
         /\ \A i \in 1..Len(s) : Append(s, e)[i] = s[i]
         /\ Append(s, e)[Len(s) + 1] = e
<1>1. Len(s) \in Nat /\ Len(Append(s, e)) = Len(s) + 1
  OBVIOUS
<1>2. 1..Len(Append(s, e)) = 1..Len(s) \union {Len(s) + 1}
  BY <1>1
<1> QED
  BY <1>1, <1>2

(* What makes TypeOK inductive: a worker past the receive carries a job, and *)
(* one about to send carries a state, so what it sends is a result.          *)
Carry ==
  \A w \in Workers : /\ w \in Busy => hand[w] # 0
                     /\ pc[w] = "send" => found[w] # "NONE"

LEMMA InitTyped == Init => TypeOK /\ Carry
<1>1. Init => TypeOK
  <2> SUFFICES ASSUME Init PROVE TypeOK
    OBVIOUS
  <2>1. cancelled \in BOOLEAN /\ jobsClosed \in BOOLEAN
    BY DEF Init
  <2>2. /\ pc \in [Workers -> {"unborn", "recv", "check", "probe", "send",
                               "exited"}]
        /\ hand \in [Workers -> 0..NumJobs]
        /\ found \in [Workers -> State \union {"NONE"}]
        /\ sent \in Seq(Result)
    BY PoolAssumption DEF Init
  <2>3. /\ main \in {"spawn", "feed", "collect", "returned"}
        /\ closer \in {"unborn", "waiting", "closed"}
        /\ wg \in SUBSET Workers
        /\ fed \in 0..NumJobs /\ taken \in 0..NumJobs
        /\ got \in Nat /\ atCancel \in Nat
    BY PoolAssumption DEF Init
  <2> QED
    BY <2>1, <2>2, <2>3 DEF TypeOK
<1>2. Init => Carry
  BY DEF Init, Carry, Busy
<1> QED
  BY <1>1, <1>2

LEMMA StepTyped == TypeOK /\ Carry /\ [Next]_vars => TypeOK' /\ Carry'
<1> SUFFICES ASSUME TypeOK, Carry, [Next]_vars PROVE TypeOK' /\ Carry'
  OBVIOUS
<1>1. TypeOK'
  <2> USE PoolAssumption DEF TypeOK, State, Jobs, Result, workerVars, jobVars,
                             resultVars, ctxVars
  <2>1. ASSUME NEW w \in Workers, Spawn(w) PROVE TypeOK'
    BY <2>1 DEF Spawn
  <2>2. CASE SpawnDone
    BY <2>2 DEF SpawnDone
  <2>3. CASE Feed
    BY <2>3 DEF Feed
  <2>4. CASE CloseJobs
    BY <2>4 DEF CloseJobs
  <2>5. CASE Collect
    BY <2>5 DEF Collect
  <2>6. CASE Return
    BY <2>6 DEF Return
  <2>7. ASSUME NEW w \in Workers, Take(w) PROVE TypeOK'
    BY <2>7 DEF Take
  <2>8. ASSUME NEW w \in Workers, Drain(w) PROVE TypeOK'
    BY <2>8 DEF Drain, Exit
  <2>9. ASSUME NEW w \in Workers, Abandon(w) PROVE TypeOK'
    BY <2>9 DEF Abandon, Exit
  <2>10. ASSUME NEW w \in Workers, StartProbe(w) PROVE TypeOK'
    BY <2>10 DEF StartProbe
  <2>11. ASSUME NEW w \in Workers, EndProbe(w) PROVE TypeOK'
    BY <2>11 DEF EndProbe, Outcome
  <2>12. CASE CloseResults
    BY <2>12 DEF CloseResults
  <2>13. CASE Cancel
    BY <2>13 DEF Cancel
  <2>14. CASE UNCHANGED vars
    BY <2>14 DEF vars
  <2>15. ASSUME NEW w \in Workers, SendResult(w) PROVE TypeOK'
    <3>1. [job |-> hand[w], state |-> found[w]] \in Result
      BY <2>15 DEF SendResult, Carry, Busy
    <3>2. sent' \in Seq(Result)
      BY <2>15, <3>1 DEF SendResult
    <3>3. /\ pc' \in [Workers -> {"unborn", "recv", "check", "probe", "send",
                                  "exited"}]
          /\ hand' \in [Workers -> 0..NumJobs]
          /\ found' \in [Workers -> State \union {"NONE"}]
      BY <2>15 DEF SendResult
    <3> QED
      BY <2>15, <3>2, <3>3 DEF SendResult
  <2> QED
    BY <2>1, <2>2, <2>3, <2>4, <2>5, <2>6, <2>7, <2>8, <2>9, <2>10, <2>11,
       <2>12, <2>13, <2>14, <2>15 DEF Next, Main, Worker, Done
<1>2. Carry'
  <2> USE DEF TypeOK, Carry, Busy, workerVars
  <2>1. ASSUME NEW w \in Workers, Spawn(w) PROVE Carry'
    BY <2>1 DEF Spawn
  <2>2. ASSUME NEW w \in Workers, Take(w) PROVE Carry'
    BY <2>2 DEF Take
  <2>3. ASSUME NEW w \in Workers, Drain(w) PROVE Carry'
    BY <2>3 DEF Drain, Exit
  <2>4. ASSUME NEW w \in Workers, Abandon(w) PROVE Carry'
    BY <2>4 DEF Abandon, Exit
  <2>5. ASSUME NEW w \in Workers, StartProbe(w) PROVE Carry'
    BY <2>5 DEF StartProbe
  <2>6. ASSUME NEW w \in Workers, EndProbe(w) PROVE Carry'
    BY <2>6 DEF EndProbe, Outcome, State
  <2>7. ASSUME NEW w \in Workers, SendResult(w) PROVE Carry'
    BY <2>7 DEF SendResult
  <2>8. CASE UNCHANGED workerVars
    BY <2>8
  <2> QED
    BY <2>1, <2>2, <2>3, <2>4, <2>5, <2>6, <2>7, <2>8
       DEF Next, Main, Worker, Done, SpawnDone, Feed, CloseJobs, Collect,
           Return, CloseResults, Cancel, vars
<1> QED
  BY <1>1, <1>2

(* Every variable keeps its type: no counter leaves its range, no goroutine  *)
(* reaches a state the code does not have, and what is sent is a result.     *)
THEOREM TypeCorrect == SafeSpec => []TypeOK
<1> QED
  BY InitTyped, StepTyped, PTL DEF SafeSpec

------------------------------------------------------------------------------
(* The phases of the call: what the position of the caller and of the        *)
(* closing goroutine says of everything else.                                *)
Phases ==
  /\ jobsClosed <=> main \in {"collect", "returned"}
  /\ closer = "unborn" <=> main \in {"spawn", "feed"}
  /\ closer = "closed" => wg = {}
  /\ main = "returned" => closer = "closed"
  /\ main # "spawn" => \A w \in Workers : pc[w] # "unborn"
  /\ jobsClosed => fed = NumJobs
  /\ wg = {w \in Workers : pc[w] \notin {"unborn", "exited"}}
  /\ taken <= fed

LEMMA InitPhases == Init => Phases
  BY DEF Init, Phases

LEMMA StepPhases == TypeOK /\ Phases /\ [Next]_vars => Phases'
<1> SUFFICES ASSUME TypeOK, Phases, [Next]_vars PROVE Phases'
  OBVIOUS
<1> USE PoolAssumption DEF TypeOK, Phases, workerVars, jobVars, resultVars,
                           ctxVars
<1>1. ASSUME NEW w \in Workers, Spawn(w) PROVE Phases'
  BY <1>1 DEF Spawn
<1>2. CASE SpawnDone
  BY <1>2 DEF SpawnDone
<1>3. CASE Feed
  BY <1>3 DEF Feed
<1>4. CASE CloseJobs
  BY <1>4 DEF CloseJobs
<1>5. CASE Collect
  BY <1>5 DEF Collect
<1>6. CASE Return
  BY <1>6 DEF Return
<1>7. ASSUME NEW w \in Workers, Take(w) PROVE Phases'
  BY <1>7 DEF Take
<1>8. ASSUME NEW w \in Workers, Drain(w) PROVE Phases'
  BY <1>8 DEF Drain, Exit
<1>9. ASSUME NEW w \in Workers, Abandon(w) PROVE Phases'
  BY <1>9 DEF Abandon, Exit
<1>10. ASSUME NEW w \in Workers, StartProbe(w) PROVE Phases'
  BY <1>10 DEF StartProbe
<1>11. ASSUME NEW w \in Workers, EndProbe(w) PROVE Phases'
  BY <1>11 DEF EndProbe
<1>12. ASSUME NEW w \in Workers, SendResult(w) PROVE Phases'
  BY <1>12 DEF SendResult
<1>13. CASE CloseResults
  BY <1>13 DEF CloseResults
<1>14. CASE Cancel
  BY <1>14 DEF Cancel
<1>15. CASE UNCHANGED vars
  BY <1>15 DEF vars
<1> QED
  BY <1>1, <1>2, <1>3, <1>4, <1>5, <1>6, <1>7, <1>8, <1>9, <1>10, <1>11,
     <1>12, <1>13, <1>14, <1>15 DEF Next, Main, Worker, Done

------------------------------------------------------------------------------
(* Who holds which job: a job in hand or reported has left portCh, and no    *)
(* two places name the same one.                                             *)
Holding ==
  /\ \A w \in Busy : hand[w] \in 1..taken
  /\ \A i \in 1..Len(sent) : sent[i].job \in 1..taken
  /\ AtMostOnce

LEMMA InitHolding == Init => Holding
  BY DEF Init, Holding, AtMostOnce, Busy

LEMMA StepHolding ==
  TypeOK /\ Carry /\ Holding /\ [Next]_vars => Holding'
<1> SUFFICES ASSUME TypeOK, Carry, Holding, [Next]_vars PROVE Holding'
  OBVIOUS
<1> USE DEF Holding, AtMostOnce, Busy
<1>1. ASSUME NEW w \in Workers, Spawn(w) PROVE Holding'
  BY <1>1 DEF Spawn, TypeOK, jobVars, resultVars
<1>2. ASSUME NEW w \in Workers, Take(w) PROVE Holding'
  BY <1>2 DEF Take, TypeOK, resultVars
<1>3. ASSUME NEW w \in Workers, Drain(w) PROVE Holding'
  BY <1>3 DEF Drain, Exit, TypeOK, jobVars, resultVars
<1>4. ASSUME NEW w \in Workers, Abandon(w) PROVE Holding'
  BY <1>4 DEF Abandon, Exit, TypeOK, jobVars, resultVars
<1>5. ASSUME NEW w \in Workers, StartProbe(w) PROVE Holding'
  <2>1. Busy' = Busy /\ UNCHANGED <<hand, taken, sent>>
    BY <1>5 DEF StartProbe, TypeOK, jobVars, resultVars
  <2> HIDE DEF Busy
  <2> QED
    BY <2>1
<1>6. ASSUME NEW w \in Workers, EndProbe(w) PROVE Holding'
  <2>1. Busy' = Busy /\ UNCHANGED <<hand, taken, sent>>
    BY <1>6 DEF EndProbe, TypeOK, jobVars, resultVars
  <2> HIDE DEF Busy
  <2> QED
    BY <2>1
<1>7. ASSUME NEW w \in Workers, SendResult(w) PROVE Holding'
  <2> DEFINE n == Len(sent) + 1
  <2>1. /\ w \in Busy
        /\ taken' = taken
        /\ Busy' = Busy \ {w}
        /\ \A v \in Busy' : hand'[v] = hand[v]
    BY <1>7 DEF SendResult, TypeOK, jobVars
  <2>2. /\ 1..Len(sent') = 1..Len(sent) \union {n}
        /\ n \notin 1..Len(sent)
        /\ \A i \in 1..Len(sent) : sent'[i].job = sent[i].job
        /\ sent'[n].job = hand[w]
    <3>1. [job |-> hand[w], state |-> found[w]] \in Result
      BY <1>7 DEF SendResult, TypeOK, Carry, Result, Jobs, State
    <3> QED
      BY <1>7, <3>1, AppendIndices DEF SendResult, TypeOK
  <2> HIDE DEF n, Busy
  <2>3. \A i \in 1..Len(sent') : sent'[i].job \in 1..taken'
    BY <2>1, <2>2
  <2>4. \A i, j \in 1..Len(sent') : sent'[i].job = sent'[j].job => i = j
    BY <2>1, <2>2
  <2>5. \A v \in Busy', i \in 1..Len(sent') : sent'[i].job # hand'[v]
    BY <2>1, <2>2
  <2> QED
    BY <2>1, <2>3, <2>4, <2>5
<1>8. CASE UNCHANGED <<pc, hand, taken, sent>>
  BY <1>8
<1> QED
  BY <1>1, <1>2, <1>3, <1>4, <1>5, <1>6, <1>7, <1>8
     DEF Next, Main, Worker, Done, SpawnDone, Feed, CloseJobs, Collect, Return,
         CloseResults, Cancel, vars, workerVars, jobVars, resultVars

------------------------------------------------------------------------------
(* Nothing is lost without a cancel: a job taken from portCh is in a hand or *)
(* reported, every state comes from a probe, and a worker leaves only when   *)
(* portCh is closed and drained.                                             *)
InHand == {hand[w] : w \in Busy}
Reported == {sent[i].job : i \in 1..Len(sent)}

Accounting ==
  ~cancelled => /\ 1..taken \subseteq InHand \union Reported
                /\ \A w \in Workers : found[w] # "CANCELLED"
                /\ \A i \in 1..Len(sent) : sent[i].state = "PROBED"
                /\ \A w \in Workers :
                     pc[w] = "exited" => jobsClosed /\ taken = fed

LEMMA InitAccounting == Init => Accounting
  BY DEF Init, Accounting

LEMMA StepAccounting ==
  TypeOK /\ Carry /\ Phases /\ Accounting /\ [Next]_vars => Accounting'
<1> SUFFICES ASSUME TypeOK, Carry, Phases, Accounting, [Next]_vars, ~cancelled'
             PROVE Accounting'
  BY DEF Accounting
<1>1. ~cancelled
  <2>1. ~Cancel
    BY DEF Cancel
  <2>2. UNCHANGED cancelled
    BY <2>1 DEF Next, Main, Worker, Done, Spawn, SpawnDone, Feed, CloseJobs,
         Collect, Return, Take, Drain, Abandon, StartProbe, EndProbe,
         SendResult, CloseResults, vars, ctxVars
  <2> QED
    BY <2>2
<1>2. ASSUME NEW w \in Workers, Spawn(w) PROVE Accounting'
  <2>1. /\ Busy' = Busy
        /\ \A v \in Workers : pc'[v] = "exited" => pc[v] = "exited"
    BY <1>2 DEF Spawn, Busy, TypeOK
  <2>2. UNCHANGED <<InHand, Reported>>
    BY <1>2, <2>1 DEF Spawn, InHand, Reported, resultVars
  <2> QED
    BY <1>1, <1>2, <2>1, <2>2 DEF Spawn, Accounting, jobVars, resultVars
<1>3. CASE Feed
  <2>1. ~jobsClosed
    BY <1>3 DEF Feed, Phases
  <2>2. UNCHANGED <<InHand, Reported>>
    BY <1>3 DEF Feed, InHand, Reported, Busy, workerVars, resultVars
  <2>3. UNCHANGED <<pc, found, taken, sent>>
    BY <1>3 DEF Feed, workerVars, resultVars
  <2>4. \A w \in Workers : pc'[w] # "exited"
    BY <1>1, <2>1, <2>3 DEF Accounting
  <2> QED
    BY <1>1, <2>2, <2>3, <2>4 DEF Accounting
<1>4. CASE CloseJobs
  BY <1>1, <1>4 DEF CloseJobs, Accounting, InHand, Reported, Busy, workerVars
<1>5. ASSUME NEW w \in Workers, Take(w) PROVE Accounting'
  <2>1. /\ Busy' = Busy \union {w} /\ w \notin Busy
        /\ hand'[w] = taken + 1
        /\ \A v \in Busy : hand'[v] = hand[v]
    BY <1>5 DEF Take, Busy, TypeOK
  <2>2. InHand' = InHand \union {taken + 1}
    BY <2>1 DEF InHand
  <2>3. 1..taken' = 1..taken \union {taken + 1}
    BY <1>5 DEF Take, TypeOK
  <2>4. \A v \in Workers :
          pc'[v] = "exited" => pc[v] = "exited" /\ ~(taken = fed)
    BY <1>5 DEF Take, TypeOK
  <2> QED
    BY <1>1, <1>5, <2>2, <2>3, <2>4 DEF Take, Accounting, Reported, resultVars
<1>6. ASSUME NEW w \in Workers, Drain(w) PROVE Accounting'
  <2>1. Busy' = Busy
    BY <1>6 DEF Drain, Exit, Busy, TypeOK
  <2>2. \A v \in Workers : pc'[v] = "exited" => jobsClosed /\ taken = fed
    BY <1>1, <1>6 DEF Drain, Exit, Accounting, TypeOK
  <2> QED
    BY <1>1, <1>6, <2>1, <2>2
       DEF Drain, Accounting, InHand, Reported, jobVars, resultVars
<1>7. ASSUME NEW w \in Workers, StartProbe(w) PROVE Accounting'
  <2>1. /\ Busy' = Busy
        /\ \A v \in Workers : pc'[v] = "exited" => pc[v] = "exited"
    BY <1>7 DEF StartProbe, Busy, TypeOK
  <2> QED
    BY <1>1, <1>7, <2>1
       DEF StartProbe, Accounting, InHand, Reported, jobVars, resultVars
<1>8. ASSUME NEW w \in Workers, EndProbe(w) PROVE Accounting'
  <2>1. /\ Busy' = Busy
        /\ \A v \in Workers : pc'[v] = "exited" => pc[v] = "exited"
    BY <1>8 DEF EndProbe, Busy, TypeOK
  <2>2. \A v \in Workers : found'[v] # "CANCELLED"
    BY <1>1, <1>8 DEF EndProbe, Outcome, Accounting, TypeOK
  <2> QED
    BY <1>1, <1>8, <2>1, <2>2
       DEF EndProbe, Accounting, InHand, Reported, jobVars, resultVars
<1>9. ASSUME NEW w \in Workers, SendResult(w) PROVE Accounting'
  <2> DEFINE n == Len(sent) + 1
  <2>1. /\ Busy' = Busy \ {w}
        /\ \A v \in Busy' : hand'[v] = hand[v]
        /\ \A v \in Workers : pc'[v] = "exited" => pc[v] = "exited"
        /\ \A v \in Workers : found'[v] = found[v] \/ found'[v] = "NONE"
    BY <1>9 DEF SendResult, Busy, TypeOK
  <2>2. /\ [job |-> hand[w], state |-> found[w]] \in Result
        /\ found[w] = "PROBED"
    BY <1>1, <1>9
       DEF SendResult, TypeOK, Carry, Busy, Accounting, Result, Jobs, State
  <2>3. /\ 1..Len(sent') = 1..Len(sent) \union {n}
        /\ n \notin 1..Len(sent)
        /\ \A i \in 1..Len(sent) : sent'[i] = sent[i]
        /\ sent'[n] = [job |-> hand[w], state |-> "PROBED"]
    BY <1>9, <2>2, AppendIndices DEF SendResult, TypeOK
  <2> HIDE DEF n
  <2>4. Reported' = Reported \union {hand[w]}
    BY <2>3 DEF Reported
  <2>5. InHand \subseteq InHand' \union {hand[w]}
    BY <2>1 DEF InHand
  <2>6. \A i \in 1..Len(sent') : sent'[i].state = "PROBED"
    BY <1>1, <2>3 DEF Accounting
  <2> QED
    BY <1>1, <1>9, <2>1, <2>4, <2>5, <2>6 DEF SendResult, Accounting, jobVars
<1>10. CASE UNCHANGED <<workerVars, jobVars, sent>>
  BY <1>1, <1>10
     DEF Accounting, InHand, Reported, Busy, workerVars, jobVars
<1> QED
  BY <1>1, <1>2, <1>3, <1>4, <1>5, <1>6, <1>7, <1>8, <1>9, <1>10
     DEF Next, Main, Worker, Done, SpawnDone, Collect, Return, Abandon,
         CloseResults, Cancel, vars, resultVars

------------------------------------------------------------------------------
(* Room: a result sent and a job in hand each used up one job of the list.   *)
Room == Len(sent) + Cardinality(Busy) <= taken

LEMMA FiniteParts ==
  /\ IsFiniteSet(Busy) /\ Cardinality(Busy) \in Nat
  /\ IsFiniteSet(Probing) /\ Cardinality(Probing) \in Nat
  /\ Cardinality(Probing) <= Cardinality(Workers)
  /\ Cardinality(Workers) \in Nat
  BY PoolAssumption, FS_Subset, FS_CardinalityType DEF Busy, Probing

LEMMA InitRoom == Init => Room
<1> SUFFICES ASSUME Init PROVE Room
  OBVIOUS
<1>1. Busy = {}
  BY DEF Init, Busy
<1>2. Len(sent) = 0 /\ taken = 0
  BY DEF Init
<1> QED
  BY <1>1, <1>2, FS_EmptySet DEF Room

LEMMA StepRoom == TypeOK /\ Room /\ [Next]_vars => Room'
<1> SUFFICES ASSUME TypeOK, Room, [Next]_vars PROVE Room'
  OBVIOUS
<1>0. Len(sent) \in Nat /\ taken \in Nat
  BY PoolAssumption DEF TypeOK
<1>1. ASSUME NEW w \in Workers, Spawn(w) \/ Drain(w) PROVE Room'
  <2>1. Busy' = Busy
    BY <1>1 DEF Spawn, Drain, Exit, Busy, TypeOK
  <2> QED
    BY <1>1, <2>1 DEF Spawn, Drain, Room, jobVars, resultVars
<1>2. ASSUME NEW w \in Workers, StartProbe(w) \/ EndProbe(w) PROVE Room'
  <2>1. Busy' = Busy
    BY <1>2 DEF StartProbe, EndProbe, Busy, TypeOK
  <2> QED
    BY <1>2, <2>1 DEF StartProbe, EndProbe, Room, jobVars, resultVars
<1>3. ASSUME NEW w \in Workers, Take(w) PROVE Room'
  <2>1. Busy' = Busy \union {w} /\ w \notin Busy
    BY <1>3 DEF Take, Busy, TypeOK
  <2>2. Cardinality(Busy') = Cardinality(Busy) + 1
    BY <2>1, FiniteParts, FS_AddElement
  <2> QED
    BY <1>0, <1>3, <2>2, FiniteParts DEF Take, Room, resultVars
<1>4. ASSUME NEW w \in Workers, Abandon(w) PROVE Room'
  <2>1. Busy' = Busy \ {w} /\ w \in Busy
    BY <1>4 DEF Abandon, Exit, Busy, TypeOK
  <2>2. Cardinality(Busy') = Cardinality(Busy) - 1
    BY <2>1, FiniteParts, FS_RemoveElement
  <2> QED
    BY <1>0, <1>4, <2>2, FiniteParts DEF Abandon, Room, jobVars, resultVars
<1>5. ASSUME NEW w \in Workers, SendResult(w) PROVE Room'
  <2>1. Busy' = Busy \ {w} /\ w \in Busy
    BY <1>5 DEF SendResult, Busy, TypeOK
  <2>2. Cardinality(Busy') = Cardinality(Busy) - 1
    BY <2>1, FiniteParts, FS_RemoveElement
  <2>3. Len(sent') = Len(sent) + 1
    BY <1>5 DEF SendResult, TypeOK
  <2> QED
    BY <1>0, <1>5, <2>2, <2>3, FiniteParts DEF SendResult, Room, jobVars
<1>6. CASE UNCHANGED <<pc, taken, sent>>
  BY <1>6 DEF Room, Busy
<1> QED
  BY <1>1, <1>2, <1>3, <1>4, <1>5, <1>6
     DEF Next, Main, Worker, Done, SpawnDone, Feed, CloseJobs, Collect, Return,
         CloseResults, Cancel, vars, workerVars, jobVars, resultVars

------------------------------------------------------------------------------
IndInv == TypeOK /\ Carry /\ Phases /\ Holding /\ Accounting /\ Room

LEMMA Invariance == SafeSpec => []IndInv
<1>1. Init => IndInv
  BY InitTyped, InitPhases, InitHolding, InitAccounting, InitRoom DEF IndInv
<1>2. IndInv /\ [Next]_vars => IndInv'
  BY StepTyped, StepPhases, StepHolding, StepAccounting, StepRoom DEF IndInv
<1> QED
  BY <1>1, <1>2, PTL DEF SafeSpec

(* No job is reported twice or held by two workers, for any number of        *)
(* workers and jobs.                                                         *)
THEOREM EachJobOnce == SafeSpec => []AtMostOnce
<1>1. IndInv => AtMostOnce
  BY DEF IndInv, Holding
<1> QED
  BY <1>1, Invariance, PTL

(* No worker ever sends on the closed resultCh, and none ever blocks in the  *)
(* send: Room leaves a place in the buffer for every job in a hand.          *)
THEOREM SendsAreSafe == SafeSpec => []SendSafe
<1>1. IndInv => SendSafe
  <2> SUFFICES ASSUME IndInv, NEW w \in Workers, pc[w] = "send"
               PROVE  closer # "closed" /\ Len(sent) - got < ResultCap
    BY DEF SendSafe
  <2>1. closer # "closed"
    BY DEF IndInv, Phases
  <2>2. Cardinality(Busy) > 0
    <3>1. w \in Busy
      BY DEF Busy
    <3> QED
      BY <3>1, FiniteParts, FS_EmptySet
  <2>3. Len(sent) < taken
    BY <2>2, FiniteParts, PoolAssumption DEF IndInv, Room, TypeOK
  <2> QED
    BY <2>1, <2>3, PoolAssumption DEF IndInv, TypeOK, ResultCap
<1> QED
  BY <1>1, Invariance, PTL

(* When every result is in, an uncancelled pool with a worker has probed and *)
(* reported every job.                                                       *)
LEMMA AllReported ==
  IndInv /\ closer = "closed" /\ ~cancelled /\ Workers # {} =>
    /\ Reported = Jobs
    /\ \A i \in 1..Len(sent) : sent[i].state = "PROBED"
<1> SUFFICES ASSUME IndInv, closer = "closed", ~cancelled, Workers # {}
             PROVE  /\ Reported = Jobs
                    /\ \A i \in 1..Len(sent) : sent[i].state = "PROBED"
  OBVIOUS
<1>1. \A w \in Workers : pc[w] = "exited"
  BY DEF IndInv, Phases, TypeOK
<1>2. jobsClosed /\ taken = fed
  BY <1>1 DEF IndInv, Accounting
<1>3. taken = NumJobs
  BY <1>2 DEF IndInv, Phases
<1>4. InHand = {}
  BY <1>1 DEF InHand, Busy
<1>5. Jobs \subseteq Reported
  BY <1>3, <1>4 DEF IndInv, Accounting, Jobs
<1>6. Reported \subseteq Jobs
  BY <1>3 DEF IndInv, Holding, Reported, Jobs
<1> QED
  BY <1>5, <1>6 DEF IndInv, Accounting

(* A batch that returns uncancelled is complete.                             *)
THEOREM BatchesAreComplete == SafeSpec => []CompleteUnlessCancelled
<1>1. IndInv => CompleteUnlessCancelled
  BY AllReported DEF CompleteUnlessCancelled, Reported, IndInv, Phases
<1> QED
  BY <1>1, Invariance, PTL

(* A cancel leaves at most one more result to each worker.                   *)
THEOREM StopsPromptly == SafeSpec => []PromptStop
<1>1. Init => PromptStop
  BY DEF Init, PromptStop
<1>2. IndInv /\ PromptStop /\ [Next]_vars => PromptStop'
  <2> SUFFICES ASSUME IndInv, PromptStop, [Next]_vars PROVE PromptStop'
    OBVIOUS
  <2>0. Len(sent) \in Nat /\ atCancel \in Nat
    BY DEF IndInv, TypeOK
  <2>1. CASE Cancel
    <3>1. Probing' = Probing /\ Len(sent') - atCancel' = 0
      BY <2>0, <2>1 DEF Cancel, Probing, workerVars, resultVars
    <3> QED
      BY <3>1, FiniteParts DEF PromptStop
  <2>2. ASSUME NEW w \in Workers, SendResult(w) PROVE PromptStop'
    <3>1. Probing' = Probing \ {w} /\ w \in Probing
      BY <2>2 DEF SendResult, Probing, IndInv, TypeOK
    <3>2. Cardinality(Probing') = Cardinality(Probing) - 1
      BY <3>1, FiniteParts, FS_RemoveElement
    <3>3. Len(sent') = Len(sent) + 1 /\ UNCHANGED <<cancelled, atCancel>>
      BY <2>2 DEF SendResult, ctxVars, IndInv, TypeOK
    <3> QED
      BY <2>0, <3>2, <3>3, FiniteParts DEF PromptStop
  <2>3. ASSUME NEW w \in Workers, StartProbe(w) PROVE PromptStop'
    BY <2>3 DEF StartProbe, PromptStop, ctxVars
  <2>4. CASE Probing' = Probing /\ UNCHANGED <<sent, ctxVars>>
    BY <2>4 DEF PromptStop, ctxVars
  <2>5. ASSUME NEW w \in Workers, Spawn(w) \/ Take(w) PROVE Probing' = Probing
    BY <2>5 DEF Spawn, Take, Probing, IndInv, TypeOK
  <2>6. ASSUME NEW w \in Workers, Drain(w) \/ Abandon(w)
        PROVE  Probing' = Probing
    BY <2>6 DEF Drain, Abandon, Exit, Probing, IndInv, TypeOK
  <2>7. ASSUME NEW w \in Workers, EndProbe(w) PROVE Probing' = Probing
    BY <2>7 DEF EndProbe, Probing, IndInv, TypeOK
  <2>8. CASE UNCHANGED <<workerVars, sent, ctxVars>>
    BY <2>4, <2>8 DEF Probing, workerVars
  <2> QED
    BY <2>1, <2>2, <2>3, <2>4, <2>5, <2>6, <2>7, <2>8
       DEF Next, Main, Worker, Done, Spawn, SpawnDone, Feed, CloseJobs,
          Collect,
           Return, Take, Drain, Abandon, EndProbe, CloseResults, vars,
           workerVars, resultVars
<1> QED
  BY <1>1, <1>2, Invariance, PTL DEF SafeSpec

------------------------------------------------------------------------------
(* The pool implements the safety half of Batch: sending a result is Report, *)
(* returning is Finish, cancelling is CancelBatch, and everything else is    *)
(* invisible to the caller.                                                  *)
THEOREM PoolIsABatch == SafeSpec => Abstract!BatchSafety
<1> USE DEF Abstract!batchVars
<1>1. Init => Abstract!BatchInit
  <2> SUFFICES ASSUME Init PROVE Abstract!BatchInit
    OBVIOUS
  <2>1. Len(sent) = 0
    BY DEF Init
  <2>2. Unreported = Jobs
    BY <2>1 DEF Unreported
  <2> QED
    BY <2>2 DEF Init, Abstract!BatchInit
<1>2. IndInv /\ [Next]_vars => [Abstract!BatchNext]_Abstract!batchVars
  <2> SUFFICES ASSUME IndInv, [Next]_vars
               PROVE  [Abstract!BatchNext]_Abstract!batchVars
    OBVIOUS
  <2>1. ASSUME NEW w \in Workers, SendResult(w) PROVE Abstract!BatchNext
    <3> DEFINE r == [job |-> hand[w], state |-> found[w]]
               n == Len(sent) + 1
    <3>1. r \in Result
      BY <2>1 DEF SendResult, IndInv, TypeOK, Carry, Busy, Result, Jobs, State
    <3>2. main # "returned"
      BY <2>1 DEF SendResult, IndInv, Phases
    <3>3. r.job \in Unreported
      BY <2>1, <3>1
         DEF SendResult, IndInv, Holding, AtMostOnce, Busy, Unreported, Result
    <3>4. r.state = "CANCELLED" => cancelled
      BY <2>1 DEF IndInv, Accounting
    <3>5. /\ 1..Len(sent') = 1..Len(sent) \union {n}
          /\ n \notin 1..Len(sent)
          /\ \A i \in 1..Len(sent) : sent'[i] = sent[i]
          /\ sent'[n] = r
          /\ sent' = Append(sent, r)
      BY <2>1, <3>1, AppendIndices DEF SendResult, IndInv, TypeOK
    <3> HIDE DEF n
    <3>6. Unreported' = Unreported \ {r.job}
      BY <3>5 DEF Unreported
    <3>7. UNCHANGED <<cancelled, main>>
      BY <2>1 DEF SendResult, ctxVars
    <3>8. Abstract!Report(r)
      BY <3>2, <3>3, <3>4, <3>5, <3>6, <3>7 DEF Abstract!Report
    <3>9. r \in Abstract!Result
      BY <3>1 DEF Abstract!Result, Result, State
    <3> QED
      BY <3>8, <3>9 DEF Abstract!BatchNext, Abstract!ReportSome
  <2>2. CASE Return
    <3>1. UNCHANGED <<sent, Unreported, cancelled>> /\ main # "returned"
      BY <2>2 DEF Return, Unreported, resultVars, ctxVars
    <3>2. Unreported = {} \/ cancelled \/ Workers = {}
      BY <2>2, AllReported DEF Return, Unreported, Reported
    <3> QED
      BY <2>2, <3>1, <3>2 DEF Return, Abstract!Finish, Abstract!BatchNext
  <2>3. CASE Cancel
    <3>1. UNCHANGED <<sent, Unreported, main>>
      BY <2>3 DEF Cancel, Unreported, resultVars
    <3> QED
      BY <2>3, <3>1 DEF Cancel, Abstract!CancelBatch, Abstract!BatchNext
  <2>4. CASE UNCHANGED <<sent, cancelled, main = "returned">>
    BY <2>4 DEF Unreported
  <2>5. CASE SpawnDone \/ Feed \/ CloseJobs \/ Collect \/ CloseResults
    BY <2>4, <2>5 DEF SpawnDone, Feed, CloseJobs, Collect, CloseResults,
                      resultVars, ctxVars
  <2>6. ASSUME NEW w \in Workers,
               \/ Spawn(w) \/ Take(w) \/ Drain(w) \/ Abandon(w)
               \/ StartProbe(w) \/ EndProbe(w)
        PROVE  UNCHANGED <<sent, cancelled, main>>
    BY <2>6 DEF Spawn, Take, Drain, Abandon, StartProbe, EndProbe, resultVars,
                ctxVars
  <2>7. CASE UNCHANGED vars
    BY <2>4, <2>7 DEF vars, resultVars, ctxVars
  <2> QED
    BY <2>1, <2>2, <2>3, <2>4, <2>5, <2>6, <2>7 DEF Next, Main, Worker, Done
<1> QED
  BY <1>1, <1>2, Invariance, PTL DEF SafeSpec, Abstract!BatchSafety

------------------------------------------------------------------------------
(* Host discovery. *)

(* The steps between BeginHost and the verdict are inside a probe.          *)
LEMMA ProbeSteps ==
  ASSUME NEW w \in Workers, Probe(w)
  PROVE  EndProbe(w) \/ UNCHANGED vars
<1>1. CASE PingFails(w) BY <1>1 DEF PingFails, Inside
<1>2. CASE OpenSocket(w) \/ SendEcho(w)
  BY <1>2 DEF OpenSocket, SendEcho, Inside
<1>3. CASE ReadReply(w) BY <1>3 DEF ReadReply, Conclude
<1>4. CASE ReadNothing(w) BY <1>4 DEF ReadNothing, Inside
<1>5. CASE DialPort(w) BY <1>5 DEF DialPort, Conclude, Inside
<1>6. CASE GiveUp(w) BY <1>6 DEF GiveUp, Conclude
<1> QED BY <1>1, <1>2, <1>3, <1>4, <1>5, <1>6 DEF Probe

(* What happens on the wire is no step of the pool.                         *)
LEMMA WireSteps == Wire => UNCHANGED vars
BY DEF Wire, OtherPacket, Deliver, Lose, Inside

(* A step of discovery is a step of the pool, or of the network only        *)
(* (discover.go:53-137).                                                    *)
LEMMA HostStep == [HostNext]_<<vars, hostVars>> => [Next]_vars
<1> SUFFICES ASSUME [HostNext]_<<vars, hostVars>> PROVE [Next]_vars
  OBVIOUS
<1>1. CASE PoolStep
  <2>1. CASE \E w \in Workers : Take(w) \/ Drain(w) \/ Abandon(w)
    BY <2>1 DEF Next, Worker
  <2>2. CASE Main \/ CloseResults \/ Cancel \/ Done
    BY <2>2 DEF Next
  <2> QED BY <1>1, <2>1, <2>2 DEF PoolStep
<1>2. CASE \E w \in Workers : BeginHost(w) \/ Probe(w) \/ SendHost(w)
  <2> PICK w \in Workers : BeginHost(w) \/ Probe(w) \/ SendHost(w)
    BY <1>2
  <2>1. CASE BeginHost(w) BY <2>1 DEF BeginHost, Next, Worker
  <2>2. CASE Probe(w) BY <2>2, ProbeSteps DEF Next, Worker
  <2>3. CASE SendHost(w) BY <2>3 DEF SendHost, Next, Worker
  <2> QED BY <2>1, <2>2, <2>3
<1>3. CASE Wire BY <1>3, WireSteps
<1>4. CASE UNCHANGED <<vars, hostVars>> BY <1>4
<1> QED BY <1>1, <1>2, <1>3, <1>4 DEF HostNext

(* Discovery implements the pool: one result leaves a worker per host,      *)
(* however it was found.                                                    *)
THEOREM DiscoveryIsAPool == HostSpec => ImplementsPool
<1>1. HostInit => Init
  BY DEF HostInit
<1> QED BY <1>1, HostStep, PTL DEF HostSpec, SafeSpec, ImplementsPool

(* So discovery, too, reports no host twice and, unless it is cancelled,    *)
(* every one; it never sends on a closed channel, and after a cancel each   *)
(* worker finishes at most the host it is at.                               *)
THEOREM DiscoveryIsABatch ==
  HostSpec =>
    [](AtMostOnce /\ SendSafe /\ CompleteUnlessCancelled /\ PromptStop)
BY DiscoveryIsAPool, EachJobOnce, SendsAreSafe, BatchesAreComplete,
   StopsPromptly, PTL DEF ImplementsPool

------------------------------------------------------------------------------
(* The verdicts. *)

Right(s, h) ==
  /\ s = "Alive/TCP" => open[h] # {}
  /\ s = "Unknown" => ~TcpEnabled \/ open[h] = {}

HostTyped ==
  /\ replies \subseteq Jobs
  /\ open \in [Jobs -> SUBSET (1..Ports)]
  /\ step \in [Workers -> {"idle", "socket", "send", "read", "dial"}]
  /\ first \in [Workers -> {None, Other} \union Jobs]
  /\ port \in [Workers -> 0..Ports]
  /\ wire \subseteq replies
  /\ state \in [Workers -> HostState]
  /\ report \in Seq(HostState \ {""}) /\ Len(report) = Len(sent)
  /\ others \in 0..MaxOther

(* A worker that dials has found the ports before this one closed, all of    *)
(* them once none is left.                                                   *)
Dialling(w) ==
  IF port[w] = 0 THEN ~TcpEnabled \/ open[hand[w]] = {}
  ELSE \A p \in 1..(port[w] - 1) : p \notin open[hand[w]]

Verdicts ==
  /\ \A w \in Workers :
       /\ step[w] # "idle" => pc[w] = "probe"
       /\ step[w] = "dial" => Dialling(w)
       /\ pc[w] = "send" => state[w] # "" /\ Right(state[w], hand[w])
  /\ \A i \in 1..Len(report) : Right(report[i], sent[i].job)

LEMMA VerdictsStart == HostInit => HostTyped /\ Verdicts
<1> SUFFICES ASSUME HostInit PROVE HostTyped /\ Verdicts
  OBVIOUS
<1>1. /\ report \in Seq(HostState \ {""}) /\ Len(report) = 0 /\ Len(sent) = 0
      /\ 1..Len(report) = {}
  <2>1. report = <<>> /\ sent = <<>>
    BY DEF HostInit, Init
  <2>2. 1..0 = {}
    OBVIOUS
  <2> QED BY <2>1, <2>2
<1>2. 0 \in 0..MaxOther /\ 0 \in 0..Ports
  BY DiscoverAssumption
<1>3. /\ step \in [Workers -> {"idle", "socket", "send", "read", "dial"}]
      /\ first \in [Workers -> {None, Other} \union Jobs]
      /\ port \in [Workers -> 0..Ports]
      /\ state \in [Workers -> HostState]
  BY <1>2 DEF HostInit, HostState
<1>4. \A w \in Workers : step[w] = "idle" /\ pc[w] = "unborn"
  BY DEF HostInit, Init
<1>5. HostTyped
  BY <1>1, <1>2, <1>3 DEF HostInit, HostTyped
<1> QED BY <1>1, <1>4, <1>5 DEF Verdicts

(* What the steps of the pool and of the wire leave alone. *)
LEMMA VerdictsStand ==
  ASSUME HostTyped, Verdicts,
         UNCHANGED <<step, port, state, report, open, sent>>,
         \A w \in Workers : /\ step[w] # "idle" => /\ pc'[w] = "probe"
                                                  /\ hand'[w] = hand[w]
                            /\ pc'[w] = "send" => /\ pc[w] = "send"
                                                  /\ hand'[w] = hand[w]
  PROVE  Verdicts'
  BY DEF Verdicts, Dialling, Right

LEMMA VerdictSteps ==
  ASSUME TypeOK, Carry, HostTyped, Verdicts, [HostNext]_<<vars, hostVars>>
  PROVE  HostTyped' /\ Verdicts'
<1>n. /\ Ports \in Nat /\ MaxOther \in Nat
      /\ IcmpEnabled \in BOOLEAN /\ TcpEnabled \in BOOLEAN
  BY DiscoverAssumption
<1>h. \A w \in Workers : pc[w] \in {"probe", "send"} => hand[w] \in Jobs
  BY DEF TypeOK, Carry, Busy, Jobs
<1>t. /\ step \in [Workers -> {"idle", "socket", "send", "read", "dial"}]
      /\ port \in [Workers -> 0..Ports] /\ state \in [Workers -> HostState]
      /\ first \in [Workers -> {None, Other} \union Jobs]
      /\ pc \in [Workers -> {"unborn", "recv", "check", "probe", "send",
                             "exited"}]
      /\ hand \in [Workers -> 0..NumJobs]
  BY DEF HostTyped, TypeOK
<1>1. CASE PoolStep
  <2>1. UNCHANGED <<replies, open, step, first, port, wire, state, report,
                    others>>
    BY <1>1 DEF PoolStep, hostVars, worldVars, probeVars, wireVars
  <2>2. /\ sent' = sent
        /\ \A w \in Workers :
             /\ pc[w] = "probe" => pc'[w] = "probe" /\ hand'[w] = hand[w]
             /\ pc'[w] = "send" => pc[w] = "send" /\ hand'[w] = hand[w]
    <3>1. CASE Main
      BY <3>1, <1>t DEF Main, Spawn, SpawnDone, Feed, CloseJobs, Collect,
         Return, workerVars, resultVars
    <3>2. CASE \E w \in Workers : Take(w) \/ Drain(w) \/ Abandon(w)
      BY <3>2, <1>t DEF Take, Drain, Abandon, Exit, resultVars
    <3>3. CASE CloseResults \/ Cancel \/ Done
      BY <3>3 DEF CloseResults, Cancel, Done, vars, workerVars, resultVars
    <3> QED BY <1>1, <3>1, <3>2, <3>3 DEF PoolStep
  <2>3. Verdicts'
    BY <2>1, <2>2, VerdictsStand DEF Verdicts
  <2> QED BY <2>1, <2>2, <2>3 DEF HostTyped
<1>2. ASSUME NEW w \in Workers, BeginHost(w) PROVE HostTyped' /\ Verdicts'
  <2>1. /\ pc[w] = "check" /\ pc' = [pc EXCEPT ![w] = "probe"]
        /\ UNCHANGED <<hand, sent, first, state, report, replies, open, wire,
                       others>>
    BY <1>2 DEF BeginHost, StartProbe, worldVars, wireVars, resultVars
  <2>2. hand[w] \in Jobs
    BY <2>1 DEF TypeOK, Carry, Busy, Jobs
  <2>3. CASE IcmpEnabled
    <3>1. step' = [step EXCEPT ![w] = "socket"] /\ port' = port
      BY <1>2, <2>3 DEF BeginHost
    <3> QED BY <2>1, <3>1, <1>t DEF HostTyped, Verdicts, Dialling, Right
  <2>4. CASE ~IcmpEnabled
    <3>1. /\ step' = [step EXCEPT ![w] = "dial"]
          /\ port' = [port EXCEPT ![w] = IF TcpEnabled /\ Ports > 0 THEN 1
                                         ELSE 0]
      BY <1>2, <2>4 DEF BeginHost, ToPorts
    <3>2. Dialling(w)'
      <4>1. CASE TcpEnabled /\ Ports > 0
        BY <4>1, <3>1, <1>t DEF Dialling
      <4>2. CASE ~(TcpEnabled /\ Ports > 0)
        <5>1. ~TcpEnabled \/ 1..Ports = {}
          BY <4>2, <1>n
        <5>2. open[hand[w]] \subseteq 1..Ports
          BY <2>2 DEF HostTyped
        <5> QED BY <5>1, <5>2, <4>2, <3>1, <2>1, <1>t DEF Dialling
      <4> QED BY <4>1, <4>2
    <3>3. port' \in [Workers -> 0..Ports]
      BY <3>1, <1>t, <1>n
    <3> QED BY <2>1, <3>1, <3>2, <3>3, <1>t
               DEF HostTyped, Verdicts, Dialling, Right
  <2> QED BY <2>3, <2>4, <1>n
<1>3. ASSUME NEW w \in Workers, PingFails(w) \/ ReadNothing(w)
      PROVE  HostTyped' /\ Verdicts'
  <2>1. /\ step[w] \in {"socket", "send", "read"}
        /\ step' = [step EXCEPT ![w] = "dial"]
        /\ port' = [port EXCEPT ![w] = IF TcpEnabled /\ Ports > 0 THEN 1
                                       ELSE 0]
        /\ UNCHANGED <<pc, hand, sent, state, report, replies, open, wire,
                       others>>
        /\ first' \in [Workers -> {None, Other} \union Jobs]
    BY <1>3, <1>t DEF PingFails, ReadNothing, ToPorts, Inside, vars,
       workerVars, resultVars, worldVars, wireVars
  <2>2. hand[w] \in Jobs
    BY <2>1, <1>h DEF Verdicts
  <2>3. Dialling(w)'
    <3>1. CASE TcpEnabled /\ Ports > 0
      BY <3>1, <2>1, <1>t DEF Dialling
    <3>2. CASE ~(TcpEnabled /\ Ports > 0)
      <4>1. ~TcpEnabled \/ 1..Ports = {}
        BY <3>2, <1>n
      <4>2. open[hand[w]] \subseteq 1..Ports
        BY <2>2 DEF HostTyped
      <4> QED BY <4>1, <4>2, <3>2, <2>1, <1>t DEF Dialling
    <3> QED BY <3>1, <3>2
  <2>4. port' \in [Workers -> 0..Ports]
    BY <2>1, <1>t, <1>n
  <2> QED BY <2>1, <2>3, <2>4, <1>t DEF HostTyped, Verdicts, Dialling, Right
<1>4. ASSUME NEW w \in Workers, OpenSocket(w) \/ SendEcho(w)
      PROVE  HostTyped' /\ Verdicts'
  <2>1. /\ step[w] # "idle"
        /\ \E s \in {"send", "read"} : step' = [step EXCEPT ![w] = s]
        /\ wire' \in {wire, wire \union ({hand[w]} \intersect replies)}
        /\ UNCHANGED <<pc, hand, sent, first, port, state, report, replies,
                       open, others>>
    BY <1>4 DEF OpenSocket, SendEcho, Inside, vars, workerVars, resultVars,
       worldVars, wireVars
  <2> QED BY <2>1, <1>t DEF HostTyped, Verdicts, Dialling, Right
<1>5. CASE Wire
  <2>1. /\ UNCHANGED <<pc, hand, sent, step, port, state, report, replies,
                       open>>
        /\ wire' \subseteq wire /\ others' \in 0..MaxOther
        /\ first' \in [Workers -> {None, Other} \union Jobs]
    <3>1. CASE OtherPacket
      <4>1. /\ UNCHANGED <<pc, hand, sent, step, port, state, report, replies,
                          open, wire>>
            /\ others < MaxOther /\ others' = others + 1 /\ Received(Other)
        BY <3>1 DEF OtherPacket, Inside, vars, workerVars, resultVars,
           worldVars
      <4>2. others' \in 0..MaxOther
        <5>1. others \in 0..MaxOther
          BY DEF HostTyped
        <5> QED BY <4>1, <5>1, <1>n
      <4>3. first' \in [Workers -> {None, Other} \union Jobs]
        BY <4>1, <1>t DEF Received
      <4> QED BY <4>1, <4>2, <4>3
    <3>2. ASSUME NEW h \in Jobs, Deliver(h) \/ Lose(h)
          PROVE  /\ UNCHANGED <<pc, hand, sent, step, port, state, report,
                                replies, open, others>>
                 /\ wire' \subseteq wire
                 /\ first' \in [Workers -> {None, Other} \union Jobs]
      BY <3>2, <1>t DEF Deliver, Lose, Received, Inside, vars, workerVars,
         resultVars, worldVars, probeVars
    <3> QED BY <1>5, <3>1, <3>2 DEF Wire, HostTyped
  <2>2. Verdicts'
    BY <2>1, VerdictsStand DEF Verdicts
  <2> QED BY <2>1, <2>2 DEF HostTyped
<1>6. ASSUME NEW w \in Workers, ReadReply(w) \/ GiveUp(w)
      PROVE  HostTyped' /\ Verdicts'
  <2>1. /\ pc' = [pc EXCEPT ![w] = "send"]
        /\ step' = [step EXCEPT ![w] = "idle"]
        /\ UNCHANGED <<hand, sent, port, report, replies, open, wire, others>>
        /\ first' \in [Workers -> {None, Other} \union Jobs]
    BY <1>6, <1>t DEF ReadReply, GiveUp, Conclude, EndProbe, resultVars,
       worldVars, wireVars
  <2>2. PICK s \in {"Alive/ICMP", "Unknown"} :
          /\ state' = [state EXCEPT ![w] = s]
          /\ s = "Unknown" => step[w] = "dial" /\ port[w] = 0
    BY <1>6 DEF ReadReply, GiveUp, Conclude
  <2>3. Right(s, hand[w])
    BY <2>2 DEF Verdicts, Dialling, Right
  <2>4. /\ state' \in [Workers -> HostState] /\ state'[w] = s /\ s # ""
        /\ \A v \in Workers \ {w} : state'[v] = state[v]
    BY <2>2, <1>t DEF HostState
  <2>5. HostTyped'
    BY <2>1, <2>4, <1>t DEF HostTyped
  <2> QED BY <2>1, <2>3, <2>4, <2>5, <1>t DEF Verdicts, Dialling, Right
<1>7. ASSUME NEW w \in Workers, DialPort(w) PROVE HostTyped' /\ Verdicts'
  <2>1. /\ step[w] = "dial" /\ port[w] # 0 /\ pc[w] = "probe"
        /\ hand[w] \in Jobs /\ open[hand[w]] \subseteq 1..Ports
        /\ UNCHANGED <<hand, sent, first, report, replies, open, wire, others>>
    BY <1>7, <1>h DEF DialPort, Conclude, EndProbe, Inside, vars, workerVars,
       resultVars, worldVars, wireVars, Verdicts, HostTyped
  <2>2. CASE port[w] \in open[hand[w]]
    <3>1. /\ pc' = [pc EXCEPT ![w] = "send"]
          /\ step' = [step EXCEPT ![w] = "idle"]
          /\ port' = [port EXCEPT ![w] = 0]
          /\ state' = [state EXCEPT ![w] = "Alive/TCP"]
      BY <1>7, <2>2 DEF DialPort, Conclude, EndProbe
    <3>2. state' \in [Workers -> HostState] /\ port' \in [Workers -> 0..Ports]
      <4>1. "Alive/TCP" \in HostState /\ 0 \in 0..Ports
        BY <1>n DEF HostState
      <4> QED BY <3>1, <4>1, <1>t
    <3>3. HostTyped'
      BY <2>1, <3>1, <3>2, <1>t DEF HostTyped
    <3> QED BY <2>1, <2>2, <3>1, <3>3, <1>t DEF Verdicts, Dialling, Right
  <2>3. CASE port[w] \notin open[hand[w]]
    <3>1. /\ port' = [port EXCEPT ![w] = (port[w] + 1) % (Ports + 1)]
          /\ UNCHANGED <<pc, step, state>>
      BY <1>7, <2>3 DEF DialPort, Inside, vars, workerVars
    <3>2. port[w] \in 1..Ports
      BY <2>1, <1>t, <1>n
    <3>3. /\ port' \in [Workers -> 0..Ports]
          /\ port'[w] = IF port[w] = Ports THEN 0 ELSE port[w] + 1
      <4>1. (port[w] + 1) % (Ports + 1) = IF port[w] = Ports THEN 0
                                          ELSE port[w] + 1
        BY <3>2, <1>n
      <4> QED BY <4>1, <3>1, <3>2, <1>t, <1>n
    <3>4. \A p \in 1..port[w] : p \notin open[hand[w]]
      <4>1. \A p \in 1..(port[w] - 1) : p \notin open[hand[w]]
        BY <2>1 DEF Verdicts, Dialling
      <4>2. \A p \in 1..port[w] : p \in 1..(port[w] - 1) \/ p = port[w]
        BY <3>2, <1>n
      <4> QED BY <4>1, <4>2, <2>3
    <3>5. Dialling(w)'
      <4>1. CASE port[w] = Ports
        BY <4>1, <3>3, <3>4, <2>1 DEF Dialling
      <4>2. CASE port[w] # Ports
        <5>1. port'[w] # 0 /\ 1..(port'[w] - 1) = 1..port[w]
          BY <4>2, <3>2, <3>3, <1>n
        <5> QED BY <5>1, <3>4, <2>1 DEF Dialling
      <4> QED BY <4>1, <4>2
    <3>6. HostTyped'
      BY <2>1, <3>1, <3>3 DEF HostTyped
    <3> QED BY <2>1, <3>1, <3>5, <3>6, <1>t DEF Verdicts, Dialling, Right
  <2> QED BY <2>2, <2>3
<1>8. ASSUME NEW w \in Workers, SendHost(w) PROVE HostTyped' /\ Verdicts'
  <2>1. /\ pc[w] = "send" /\ pc' = [pc EXCEPT ![w] = "recv"]
        /\ hand' = [hand EXCEPT ![w] = 0]
        /\ sent' = Append(sent, [job |-> hand[w], state |-> found[w]])
        /\ report' = Append(report, state[w])
        /\ state' = [state EXCEPT ![w] = ""]
        /\ UNCHANGED <<step, first, port, replies, open, wire, others>>
    BY <1>8 DEF SendHost, SendResult, worldVars, wireVars
  <2>2. /\ state[w] \in HostState \ {""} /\ Right(state[w], hand[w])
        /\ [job |-> hand[w], state |-> found[w]] \in Result
        /\ step[w] = "idle"
    BY <2>1, <1>h, <1>t DEF Verdicts, TypeOK, Carry, Result
  <2>3. PICK r \in Result : /\ r.job = hand[w] /\ sent' = Append(sent, r)
    BY <2>1, <2>2
  <2>4. /\ report' \in Seq(HostState \ {""}) /\ Len(report') = Len(sent')
        /\ \A i \in 1..Len(report) :
             report'[i] = report[i] /\ sent'[i] = sent[i]
        /\ report'[Len(report) + 1] = state[w]
        /\ sent'[Len(report) + 1].job = hand[w]
        /\ 1..Len(report') = 1..Len(report) \union {Len(report) + 1}
    <3> DEFINE V == HostState \ {""}
    <3>1. /\ report \in Seq(V) /\ sent \in Seq(Result)
          /\ Len(report) = Len(sent) /\ state[w] \in V
      BY <2>2 DEF HostTyped, TypeOK
    <3> HIDE DEF V
    <3>r. report' = Append(report, state[w])
      BY <2>1
    <3>s. sent' = Append(sent, r)
      BY <2>3
    <3>2. /\ Len(report') = Len(report) + 1
          /\ 1..Len(report') = 1..Len(report) \union {Len(report) + 1}
          /\ \A i \in 1..Len(report) : report'[i] = report[i]
          /\ report'[Len(report) + 1] = state[w]
      BY <3>1, <3>r, AppendIndices
    <3>3. /\ Len(sent') = Len(sent) + 1
          /\ \A i \in 1..Len(sent) : sent'[i] = sent[i]
          /\ sent'[Len(sent) + 1] = r
      BY <3>1, <3>s, AppendIndices
    <3>4. report' \in Seq(V)
      BY <3>1, <3>r
    <3> QED BY <3>1, <3>2, <3>3, <3>4, <2>3 DEF V
  <2>5. \A i \in 1..Len(report') : Right(report'[i], sent'[i].job)
    BY <2>2, <2>4 DEF Verdicts
  <2>6. state' \in [Workers -> HostState]
    BY <2>1, <1>t DEF HostState
  <2> QED BY <2>1, <2>2, <2>4, <2>5, <2>6, <1>t
             DEF HostTyped, Verdicts, Dialling, Right
<1>9. CASE UNCHANGED <<vars, hostVars>>
  <2>1. UNCHANGED <<pc, hand, sent, replies, open, step, first, port, wire,
                    state, report, others>>
    BY <1>9 DEF vars, workerVars, resultVars, hostVars, worldVars, probeVars,
       wireVars
  <2> QED BY <2>1 DEF HostTyped, Verdicts, Dialling, Right
<1> QED
  BY <1>1, <1>2, <1>3, <1>4, <1>5, <1>6, <1>7, <1>8, <1>9 DEF HostNext, Probe

LEMMA VerdictsHold == HostSpec => [](TypeOK /\ HostTyped /\ Verdicts)
<1>1. IndInv => TypeOK /\ Carry
  BY DEF IndInv
<1> QED
  BY <1>1, Invariance, DiscoveryIsAPool, VerdictsStart, VerdictSteps, PTL
     DEF HostSpec, ImplementsPool

(* The state of a discovery stays well typed (Discoverer.Run). *)
THEOREM HostTypesHold == HostSpec => []HostTypeOK
<1>1. TypeOK /\ HostTyped => HostTypeOK
  BY DEF HostTyped, HostTypeOK
<1> QED BY <1>1, VerdictsHold, PTL

(* For any network, any number of workers and any list of ports: Alive/TCP   *)
(* is said of hosts with an open port only, and of none with one is it said  *)
(* that nothing is known (discover.go:90-108).                               *)
THEOREM TcpVerdictsHold == HostSpec => []TcpVerdictsAreRight
<1>1. Verdicts => TcpVerdictsAreRight
  BY DEF Verdicts, TcpVerdictsAreRight, Right, Host
<1> QED BY <1>1, VerdictsHold, PTL

=============================================================================
