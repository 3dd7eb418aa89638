----------------------------- MODULE Ping_proofs -----------------------------
(***************************************************************************)
(* What Pinger.Run returns, for any count, any timeout and any number of   *)
(* replies to other pingers.                                               *)
(*                                                                         *)
(* Control says where the two goroutines are and what an error means.      *)
(* Numbers bounds the replies by the requests: every reply recorded or on  *)
(* its way was asked for, or was meant for somebody else.  That BothEnd is *)
(* liveness, and is model-checked.                                         *)
(***************************************************************************)
EXTENDS Ping, SequenceTheorems, FiniteSetTheorems, TLAPS

(* A request with a lower number has been sent, or has failed. *)
Bound == IF sender = "sleep" THEN i + 1 ELSE i

Control ==
  /\ sender \in {"open", "loop", "sleep", "close", "report", "returned"}
  /\ receiver \in {"unborn", "check", "read", "closing", "exited"}
  /\ doneClosed \in BOOLEAN /\ ctxDone \in BOOLEAN /\ panicked \in BOOLEAN
  /\ i \in 0..Count
  /\ sender = "sleep" => i < Count
  /\ sender \in {"close", "report"} => i = Count
  /\ sender = "open" => receiver = "unborn"
  /\ result.err \in {"nil", "open", "ctx"}
  /\ sender = "returned" /\ result.err = "nil" => i = Count
  /\ sender = "returned" /\ result.err = "ctx" => ctxDone /\ i < Count
  /\ sender = "returned" /\ result.err = "open" => receiver = "unborn"

(* Nobody else's reply has been read. *)
OwnOnly == foreign = MaxForeign

Numbers ==
  /\ rtts \in Seq(Reply) /\ net \subseteq Reply /\ IsFiniteSet(net)
  /\ sent \in Nat /\ sent <= Bound /\ foreign \in 0..MaxForeign
  /\ \A r \in net : r = [own |-> TRUE, seq |-> r.seq] /\ r.seq < Bound
  /\ Len(rtts) + Cardinality(net) + foreign <= sent + MaxForeign
  /\ result.received \in -1..(Count + MaxForeign)
  /\ OwnOnly =>
       /\ \A j, k \in 1..Len(rtts) : rtts[j].seq = rtts[k].seq => j = k
       /\ \A k \in 1..Len(rtts) : rtts[k].seq < Bound
       /\ \A k \in 1..Len(rtts) : \A r \in net : rtts[k].seq # r.seq
       /\ sender = "returned" => result.loss \in 0..100

PingInv == Control /\ Numbers

LEMMA LossIsAPercentage ==
  ASSUME NEW s \in Nat, NEW r \in 0..s
  PROVE  Loss(s, r) \in 0..100
<1>1. CASE r = 0
  BY <1>1 DEF Loss
<1>2. CASE r > 0
  <2>1. /\ s \in Nat /\ s > 0 /\ s - r \in Nat /\ s - r < s
        /\ (s - r) * 100 \in Nat /\ (s - r) * 100 <= s * 100
    BY <1>2
  <2>2. \A x \in Nat : x <= s * 100 => x \div s \in 0..100
    BY <2>1
  <2> QED BY <1>2, <2>1, <2>2 DEF Loss
<1> QED BY <1>1, <1>2

(* An operation of ProcessResult, in any state where the numbers hold. *)
LEMMA ResultIsSane ==
  ASSUME Control, Numbers, NEW err \in {"nil", "ctx"}, ProcessResult(err)
  PROVE  /\ sender' = "returned" /\ result'.err = err
         /\ result'.received \in -1..(Count + MaxForeign)
         /\ OwnOnly => result'.loss \in 0..100
<1>1. PICK r \in 0..Len(rtts) :
        /\ result' = [received |-> r, loss |-> Loss(sent, r), err |-> err]
        /\ sender' = "returned"
  BY DEF ProcessResult
<1>2. /\ Len(rtts) \in Nat /\ Cardinality(net) \in Nat /\ sent \in Nat
      /\ sent <= Count /\ foreign \in 0..MaxForeign /\ MaxForeign \in Nat
      /\ Len(rtts) + Cardinality(net) + foreign <= sent + MaxForeign
      /\ Count \in Nat
  <2>1. Bound <= Count /\ Bound \in Nat
    BY PingAssumption DEF Control, Bound
  <2>2. Len(rtts) \in Nat /\ Cardinality(net) \in Nat
    BY LenProperties, FS_CardinalityType DEF Numbers
  <2> QED BY <2>1, <2>2, PingAssumption DEF Numbers
<1>3. Len(rtts) <= Count + MaxForeign
  BY <1>2
<1>4. OwnOnly => Len(rtts) <= sent
  BY <1>2 DEF OwnOnly
<1>5. OwnOnly => Loss(sent, r) \in 0..100
  <2> SUFFICES ASSUME OwnOnly PROVE Loss(sent, r) \in 0..100
    OBVIOUS
  <2>1. r \in 0..sent /\ sent \in Nat
    BY <1>2, <1>4
  <2> QED BY <2>1, LossIsAPercentage
<1> QED BY <1>1, <1>2, <1>3, <1>5

------------------------------------------------------------------------------
LEMMA ControlStart == Init => Control
<1> SUFFICES ASSUME Init PROVE Control
  OBVIOUS
<1>1. /\ sender = "open" /\ receiver = "unborn" /\ i = 0 /\ result.err = "nil"
      /\ doneClosed = FALSE /\ ctxDone = FALSE /\ panicked = FALSE
  BY DEF Init, NoResult
<1>2. i \in 0..Count
  BY <1>1, PingAssumption
<1> QED BY <1>1, <1>2 DEF Control

LEMMA ControlSteps == Control /\ [Next]_vars => Control'
<1> SUFFICES ASSUME Control, [Next]_vars PROVE Control'
  OBVIOUS
<1> USE PingAssumption DEF Control
<1>1. CASE Open
  BY <1>1 DEF Open
<1>2. CASE OpenFails
  BY <1>2 DEF OpenFails, NoResult
<1>3. CASE Send \/ SendFails \/ Wake
  <2>1. /\ UNCHANGED <<receiver, doneClosed, ctxDone, panicked, result>>
        /\ sender \in {"loop", "sleep"} /\ sender' \in {"loop", "sleep"}
    BY <1>3 DEF Send, SendFails, Wake
  <2>2. i < Count /\ i' \in {i, i + 1} /\ (sender' = "sleep" => i' = i)
    BY <1>3 DEF Send, SendFails, Wake
  <2>3. i' \in 0..Count /\ (sender' = "sleep" => i' < Count)
    BY <2>2
  <2> QED BY <2>1, <2>3
<1>4. CASE ReturnCancelled
  <2>1. /\ UNCHANGED <<i, receiver, doneClosed, ctxDone, panicked>>
        /\ sender' = "returned" /\ result'.err = "ctx" /\ ctxDone /\ i < Count
    BY <1>4 DEF ReturnCancelled, ProcessResult
  <2> QED BY <2>1
<1>5. CASE LoopEnds
  BY <1>5 DEF LoopEnds
<1>6. CASE SenderCloses
  BY <1>6 DEF SenderCloses, CloseDone
<1>7. CASE Return
  BY <1>7 DEF Return, ProcessResult
<1>8. CASE ReceiverChecks \/ ReadOwn \/ ReadForeign \/ ReadFails
  BY <1>8 DEF ReceiverChecks, ReadOwn, ReadForeign, ReadFails, senderVars
<1>9. CASE ReceiverCloses
  BY <1>9 DEF ReceiverCloses, CloseDone, senderVars
<1>10. CASE Cancel
  BY <1>10 DEF Cancel, senderVars
<1>11. CASE UNCHANGED vars
  BY <1>11 DEF vars, senderVars
<1> QED
  BY <1>1, <1>2, <1>3, <1>4, <1>5, <1>6, <1>7, <1>8, <1>9, <1>10, <1>11
     DEF Next, Sender, Receiver

------------------------------------------------------------------------------
LEMMA NumbersStart == Init => Numbers
<1> SUFFICES ASSUME Init PROVE Numbers
  OBVIOUS
<1>1. /\ rtts = <<>> /\ net = {} /\ sent = 0 /\ i = 0 /\ foreign = MaxForeign
      /\ result = NoResult /\ sender = "open"
  BY DEF Init
<1>2. Cardinality(net) = 0 /\ IsFiniteSet(net)
  BY <1>1, FS_EmptySet
<1>3. rtts \in Seq(Reply) /\ Len(rtts) = 0
  BY <1>1
<1>4. /\ Bound = 0 /\ result.received = -1
      /\ result.received \in -1..(Count + MaxForeign)
  BY <1>1, PingAssumption DEF Bound, NoResult
<1> QED BY <1>1, <1>2, <1>3, <1>4, PingAssumption DEF Numbers

LEMMA BoundIsANumber ==
  ASSUME Control, Control' PROVE Bound \in Nat /\ Bound' \in Nat
<1>1. i \in Nat /\ i' \in Nat
  BY PingAssumption DEF Control
<1>2. Bound \in Nat
  BY <1>1 DEF Bound
<1>3. Bound' \in Nat
  <2>1. Bound' = IF sender' = "sleep" THEN i' + 1 ELSE i'
    BY DEF Bound
  <2>2. \A n \in Nat : n + 1 \in Nat
    OBVIOUS
  <2>3. CASE sender' = "sleep"
    BY <2>1, <2>2, <2>3, <1>1
  <2>4. CASE sender' # "sleep"
    BY <2>1, <2>4, <1>1
  <2> QED BY <2>3, <2>4
<1> QED BY <1>2, <1>3

(* A step that leaves the replies alone and does not lower the bound. *)
LEMMA NumbersStand ==
  ASSUME Control, Control', Numbers, UNCHANGED <<rtts, netVars, sent>>,
         Bound' >= Bound,
         result'.received \in -1..(Count + MaxForeign),
         OwnOnly /\ sender' = "returned" => result'.loss \in 0..100
  PROVE  Numbers'
<1>1. Bound \in Nat /\ Bound' \in Nat
  BY BoundIsANumber
<1>2. rtts' = rtts /\ net' = net /\ foreign' = foreign /\ sent' = sent
  BY DEF netVars
<1>3. OwnOnly' = OwnOnly
  BY <1>2 DEF OwnOnly
<1>4. /\ \A r \in net : r.seq \in Nat
      /\ \A k \in 1..Len(rtts) : rtts[k].seq \in Nat
  <2>1. net \subseteq Reply /\ \A k \in 1..Len(rtts) : rtts[k] \in Reply
    BY ElementOfSeq DEF Numbers
  <2>2. \A r \in Reply : r.seq \in Nat
    BY DEF Reply
  <2> QED BY <2>1, <2>2
<1>5. sent' <= Bound' /\ \A r \in net' : r.seq < Bound'
  <2>1. sent \in Nat /\ sent <= Bound /\ \A r \in net : r.seq < Bound
    BY DEF Numbers
  <2>2. \A n \in Nat : n < Bound => n < Bound'
    BY <1>1
  <2>3. sent <= Bound'
    BY <2>1, <1>1
  <2> QED BY <2>1, <2>2, <2>3, <1>2, <1>4
<1>6. OwnOnly' => \A k \in 1..Len(rtts') : rtts'[k].seq < Bound'
  <2>1. OwnOnly => \A k \in 1..Len(rtts) : rtts[k].seq < Bound
    BY DEF Numbers
  <2>2. \A n \in Nat : n < Bound => n < Bound'
    BY <1>1
  <2> QED BY <2>1, <2>2, <1>2, <1>3, <1>4
<1> QED BY <1>2, <1>3, <1>5, <1>6 DEF Numbers

LEMMA SendCounts == ASSUME Control, Numbers, Send PROVE Numbers'
<1>1. /\ sender = "loop" /\ sender' = "sleep" /\ i' = i /\ sent' = sent + 1
      /\ UNCHANGED <<rtts, foreign, result>>
      /\ net' = net \/ net' = net \union {[own |-> TRUE, seq |-> i]}
  BY DEF Send
<1>2. /\ Bound = i /\ Bound' = i + 1 /\ i \in Nat /\ MaxForeign \in Nat
      /\ OwnOnly' = OwnOnly
  BY <1>1, PingAssumption DEF Bound, Control, OwnOnly
<1>3. /\ rtts \in Seq(Reply) /\ net \subseteq Reply /\ IsFiniteSet(net)
      /\ sent \in Nat /\ sent <= i /\ foreign \in 0..MaxForeign
      /\ \A r \in net : r = [own |-> TRUE, seq |-> r.seq] /\ r.seq < i
      /\ Len(rtts) + Cardinality(net) + foreign <= sent + MaxForeign
      /\ result.received \in -1..(Count + MaxForeign)
  BY <1>2 DEF Numbers
<1>4. OwnOnly =>
        /\ \A j, k \in 1..Len(rtts) : rtts[j].seq = rtts[k].seq => j = k
        /\ \A k \in 1..Len(rtts) : rtts[k].seq < i
        /\ \A k \in 1..Len(rtts) : \A r \in net : rtts[k].seq # r.seq
  BY <1>2 DEF Numbers
<1>5. /\ Len(rtts) \in Nat /\ Cardinality(net) \in Nat
      /\ \A r \in net : r.seq \in Nat
      /\ \A k \in 1..Len(rtts) : rtts[k].seq \in Nat
  BY <1>3, LenProperties, FS_CardinalityType, ElementOfSeq DEF Reply
<1> DEFINE new == [own |-> TRUE, seq |-> i]
<1>6. new \notin net /\ new \in Reply /\ new.seq = i
      /\ new = [own |-> TRUE, seq |-> new.seq]
  BY <1>2, <1>3 DEF Reply
<1> HIDE DEF new
<1>7. /\ net' \subseteq Reply /\ IsFiniteSet(net')
      /\ Cardinality(net') \in {Cardinality(net), Cardinality(net) + 1}
  <2>1. IsFiniteSet(net \union {new})
        /\ Cardinality(net \union {new}) = Cardinality(net) + 1
    BY <1>3, <1>6, FS_AddElement
  <2> QED BY <2>1, <1>1, <1>3, <1>6 DEF new
<1>8. Len(rtts') + Cardinality(net') + foreign' <= sent' + MaxForeign
  BY <1>1, <1>2, <1>3, <1>5, <1>7
<1>9. \A r \in net' : r \in net \/ r = new
  BY <1>1 DEF new
<1>10. \A r \in net' : r = [own |-> TRUE, seq |-> r.seq] /\ r.seq < i + 1
  BY <1>2, <1>3, <1>5, <1>6, <1>9
<1>11. OwnOnly =>
         /\ \A k \in 1..Len(rtts') : rtts'[k].seq < i + 1
         /\ \A k \in 1..Len(rtts') : \A r \in net' : rtts'[k].seq # r.seq
  BY <1>1, <1>2, <1>4, <1>5, <1>6, <1>9
<1>12. sent' \in Nat /\ sent' <= Bound'
  BY <1>1, <1>2, <1>3
<1> QED
  BY <1>1, <1>2, <1>3, <1>4, <1>7, <1>8, <1>10, <1>11, <1>12 DEF Numbers

(* A reply is taken off the wire and recorded, or is too late to be. *)
LEMMA ReadOwnCounts == ASSUME Control, Numbers, ReadOwn PROVE Numbers'
<1>1. /\ UNCHANGED <<sender, i, sent, result, foreign>>
      /\ sender # "returned" /\ Bound' = Bound /\ OwnOnly' = OwnOnly
  BY DEF ReadOwn, senderVars, Bound, OwnOnly
<1>2. PICK reply \in net : rtts' = Record(reply) /\ net' = net \ {reply}
  BY DEF ReadOwn
<1>3. /\ rtts \in Seq(Reply) /\ net \subseteq Reply /\ IsFiniteSet(net)
      /\ sent \in Nat /\ sent <= Bound /\ foreign \in 0..MaxForeign
      /\ \A r \in net : r = [own |-> TRUE, seq |-> r.seq] /\ r.seq < Bound
      /\ Len(rtts) + Cardinality(net) + foreign <= sent + MaxForeign
      /\ result.received \in -1..(Count + MaxForeign)
  BY DEF Numbers
<1>4. OwnOnly =>
        /\ \A j, k \in 1..Len(rtts) : rtts[j].seq = rtts[k].seq => j = k
        /\ \A k \in 1..Len(rtts) : rtts[k].seq < Bound
        /\ \A k \in 1..Len(rtts) : \A r \in net : rtts[k].seq # r.seq
  BY DEF Numbers
<1>5. /\ IsFiniteSet(net') /\ Cardinality(net') = Cardinality(net) - 1
      /\ Cardinality(net) \in Nat /\ Len(rtts) \in Nat /\ MaxForeign \in Nat
  BY <1>2, <1>3, FS_RemoveElement, FS_CardinalityType, LenProperties,
     PingAssumption
<1>6. \A r \in net' : r \in net /\ r # reply /\ r.seq # reply.seq
  BY <1>2, <1>3
<1>7. CASE rtts' = rtts
  <2>1. Len(rtts') + Cardinality(net') + foreign' <= sent' + MaxForeign
    BY <1>1, <1>3, <1>5, <1>7
  <2>2. net' \subseteq Reply
    BY <1>3, <1>6
  <2>3. \A r \in net' : r = [own |-> TRUE, seq |-> r.seq] /\ r.seq < Bound'
    BY <1>1, <1>3, <1>6
  <2>4. OwnOnly' =>
          /\ \A j, k \in 1..Len(rtts') : rtts'[j].seq = rtts'[k].seq => j = k
          /\ \A k \in 1..Len(rtts') : rtts'[k].seq < Bound'
          /\ \A k \in 1..Len(rtts') : \A r \in net' : rtts'[k].seq # r.seq
    BY <1>1, <1>4, <1>6, <1>7
  <2> QED BY <1>1, <1>3, <1>5, <1>7, <2>1, <2>2, <2>3, <2>4 DEF Numbers
<1>8. CASE rtts' = Append(rtts, reply)
  <2>1. /\ rtts' \in Seq(Reply) /\ Len(rtts') = Len(rtts) + 1
        /\ \A k \in 1..Len(rtts) : rtts'[k] = rtts[k]
        /\ rtts'[Len(rtts) + 1] = reply
    BY <1>3, <1>8, AppendProperties
  <2>2. \A k \in 1..Len(rtts') : k \in 1..Len(rtts) \/ k = Len(rtts) + 1
    BY <2>1, <1>5
  <2>3. Len(rtts') + Cardinality(net') + foreign' <= sent' + MaxForeign
    BY <1>1, <1>3, <1>5, <2>1
  <2>4. net' \subseteq Reply
    BY <1>3, <1>6
  <2>5. \A r \in net' : r = [own |-> TRUE, seq |-> r.seq] /\ r.seq < Bound'
    BY <1>1, <1>3, <1>6
  <2>6. ASSUME OwnOnly
        PROVE  \A k \in 1..Len(rtts') :
                 /\ rtts'[k].seq < Bound'
                 /\ \A r \in net' : rtts'[k].seq # r.seq
    <3> TAKE k \in 1..Len(rtts')
    <3>1. CASE k \in 1..Len(rtts)
      BY <1>1, <1>4, <1>6, <2>1, <2>6, <3>1
    <3>2. CASE k = Len(rtts) + 1
      BY <1>1, <1>2, <1>3, <1>6, <2>1, <3>2
    <3> QED BY <2>2, <3>1, <3>2
  <2>7. ASSUME OwnOnly,
               NEW j \in 1..Len(rtts'), NEW k \in 1..Len(rtts'),
               rtts'[j].seq = rtts'[k].seq
        PROVE  j = k
    BY <1>2, <1>4, <2>1, <2>2, <2>7
  <2> QED BY <1>1, <1>3, <1>5, <2>1, <2>3, <2>4, <2>5, <2>6, <2>7 DEF Numbers
<1> QED BY <1>2, <1>7, <1>8 DEF Record

(* Once another pinger's reply has been read, only the total is bounded. *)
LEMMA ReadForeignCounts == ASSUME Control, Numbers, ReadForeign PROVE Numbers'
<1>1. /\ UNCHANGED <<sender, i, sent, result, net>>
      /\ foreign > 0 /\ foreign' = foreign - 1 /\ Bound' = Bound
      /\ rtts' = Record([own |-> FALSE, seq |-> ForeignSeq])
  BY DEF ReadForeign, senderVars, Bound
<1>2. /\ rtts \in Seq(Reply) /\ net \subseteq Reply /\ IsFiniteSet(net)
      /\ sent \in Nat /\ sent <= Bound /\ foreign \in 0..MaxForeign
      /\ \A r \in net : r = [own |-> TRUE, seq |-> r.seq] /\ r.seq < Bound
      /\ Len(rtts) + Cardinality(net) + foreign <= sent + MaxForeign
      /\ result.received \in -1..(Count + MaxForeign)
  BY DEF Numbers
<1>3. foreign' \in 0..MaxForeign /\ ~OwnOnly'
  BY <1>1, <1>2, PingAssumption DEF OwnOnly
<1>4. Cardinality(net) \in Nat /\ Len(rtts) \in Nat
  BY <1>2, FS_CardinalityType, LenProperties
<1>5. rtts' \in Seq(Reply) /\ Len(rtts') \in {Len(rtts), Len(rtts) + 1}
  <2> DEFINE reply == [own |-> FALSE, seq |-> ForeignSeq]
  <2>1. reply \in Reply
    BY PingAssumption DEF Reply
  <2>2. rtts' = rtts \/ rtts' = Append(rtts, reply)
    BY <1>1 DEF Record
  <2> HIDE DEF reply
  <2> QED BY <1>2, <2>1, <2>2, AppendProperties
<1>6. Len(rtts') + Cardinality(net') + foreign' <= sent' + MaxForeign
  BY <1>1, <1>2, <1>4, <1>5, PingAssumption
<1> QED BY <1>1, <1>2, <1>3, <1>5, <1>6 DEF Numbers

LEMMA NumbersSteps ==
  ASSUME Control, Control', Numbers, [Next]_vars PROVE Numbers'
<1>b. /\ Bound \in Nat /\ Bound' \in Nat /\ i \in Nat
      /\ Count + MaxForeign \in Nat
  BY BoundIsANumber, PingAssumption DEF Control
<1>r. /\ result.received \in -1..(Count + MaxForeign)
      /\ OwnOnly /\ sender = "returned" => result.loss \in 0..100
  BY DEF Numbers
<1>1. CASE Open \/ LoopEnds \/ SenderCloses
  <2>1. /\ UNCHANGED <<i, sent, result, rtts, netVars>>
        /\ sender \in {"open", "loop", "close"} /\ sender' # "returned"
        /\ Bound' = Bound
    BY <1>1 DEF Open, LoopEnds, SenderCloses, Bound
  <2> QED BY <2>1, <1>b, <1>r, NumbersStand
<1>2. CASE OpenFails
  <2>1. /\ UNCHANGED <<i, sent, rtts, netVars>> /\ Bound' = Bound
        /\ result'.received = -1 /\ result'.loss = 0
    BY <1>2 DEF OpenFails, NoResult, Bound
  <2>2. /\ result'.received \in -1..(Count + MaxForeign)
        /\ result'.loss \in 0..100
    BY <2>1, <1>b
  <2> QED BY <2>1, <2>2, <1>b, NumbersStand
<1>3. CASE Send
  BY <1>3, SendCounts
<1>4. CASE SendFails \/ Wake
  <2>1. /\ UNCHANGED <<sent, result, rtts, netVars>> /\ i' = i + 1
        /\ sender \in {"loop", "sleep"} /\ sender' = "loop"
    BY <1>4 DEF SendFails, Wake
  <2>2. Bound' >= Bound
    BY <2>1, <1>b DEF Bound
  <2> QED BY <2>1, <2>2, <1>r, NumbersStand
<1>5. CASE ReturnCancelled \/ Return
  <2>1. PICK err \in {"nil", "ctx"} : ProcessResult(err)
    BY <1>5 DEF ReturnCancelled, Return
  <2>2. /\ UNCHANGED <<i, sent, rtts, netVars>>
        /\ sender \in {"loop", "report"}
    BY <1>5 DEF ReturnCancelled, Return
  <2>3. /\ sender' = "returned"
        /\ result'.received \in -1..(Count + MaxForeign)
        /\ OwnOnly => result'.loss \in 0..100
    BY <2>1, ResultIsSane
  <2>4. Bound' = Bound
    BY <2>2, <2>3 DEF Bound
  <2> QED BY <2>2, <2>3, <2>4, <1>b, NumbersStand
<1>6. CASE ReadOwn
  BY <1>6, ReadOwnCounts
<1>7. CASE ReadForeign
  BY <1>7, ReadForeignCounts
<1>8. CASE ReceiverChecks \/ ReadFails \/ ReceiverCloses \/ Cancel
           \/ UNCHANGED vars
  <2>1. UNCHANGED <<sender, i, sent, result, rtts, netVars>> /\ Bound' = Bound
    BY <1>8 DEF ReceiverChecks, ReadFails, ReceiverCloses, Cancel, vars,
       senderVars, Bound
  <2> QED BY <2>1, <1>b, <1>r, NumbersStand
<1> QED
  BY <1>1, <1>2, <1>3, <1>4, <1>5, <1>6, <1>7, <1>8 DEF Next, Sender, Receiver

LEMMA PingInvariant == Spec => []PingInv
<1>1. Init => PingInv
  BY ControlStart, NumbersStart DEF PingInv
<1>2. PingInv /\ [Next]_vars => PingInv'
  BY ControlSteps, NumbersSteps DEF PingInv
<1> QED BY <1>1, <1>2, PTL DEF Spec

(* The state of a ping stays well typed: never more requests than the count. *)
THEOREM TypesHold == Spec => []TypeOK
<1>1. PingInv => TypeOK
  <2> SUFFICES ASSUME PingInv PROVE TypeOK
    OBVIOUS
  <2>1. Bound \in 0..Count /\ sent \in 0..Count
    <3>1. sent \in Nat /\ sent <= Bound /\ Bound \in Nat /\ Bound <= Count
      BY PingAssumption DEF PingInv, Control, Numbers, Bound
    <3> QED BY <3>1, PingAssumption
  <2>2. \A k \in 1..Len(rtts) : rtts[k] \in Reply
    BY ElementOfSeq DEF PingInv, Numbers
  <2> QED BY <2>1, <2>2 DEF PingInv, Control, Numbers, TypeOK
<1> QED BY <1>1, PingInvariant, PTL

(* For any count: a nil error means the whole count was attempted, and an    *)
(* early return says so (ping.go:119-124, 162).                              *)
THEOREM ErrorsTellTheTruth == Spec => []ErrTellsTheTruth
<1>1. PingInv => ErrTellsTheTruth
  BY DEF PingInv, Control, ErrTellsTheTruth
<1> QED BY <1>1, PingInvariant, PTL

(* For any count and timeout: until another pinger is heard, no reply is     *)
(* counted twice, there are no more of them than requests, and the loss is a *)
(* percentage (ping.go:110-115, 169-200).                                    *)
THEOREM CountsAreAlwaysSane == Spec => []CountsAreSane
<1>1. PingInv => CountsAreSane
  <2> SUFFICES ASSUME PingInv, OwnOnly PROVE CountsAreSane
    BY DEF CountsAreSane, OwnOnly
  <2>1. /\ Len(rtts) \in Nat /\ Cardinality(net) \in Nat /\ sent \in Nat
        /\ Len(rtts) + Cardinality(net) + foreign <= sent + MaxForeign
        /\ foreign = MaxForeign /\ MaxForeign \in Nat
    BY LenProperties, FS_CardinalityType, PingAssumption
       DEF PingInv, Numbers, OwnOnly
  <2>2. Len(rtts) <= sent
    BY <2>1
  <2> QED BY <2>2 DEF PingInv, Numbers, CountsAreSane
<1> QED BY <1>1, PingInvariant, PTL
=============================================================================
