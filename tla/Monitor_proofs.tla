--------------------------- MODULE Monitor_proofs ---------------------------
(***************************************************************************)
(* The data points of a watch on their way to the reader, for any buffer   *)
(* and any number of ticks, and the reports that Result makes of them.     *)
(***************************************************************************)
EXTENDS Monitor, Samples_proofs

(* What has been put into the channel, in order. *)
Seen == delivered \o ch

(* The data points the loop has offered to it. *)
OfferedPoints == IF loop = "offer" THEN Len(data) - 1 ELSE Len(data)

(* A check takes a tick, and the ticker fires at most MaxTicks times. *)
TicksInv ==
  /\ iterations \in Nat /\ ticks \in 0..MaxTicks /\ tick \in BOOLEAN
  /\ iterations <= ticks
  /\ tick \/ loop \in {"check", "late", "offer"} => iterations + 1 <= ticks
  /\ tick /\ loop \in {"check", "late", "offer"} => iterations + 2 <= ticks

(* Data point k was offered after the first n of what has been put into the  *)
(* channel, and it was put there next if fewer than Cap of those were unread.*)
Followed(k, n) ==
  /\ \A j \in 1..n : Seen[j] < k
  /\ \A j \in (n + 1)..Len(Seen) : Seen[j] >= k
  /\ n - readAt[k] < Cap <=> n < Len(Seen) /\ Seen[n + 1] = k

MonitorInv ==
  /\ TypeOK /\ TicksInv
  /\ loop = "offer" => Len(data) > 0
  /\ \A k \in 1..Len(Seen) : Seen[k] <= OfferedPoints
  /\ \A j, k \in 1..Len(Seen) : j < k => Seen[j] < Seen[k]
  /\ Len(readAt) = OfferedPoints
  /\ \A k \in 1..OfferedPoints : \E n \in 0..Len(Seen) : Followed(k, n)

LEMMA AppendMoves ==
  ASSUME NEW S, NEW d \in Seq(S), NEW c \in Seq(S), NEW x \in S
  PROVE  d \o Append(c, x) = Append(d \o c, x)
<1>1. <<x>> \in Seq(S) /\ d \o c \in Seq(S)
  BY ConcatProperties
<1>2. Append(c, x) = c \o <<x>> /\ Append(d \o c, x) = (d \o c) \o <<x>>
  BY <1>1, AppendIsConcat
<1> QED BY <1>1, <1>2, ConcatAssociative

LEMMA HeadMoves ==
  ASSUME NEW S, NEW d \in Seq(S), NEW c \in Seq(S), c # <<>>
  PROVE  Append(d, Head(c)) \o Tail(c) = d \o c
<1>1. Head(c) \in S /\ Tail(c) \in Seq(S) /\ Len(Tail(c)) = Len(c) - 1
      /\ \A i \in 1..Len(Tail(c)) : Tail(c)[i] = c[i + 1]
  BY HeadTailProperties
<1>2. Append(d, Head(c)) = d \o <<Head(c)>> /\ <<Head(c)>> \in Seq(S)
  BY <1>1, AppendIsConcat
<1>3. <<Head(c)>> \o Tail(c) = c
  BY <1>1
<1> QED BY <1>1, <1>2, <1>3, ConcatAssociative

LEMMA SeenTyped ==
  ASSUME TypeOK
  PROVE  /\ Seen \in Seq(1..Len(data))
         /\ Len(Seen) = Len(delivered) + Len(ch)
         /\ Len(Seen) \in Nat /\ Len(data) \in Nat /\ Len(ch) \in Nat
         /\ Len(delivered) \in Nat /\ OfferedPoints \in Int
  BY DEF TypeOK, Seen, OfferedPoints

LEMMA MonitorStart == Init => MonitorInv
<1> SUFFICES ASSUME Init PROVE MonitorInv
  OBVIOUS
<1>1. /\ Cap \in Nat /\ 0 \in 0..MaxTicks
  BY MonitorAssumption
<1>2. /\ data = <<>> /\ ch = <<>> /\ delivered = <<>> /\ readAt = <<>>
      /\ loop = "select" /\ ~tick /\ iterations = 0 /\ ticks = 0
  BY DEF Init
<1>3. /\ chClosed \in BOOLEAN /\ running \in BOOLEAN /\ stopped \in BOOLEAN
      /\ ctxDone \in BOOLEAN /\ alive \in BOOLEAN /\ tick \in BOOLEAN
      /\ monType \in MonTypes /\ consumer = "ranging"
  BY DEF Init
<1>4. TypeOK
  <2>1. /\ data \in Seq(DataPoint) /\ ch \in Seq(1..Len(data))
        /\ delivered \in Seq(1..Len(data)) /\ Len(ch) <= Cap
        /\ readAt \in Seq(0..Len(delivered))
    BY <1>1, <1>2
  <2> QED BY <1>1, <1>2, <1>3, <2>1 DEF TypeOK
<1>5. TicksInv
  BY <1>1, <1>2, <1>3 DEF TicksInv
<1>6. Len(Seen) = 0 /\ OfferedPoints = 0 /\ Len(readAt) = 0 /\ 1..0 = {}
  BY <1>2 DEF Seen, OfferedPoints
<1> QED BY <1>2, <1>4, <1>5, <1>6 DEF MonitorInv

(* The order is kept by a step that changes neither what was seen nor what   *)
(* was offered.                                                              *)
LEMMA OrderStands ==
  ASSUME MonitorInv, TypeOK', TicksInv', Seen' = Seen, readAt' = readAt,
         OfferedPoints' = OfferedPoints, loop' = "offer" => Len(data') > 0
  PROVE  MonitorInv'
  BY DEF MonitorInv, Followed

LEMMA TicksSteps == ASSUME TypeOK, TicksInv, [Next]_vars PROVE TicksInv'
<1>n. /\ MaxTicks \in Nat /\ iterations \in Nat /\ ticks \in 0..MaxTicks
      /\ tick \in BOOLEAN
  BY MonitorAssumption DEF TicksInv
<1> USE DEF TicksInv, loopVars, tickVars
<1>1. CASE Fire
  BY <1>1, <1>n DEF Fire
<1>2. CASE Finished \/ SeeCancel
  <2>1. /\ loop = "select" /\ loop' = "unset" /\ iterations' = iterations
        /\ tick' = tick /\ ticks' = ticks
    BY <1>2 DEF Finished, SeeCancel
  <2> QED BY <2>1, <1>n
<1>3. CASE SeeTick
  BY <1>3, <1>n DEF SeeTick
<1>4. CASE Check
  BY <1>4, <1>n DEF Check
<1>5. CASE Offer
  BY <1>5, <1>n DEF Offer
<1>6. CASE Unset \/ Close
  BY <1>6, <1>n DEF Unset, Close
<1>7. CASE UNCHANGED <<loopVars, tickVars>>
  BY <1>7
<1>8. CASE Consumer \/ Result \/ Stop \/ Cancel \/ Crash \/ UNCHANGED vars
  BY <1>7, <1>8 DEF Consumer, Receive, EndWatch, Result, Stop, Cancel, Crash,
     vars
<1> QED
  BY <1>1, <1>2, <1>3, <1>4, <1>5, <1>6, <1>8 DEF Next, Loop

LEMMA MonitorSteps == MonitorInv /\ [Next]_vars => MonitorInv'
<1> SUFFICES ASSUME MonitorInv, [Next]_vars PROVE MonitorInv'
  OBVIOUS
<1>t. TypeOK /\ TicksInv /\ TicksInv'
  BY TicksSteps DEF MonitorInv
<1>i. /\ iterations' \in 0..MaxTicks /\ ticks' \in 0..MaxTicks
      /\ tick' \in BOOLEAN
  BY <1>t, MonitorAssumption DEF TicksInv
<1>1. CASE Fire \/ SeeTick
  <2>1. UNCHANGED <<data, ch, delivered, chanVars, callVars, runVars>>
        /\ loop' \in {"select", "check", "late", "offer"}
        /\ (loop' = "offer" <=> loop = "offer")
    BY <1>1 DEF Fire, SeeTick, loopVars, chanVars
  <2>2. TypeOK'
    BY <2>1, <1>t, <1>i DEF TypeOK, chanVars, callVars, runVars
  <2>3. Seen' = Seen /\ OfferedPoints' = OfferedPoints /\ readAt' = readAt
    BY <2>1 DEF Seen, OfferedPoints, chanVars
  <2>4. loop' = "offer" => Len(data') > 0
    BY <2>1 DEF MonitorInv
  <2> QED BY <2>2, <2>3, <2>4, <1>t, OrderStands
<1>2. CASE Finished \/ SeeCancel \/ Unset \/ Close
  <2>1. /\ UNCHANGED <<data, ch, delivered, readAt, consumer, stopped,
                       runVars>>
        /\ loop # "offer" /\ loop' \in {"unset", "close", "exited"}
        /\ chClosed' \in {chClosed, TRUE} /\ running' \in {running, FALSE}
    BY <1>2 DEF Finished, SeeCancel, Unset, Close, chanVars, callVars
  <2>2. TypeOK'
    BY <2>1, <1>t, <1>i DEF TypeOK, runVars
  <2>3. Seen' = Seen /\ OfferedPoints' = OfferedPoints
    BY <2>1 DEF Seen, OfferedPoints
  <2> QED BY <2>1, <2>2, <2>3, <1>t, OrderStands
<1>3. CASE Check
  <2>1. PICK p \in DataPoint : data' = Append(data, p)
    BY <1>3 DEF Check, Outcomes
  <2>2. /\ UNCHANGED <<ch, delivered, readAt, chClosed, consumer, callVars,
                       runVars>>
        /\ loop # "offer" /\ loop' = "offer"
    BY <1>3 DEF Check, chanVars
  <2>3. /\ data' \in Seq(DataPoint) /\ Len(data') = Len(data) + 1
        /\ Len(data) \in Nat
    BY <2>1, <1>t DEF TypeOK
  <2>4. 1..Len(data) \subseteq 1..Len(data')
    BY <2>3
  <2>5. ch' \in Seq(1..Len(data')) /\ delivered' \in Seq(1..Len(data'))
    <3>1. /\ ch \in Seq(1..Len(data)) /\ delivered \in Seq(1..Len(data))
          /\ ch' = ch /\ delivered' = delivered
      BY <2>2, <1>t DEF TypeOK
    <3> DEFINE S == 1..Len(data)
               T == 1..Len(data')
    <3>2. S \subseteq T /\ ch \in Seq(S) /\ delivered \in Seq(S)
      BY <3>1, <2>4
    <3>3. \A s \in Seq(S) : s \in Seq(T)
      <4> HIDE DEF S, T
      <4> TAKE s \in Seq(S)
      <4>1. /\ Len(s) \in Nat /\ DOMAIN s = 1..Len(s)
            /\ \A k \in 1..Len(s) : s[k] \in S
        OBVIOUS
      <4>2. s = [k \in 1..Len(s) |-> s[k]]
        OBVIOUS
      <4>3. \A k \in 1..Len(s) : s[k] \in T
        BY <4>1, <3>2
      <4> QED BY <4>1, <4>2, <4>3
    <3> QED BY <3>1, <3>2, <3>3
  <2>6. TypeOK'
    BY <2>2, <2>3, <2>5, <1>t, <1>i DEF TypeOK, callVars, runVars
  <2>7. Seen' = Seen /\ OfferedPoints' = OfferedPoints /\ Len(data') > 0
    BY <2>2, <2>3 DEF Seen, OfferedPoints
  <2> QED BY <2>2, <2>6, <2>7, <1>t, OrderStands
<1>4. CASE Offer
  <2>1. /\ loop = "offer" /\ loop' = "select" /\ ch' = Offered
        /\ readAt' = Append(readAt, Len(delivered))
        /\ UNCHANGED <<data, delivered, chClosed, consumer, callVars, runVars>>
    BY <1>4 DEF Offer
  <2>2. /\ OfferedPoints = Len(data) - 1 /\ OfferedPoints' = Len(data)
        /\ Len(data) > 0 /\ Len(data) \in Nat /\ Cap \in Nat
    BY <2>1, <1>t, MonitorAssumption, SeenTyped DEF OfferedPoints, MonitorInv
  <2>s. /\ Seen \in Seq(1..Len(data)) /\ Len(Seen) \in Nat
        /\ Len(Seen) = Len(delivered) + Len(ch) /\ Len(delivered) \in Nat
        /\ Len(ch) \in Nat /\ Len(ch) <= Cap
    BY <1>t, SeenTyped DEF TypeOK
  <2>o. /\ \A k \in 1..Len(Seen) : Seen[k] <= Len(data) - 1
        /\ \A j, k \in 1..Len(Seen) : j < k => Seen[j] < Seen[k]
        /\ Len(readAt) = Len(data) - 1
        /\ \A k \in 1..(Len(data) - 1) :
             \E n \in 0..Len(Seen) : Followed(k, n)
    BY <2>2 DEF MonitorInv
  <2>r. /\ readAt' \in Seq(0..Len(delivered)) /\ Len(readAt') = Len(data)
        /\ \A k \in 1..(Len(data) - 1) : readAt'[k] = readAt[k]
        /\ readAt'[Len(data)] = Len(delivered)
    <3>1. readAt \in Seq(0..Len(delivered))
          /\ Len(delivered) \in 0..Len(delivered)
      BY <2>s, <1>t DEF TypeOK
    <3> QED BY <3>1, <2>1, <2>2, <2>o
  <2>k. \A k \in 1..Len(data) : k \in 1..(Len(data) - 1) \/ k = Len(data)
    BY <2>2
  <2>3. CASE Len(ch) < Cap
    <3>1. ch' = Append(ch, Len(data))
      BY <2>1, <2>3 DEF Offered
    <3>2. ch' \in Seq(1..Len(data)) /\ Len(ch') = Len(ch) + 1
      BY <3>1, <2>2, <1>t DEF TypeOK
    <3>3. TypeOK'
      BY <2>1, <2>3, <2>2, <2>s, <2>r, <3>2, <1>t, <1>i
         DEF TypeOK, callVars, runVars
    <3>4. Seen' = Append(Seen, Len(data))
      <4>1. /\ ch \in Seq(1..Len(data)) /\ delivered \in Seq(1..Len(data))
            /\ Len(data) \in 1..Len(data)
        BY <2>2, <1>t DEF TypeOK
      <4>2. /\ Seen = delivered \o ch
            /\ Seen' = delivered \o Append(ch, Len(data))
        BY <2>1, <3>1 DEF Seen
      <4> QED BY <4>1, <4>2, AppendMoves
    <3> HIDE DEF Seen
    <3>5. /\ Len(Seen') = Len(Seen) + 1
          /\ \A k \in 1..Len(Seen) : Seen'[k] = Seen[k]
          /\ Seen'[Len(Seen) + 1] = Len(data)
      BY <3>4, <2>s, <2>2
    <3>6. \A k \in 1..Len(Seen') : k \in 1..Len(Seen) \/ k = Len(Seen) + 1
      <4>1. Len(Seen') = Len(Seen) + 1 /\ Len(Seen) \in Nat
        BY <3>5, <2>s
      <4> QED BY <4>1
    <3>7. \A k \in 1..Len(Seen') : Seen'[k] <= Len(data)
      <4> TAKE k \in 1..Len(Seen')
      <4>1. CASE k \in 1..Len(Seen)
        <5>1. Seen'[k] = Seen[k] /\ Seen[k] <= Len(data) - 1
          BY <4>1, <3>5, <2>o
        <5>2. Seen[k] \in 1..Len(data) /\ Len(data) \in Nat
          BY <4>1, <2>s, <2>2, ElementOfSeq
        <5> QED BY <5>1, <5>2
      <4>2. CASE k = Len(Seen) + 1
        BY <4>2, <3>5, <2>2
      <4> QED BY <4>1, <4>2, <3>6
    <3>8. \A k \in 1..Len(Seen) : Seen[k] < Len(data)
      <4>1. \A k \in 1..Len(Seen) : Seen[k] <= Len(data) - 1
        BY <2>o
      <4>2. \A k \in 1..Len(Seen) : Seen[k] \in 1..Len(data)
        BY <2>s, ElementOfSeq
      <4> QED BY <4>1, <4>2, <2>2
    <3>9. ASSUME NEW j \in 1..Len(Seen'), NEW k \in 1..Len(Seen'), j < k
          PROVE  Seen'[j] < Seen'[k]
      <4>1. j \in 1..Len(Seen)
        BY <3>9, <3>5, <2>s
      <4>2. CASE k \in 1..Len(Seen)
        BY <4>1, <4>2, <3>5, <3>9, <2>o
      <4>3. CASE k = Len(Seen) + 1
        BY <4>1, <4>3, <3>5, <3>8
      <4> QED BY <4>2, <4>3, <3>6
    <3>10. ASSUME NEW k \in 1..Len(data)
           PROVE  \E n \in 0..Len(Seen') : Followed(k, n)'
      <4>1. CASE k \in 1..(Len(data) - 1)
        <5>1. PICK n \in 0..Len(Seen) : Followed(k, n)
          BY <4>1, <2>o
        <5>2. readAt'[k] = readAt[k]
          BY <4>1, <2>r
        <5>6. n \in 0..Len(Seen')
          <6>1. Len(Seen') = Len(Seen) + 1 /\ Len(Seen) \in Nat
            BY <3>5, <2>s
          <6> QED BY <6>1
        <5>3. \A j \in 1..n : Seen'[j] < k
          BY <5>1, <3>5, <2>s DEF Followed
        <5>4. ASSUME NEW j \in (n + 1)..Len(Seen') PROVE Seen'[j] >= k
          <6>1. CASE j \in (n + 1)..Len(Seen)
            <7>1. Seen[j] >= k
              BY <6>1, <5>1 DEF Followed
            <7>2. j \in 1..Len(Seen)
              BY <6>1, <2>s
            <7> QED BY <7>1, <7>2, <3>5
          <6>2. CASE j = Len(Seen) + 1
            BY <6>2, <4>1, <3>5, <2>2
          <6>3. Len(Seen') = Len(Seen) + 1 /\ Len(Seen) \in Nat
            BY <3>5, <2>s
          <6> QED BY <6>1, <6>2, <6>3
        <5>5. n < Len(Seen') /\ Seen'[n + 1] = k
                <=> n < Len(Seen) /\ Seen[n + 1] = k
          <6>1. CASE n < Len(Seen)
            BY <6>1, <3>5, <2>s
          <6>2. CASE n = Len(Seen)
            BY <6>2, <4>1, <3>5, <2>2, <2>s
          <6> QED BY <6>1, <6>2, <2>s
        <5> QED BY <5>1, <5>2, <5>3, <5>4, <5>5, <5>6, <2>1 DEF Followed
      <4>2. CASE k = Len(data)
        <5>1. Len(Seen) \in 0..Len(Seen')
          BY <3>5, <2>s
        <5>2. \A j \in 1..Len(Seen) : Seen'[j] < k
          BY <4>2, <3>5, <3>8
        <5>3. \A j \in (Len(Seen) + 1)..Len(Seen') : Seen'[j] >= k
          <6>1. \A j \in (Len(Seen) + 1)..Len(Seen') : j = Len(Seen) + 1
            BY <3>5, <2>s
          <6> QED BY <6>1, <4>2, <3>5, <2>2
        <5>4. Len(Seen) - readAt'[k] < Cap
          BY <4>2, <2>3, <2>r, <2>s, <2>2
        <5>5. Len(Seen) < Len(Seen') /\ Seen'[Len(Seen) + 1] = k
          BY <4>2, <3>5, <2>s
        <5> DEFINE n == Len(Seen)
        <5>6. /\ n \in 0..Len(Seen')
              /\ \A j \in 1..n : Seen'[j] < k
              /\ \A j \in (n + 1)..Len(Seen') : Seen'[j] >= k
              /\ n - readAt'[k] < Cap /\ n < Len(Seen') /\ Seen'[n + 1] = k
          BY <5>1, <5>2, <5>3, <5>4, <5>5
        <5> HIDE DEF n
        <5> QED BY <5>6, <2>1 DEF Followed
      <4> QED BY <4>1, <4>2, <2>k
    <3> QED
      BY <3>3, <3>7, <3>9, <3>10, <2>1, <2>2, <2>r, <1>t DEF MonitorInv
  <2>4. CASE ~(Len(ch) < Cap)
    <3>1. ch' = ch /\ Seen' = Seen
      BY <2>1, <2>4 DEF Offered, Seen
    <3>2. TypeOK'
      BY <2>1, <2>r, <3>1, <1>t, <1>i DEF TypeOK, callVars, runVars
    <3> HIDE DEF Seen
    <3>3. ASSUME NEW k \in 1..Len(data)
          PROVE  \E n \in 0..Len(Seen') : Followed(k, n)'
      <4>1. CASE k \in 1..(Len(data) - 1)
        <5>1. PICK n \in 0..Len(Seen) : Followed(k, n)
          BY <4>1, <2>o
        <5>2. readAt'[k] = readAt[k]
          BY <4>1, <2>r
        <5> QED BY <5>1, <5>2, <3>1 DEF Followed
      <4>2. CASE k = Len(data)
        <5> DEFINE n == Len(Seen)
        <5>1. n \in 0..Len(Seen') /\ ~(n < Len(Seen'))
          BY <3>1, <2>s
        <5>2. \A j \in 1..n : Seen'[j] < k
          BY <4>2, <3>1, <2>o, <2>s, <2>2
        <5>3. (n + 1)..Len(Seen') = {}
          BY <3>1, <2>s
        <5>4. ~(n - readAt'[k] < Cap)
          BY <4>2, <2>4, <2>r, <2>s, <2>2
        <5> HIDE DEF n
        <5> QED BY <5>1, <5>2, <5>3, <5>4 DEF Followed
      <4> QED BY <4>1, <4>2, <2>k
    <3>5. \A k \in 1..Len(Seen) : Seen[k] <= Len(data)
      BY <2>o, <2>s, <2>2
    <3> QED
      BY <3>1, <3>2, <3>3, <3>5, <2>1, <2>2, <2>o, <2>r, <1>t DEF MonitorInv
  <2> QED BY <2>3, <2>4
<1>5. CASE Receive
  <2>1. /\ ch # <<>> /\ delivered' = Append(delivered, Head(ch))
        /\ ch' = Tail(ch)
        /\ UNCHANGED <<loop, data, readAt, chClosed, consumer, callVars,
                       runVars>>
    BY <1>5 DEF Receive, loopVars
  <2>2. /\ ch \in Seq(1..Len(data)) /\ delivered \in Seq(1..Len(data))
        /\ Len(ch) <= Cap /\ Cap \in Nat
    BY <1>t, MonitorAssumption DEF TypeOK
  <2>3. /\ Head(ch) \in 1..Len(data) /\ Tail(ch) \in Seq(1..Len(data))
        /\ Len(Tail(ch)) = Len(ch) - 1 /\ Len(ch) \in Nat
    BY <2>1, <2>2
  <2>4. ch' \in Seq(1..Len(data')) /\ delivered' \in Seq(1..Len(data'))
        /\ Len(ch') <= Cap
    BY <2>1, <2>2, <2>3
  <2>r. readAt' \in Seq(0..Len(delivered'))
    <3>1. Len(delivered') = Len(delivered) + 1 /\ Len(delivered) \in Nat
      BY <2>1, <2>2, <2>3
    <3>2. 0..Len(delivered) \subseteq 0..Len(delivered')
      BY <3>1
    <3>3. readAt \in Seq(0..Len(delivered))
      BY <1>t DEF TypeOK
    <3>4. readAt \in Seq(0..Len(delivered'))
      BY <3>2, <3>3, SeqMonotonic
    <3> QED BY <2>1, <3>4
  <2>5. TypeOK'
    BY <2>1, <2>4, <2>r, <1>t, <1>i DEF TypeOK, callVars, runVars
  <2>6. Seen' = Seen
    BY <2>1, <2>2, HeadMoves DEF Seen
  <2>7. OfferedPoints' = OfferedPoints /\ (loop' = "offer" => Len(data') > 0)
    BY <2>1 DEF OfferedPoints, MonitorInv
  <2> QED BY <2>1, <2>5, <2>6, <2>7, <1>t, OrderStands
<1>6. CASE EndWatch \/ Result \/ Stop \/ Cancel \/ Crash \/ UNCHANGED vars
  <2>1. /\ UNCHANGED <<monType, loop, data, ch, delivered, readAt, chClosed,
                       running>>
        /\ consumer' \in {consumer, "returned"}
    BY <1>6 DEF EndWatch, Result, Stop, Cancel, Crash, vars, loopVars,
       chanVars, callVars, runVars
  <2>2. stopped' \in BOOLEAN /\ ctxDone' \in BOOLEAN /\ alive' \in BOOLEAN
    BY <1>6, <1>t DEF EndWatch, Result, Stop, Cancel, Crash, vars, callVars,
       runVars, TypeOK
  <2>3. TypeOK'
    BY <2>1, <2>2, <1>t, <1>i DEF TypeOK
  <2>4. Seen' = Seen /\ OfferedPoints' = OfferedPoints
    BY <2>1 DEF Seen, OfferedPoints
  <2>5. loop' = "offer" => Len(data') > 0
    BY <2>1 DEF MonitorInv
  <2> QED BY <2>1, <2>3, <2>4, <2>5, <1>t, OrderStands
<1> QED
  BY <1>1, <1>2, <1>3, <1>4, <1>5, <1>6 DEF Next, Loop, Consumer

LEMMA MonitorInvariant == Spec => []MonitorInv
  BY MonitorStart, MonitorSteps, PTL DEF Spec

(* The state of a watch stays well typed (Monitor.Start). *)
THEOREM TypesHold == Spec => []TypeOK
<1>1. MonitorInv => TypeOK
  BY DEF MonitorInv
<1> QED BY <1>1, MonitorInvariant, PTL

(* For any buffer: the reader gets the data points in order and none twice,  *)
(* and exactly those are missing that found the buffer full                  *)
(* (monitoring.go:90-98).                                                    *)
THEOREM PointsAreInOrder == Spec => []InOrder
<1>1. MonitorInv => InOrder
  <2> SUFFICES ASSUME MonitorInv PROVE InOrder
    OBVIOUS
  <2>1. /\ \A j, k \in 1..Len(Seen) : j < k => Seen[j] < Seen[k]
        /\ Seen \in Seq(1..Len(data))
    BY SeenTyped DEF MonitorInv
  <2>2. /\ Len(Seen) \in Nat /\ OfferedPoints \in Int
        /\ Len(readAt) = OfferedPoints
        /\ \A k \in 1..Len(Seen) : Seen[k] \in 1..OfferedPoints
    <3>1. TypeOK /\ Len(readAt) = OfferedPoints
          /\ \A k \in 1..Len(Seen) : Seen[k] <= OfferedPoints
      BY DEF MonitorInv
    <3>2. Len(Seen) \in Nat /\ OfferedPoints \in Int /\ Len(data) \in Nat
      BY <3>1, SeenTyped
    <3> HIDE DEF Seen
    <3>3. \A k \in 1..Len(Seen) : Seen[k] \in 1..Len(data)
      BY <2>1
    <3> QED BY <3>1, <3>2, <3>3
  <2>3. ASSUME NEW k \in 1..OfferedPoints
        PROVE  k \in ToSet(Seen) <=> Waiting(k, Seen) < Cap
    <3>1. PICK n \in 0..Len(Seen) : Followed(k, n)
      BY DEF MonitorInv
    <3> HIDE DEF Seen
    <3>s. DOMAIN Seen = 1..Len(Seen) /\ \A j \in 1..Len(Seen) : Seen[j] \in Int
      BY <2>1, <2>2
    <3>2. {j \in DOMAIN Seen : Seen[j] < k} = 1..n
      BY <3>1, <3>s, <2>2 DEF Followed
    <3>3. Waiting(k, Seen) = n - readAt[k]
      <4>1. Cardinality(1..n) = n
        BY <3>1, <2>2, FS_Interval
      <4> QED BY <4>1, <3>2 DEF Waiting
    <3>4. ASSUME NEW i \in 1..Len(Seen), Seen[i] = k
          PROVE  n < Len(Seen) /\ Seen[n + 1] = k
      <4>1. ~(i \in 1..n) /\ n + 1 \in 1..Len(Seen)
        BY <3>1, <3>4, <3>s, <2>2 DEF Followed
      <4>2. Seen[n + 1] >= k
        BY <4>1, <3>1, <2>2 DEF Followed
      <4>3. ~(n + 1 < i)
        BY <4>1, <4>2, <2>1, <3>4, <3>s
      <4> QED BY <4>1, <4>3, <3>4, <2>2
    <3>5. k \in ToSet(Seen) <=> n < Len(Seen) /\ Seen[n + 1] = k
      BY <3>4, <3>s, <2>2 DEF ToSet
    <3> QED BY <3>1, <3>3, <3>5 DEF Followed
  <2>4. ToSet(Seen) \subseteq 1..OfferedPoints
    <3> HIDE DEF Seen
    <3>1. DOMAIN Seen = 1..Len(Seen)
      BY <2>1
    <3> QED BY <3>1, <2>2 DEF ToSet
  <2>5. ToSet(Seen) = {k \in 1..Len(readAt) : Waiting(k, Seen) < Cap}
    BY <2>2, <2>3, <2>4
  <2> QED BY <2>1, <2>5 DEF InOrder, Seen
<1> QED BY <1>1, MonitorInvariant, PTL

------------------------------------------------------------------------------
(* Reports. *)

Failures(points) == Len(points) - Len(Keep(points, Available))

LEMMA AvailableIsKept ==
  ASSUME NEW d \in Seq(DataPoint)
  PROVE  /\ Keep(d, Available) \in Seq(DataPoint)
         /\ Len(Keep(d, Available)) \in 0..Len(d)
         /\ Failures(d) \in 0..Len(d)
<1> DEFINE ok == Keep(d, Available)
<1>1. DataPoint \cap Available = Available
  BY DEF Available
<1>2. ok \in Seq(Available) /\ Len(ok) <= Len(d)
  BY <1>1, KeepKeeps
<1> HIDE DEF ok
<1>3. ok \in Seq(DataPoint)
  <2>1. Available \subseteq DataPoint
    BY DEF Available
  <2> QED BY <1>2, <2>1, SeqMonotonic
<1>4. Len(ok) \in 0..Len(d) /\ Len(d) - Len(ok) \in 0..Len(d)
  BY <1>2
<1> QED BY <1>3, <1>4 DEF ok, Failures

(* What Result makes of any data points: the latencies of a report are in    *)
(* order as soon as one check has succeeded.                                 *)
LEMMA SummaryAddsUp ==
  ASSUME NEW d \in Seq(DataPoint)
  PROVE  /\ Summary(d).total = Len(d) /\ Summary(d).failures = Failures(d)
         /\ Len(d) > Failures(d) =>
              /\ Summary(d).min <= Summary(d).avg
              /\ Summary(d).avg <= Summary(d).max
<1> DEFINE ok == Keep(d, Available)
           l == LatenciesOf(ok)
           low == ToSet(l) \union {Hour}
           high == ToSet(l) \union {0}
<1>1. ok \in Seq(DataPoint) /\ Len(ok) \in 0..Len(d)
  BY AvailableIsKept
<1>2. Summary(d).total = Len(d) /\ Summary(d).failures = Failures(d)
  BY DEF Summary, Failures
<1> SUFFICES ASSUME Len(d) > Failures(d)
             PROVE  /\ Summary(d).min <= Summary(d).avg
                    /\ Summary(d).avg <= Summary(d).max
  BY <1>2
<1>3. ok # <<>> /\ d # <<>>
  <2>1. Failures(d) = Len(d) - Len(ok)
    BY DEF Failures
  <2> HIDE DEF ok
  <2>2. Len(ok) > 0
    BY <2>1, <1>1
  <2>3. Len(d) > 0
    BY <2>2, <1>1
  <2> QED BY <2>2, <2>3
<1>4. /\ Summary(d).min = Min(low) /\ Summary(d).max = Max(high)
      /\ Summary(d).avg = Mean(l)
  BY <1>3 DEF Summary, Average
<1> HIDE DEF ok
<1>5. l \in Seq(Nat) /\ l # <<>>
  <2>1. /\ Len(ok) \in Nat /\ DOMAIN ok = 1..Len(ok) /\ Len(ok) # 0
        /\ \A k \in 1..Len(ok) : ok[k] \in DataPoint
    BY <1>1, <1>3
  <2>2. \A k \in 1..Len(ok) : ok[k].latency \in Nat
    <3>1. \A p \in DataPoint : p.latency \in Latencies \union {0}
      BY DEF DataPoint
    <3>2. Latencies \union {0} \subseteq Nat
      BY MonitorAssumption
    <3>3. \A k \in 1..Len(ok) : ok[k].latency \in Latencies \union {0}
      BY <2>1, <3>1
    <3> QED BY <3>2, <3>3
  <2>3. l = [k \in 1..Len(ok) |-> ok[k].latency]
    BY <2>1 DEF LatenciesOf
  <2>4. l \in [1..Len(ok) -> Nat]
    BY <2>2, <2>3
  <2>5. l \in Seq(Nat) /\ Len(l) = Len(ok)
    BY <2>1, <2>4
  <2> QED BY <2>1, <2>5
<1> HIDE DEF l
<1>6. Min(low) <= Mean(l) /\ Mean(l) <= Max(high)
  <2> DEFINE T == {Hour}
             U == {0}
  <2>1. T \in SUBSET Nat
    BY DEF Hour
  <2>2. U \in SUBSET Nat
    OBVIOUS
  <2>3. IsFiniteSet(U)
    BY FS_Singleton
  <2> HIDE DEF T, U
  <2>4. /\ Min(ToSet(l) \union T) <= Mean(l)
        /\ Mean(l) <= Max(ToSet(l) \union U)
    BY <1>5, <2>1, <2>2, <2>3, MeanIsBetween
  <2> QED BY <2>4 DEF T, U
<1> QED BY <1>4, <1>6

(* A data point more can be a failure more, and never one less.              *)
LEMMA FailuresGrow ==
  ASSUME NEW d \in Seq(DataPoint), NEW p \in DataPoint
  PROVE  Failures(Append(d, p)) \in {Failures(d), Failures(d) + 1}
<1> DEFINE ok == Keep(d, Available)
           more == Keep(Append(d, p), Available)
<1>1. more = IF p \in Available THEN Append(ok, p) ELSE ok
  BY KeepOfOneMore
<1>2. ok \in Seq(DataPoint) /\ Len(Append(d, p)) = Len(d) + 1
  BY AvailableIsKept
<1> HIDE DEF ok
<1>3. Len(ok) \in Nat /\ Len(d) \in Nat /\ Len(Append(ok, p)) = Len(ok) + 1
  BY <1>2
<1>4. /\ Failures(d) = Len(d) - Len(ok)
      /\ Failures(Append(d, p)) = Len(d) + 1 - Len(more)
  BY <1>2 DEF Failures, ok
<1> HIDE DEF more
<1>5. Len(more) \in {Len(ok), Len(ok) + 1}
  BY <1>1, <1>3
<1> QED BY <1>3, <1>4, <1>5

(* A report is of some data points taken so far: not more, and no more       *)
(* failures among them.                                                      *)
ReportInv ==
  /\ ReportAddsUp
  /\ report.total \in 0..Len(data)
  /\ report.failures \in 0..Failures(data)

LEMMA ReportStart == Init => ReportInv
<1> SUFFICES ASSUME Init PROVE ReportInv
  OBVIOUS
<1>1. data = <<>> /\ report = Summary(data) /\ data \in Seq(DataPoint)
      /\ Len(data) = 0
  BY DEF Init
<1>2. Failures(data) = 0
  <2>1. Failures(data) \in 0..Len(data)
    BY <1>1, AvailableIsKept
  <2> QED BY <1>1, <2>1
<1>3. report.total = 0 /\ report.failures = 0
  BY <1>1, <1>2, SummaryAddsUp
<1> QED BY <1>1, <1>2, <1>3 DEF ReportInv, ReportAddsUp

LEMMA ReportSteps ==
  ASSUME TypeOK, ReportInv, [Next]_vars
  PROVE  /\ ReportInv'
         /\ report' # report =>
              /\ report'.total >= report.total
              /\ report'.failures >= report.failures
<1>1. /\ data \in Seq(DataPoint) /\ Len(data) \in Nat
      /\ Failures(data) \in 0..Len(data)
  BY AvailableIsKept DEF TypeOK
<1>2. /\ report.total \in 0..Len(data)
      /\ report.failures \in 0..Failures(data) /\ ReportAddsUp
  BY DEF ReportInv
<1>3. CASE Result
  <2>1. report' = Summary(data) /\ data' = data
    BY <1>3 DEF Result, loopVars
  <2>2. /\ report'.total = Len(data) /\ report'.failures = Failures(data)
        /\ Len(data) > Failures(data) =>
             report'.min <= report'.avg /\ report'.avg <= report'.max
    BY <2>1, <1>1, SummaryAddsUp
  <2>3. ReportAddsUp'
    BY <2>2, <1>1 DEF ReportAddsUp
  <2>4. Failures(data)' = Failures(data) /\ Len(data)' = Len(data)
    BY <2>1
  <2>5. /\ report'.total \in 0..Len(data)
        /\ report'.failures \in 0..Failures(data)
    BY <2>2, <1>1
  <2>6. ReportInv'
    BY <2>3, <2>4, <2>5 DEF ReportInv
  <2>7. report'.total >= report.total /\ report'.failures >= report.failures
    BY <2>2, <1>1, <1>2
  <2> QED BY <2>6, <2>7
<1>4. CASE Check
  <2>1. PICK p \in DataPoint : data' = Append(data, p)
    BY <1>4 DEF Check, Outcomes
  <2>2. report' = report
    BY <1>4 DEF Check, callVars
  <2>3. Len(data') = Len(data) + 1
    BY <2>1, <1>1
  <2>4. Failures(data)' \in {Failures(data), Failures(data) + 1}
    BY <2>1, <1>1, FailuresGrow
  <2>5. /\ report.total \in 0..Len(data')
        /\ report.failures \in 0..Failures(data)'
    BY <2>3, <2>4, <1>1, <1>2
  <2> QED BY <2>2, <2>5, <1>2 DEF ReportInv, ReportAddsUp
<1>5. CASE \/ Fire \/ Finished \/ SeeCancel \/ SeeTick \/ Offer \/ Unset
           \/ Close \/ Consumer \/ Stop \/ Cancel \/ Crash \/ UNCHANGED vars
  <2>1. report' = report /\ data' = data
    BY <1>5 DEF Fire, Finished, SeeCancel, SeeTick, Offer, Unset, Close,
       Consumer, Receive, EndWatch, Stop, Cancel, Crash, vars, callVars,
       loopVars
  <2> QED BY <2>1, <1>2 DEF ReportInv, ReportAddsUp
<1> QED BY <1>3, <1>4, <1>5 DEF Next, Loop

(* For any data points, at any moment: the counts of a report fit and its    *)
(* latencies are in order (monitoring.go:167-209).                           *)
THEOREM ReportsAlwaysAddUp == Spec => []ReportAddsUp
<1>1. MonitorInv => TypeOK
  BY DEF MonitorInv
<1>2. TypeOK /\ ReportInv /\ [Next]_vars => ReportInv'
  BY ReportSteps
<1>3. ReportInv => ReportAddsUp
  BY DEF ReportInv
<1> QED BY <1>1, <1>2, <1>3, ReportStart, MonitorInvariant, PTL DEF Spec

(* Of two reports the later one counts no fewer checks and no fewer failures *)
(* (monitoring.go:90-93, 167-209).                                           *)
THEOREM ReportsOnlyGrow == Spec => ReportsGrow
<1>1. MonitorInv => TypeOK
  BY DEF MonitorInv
<1>2. TypeOK /\ ReportInv /\ [Next]_vars => ReportInv'
  BY ReportSteps
<1>3. TypeOK /\ ReportInv /\ [Next]_vars =>
        [/\ report'.total >= report.total
         /\ report'.failures >= report.failures]_report
  BY ReportSteps
<1> QED
  BY <1>1, <1>2, <1>3, ReportStart, MonitorInvariant, PTL DEF Spec, ReportsGrow
=============================================================================
