---------------------------- MODULE Context_proofs ----------------------------
(***************************************************************************)
(* What is proved of the modules that share Context, each for a run of its *)
(* own: any number of steps of the program and of cancels.  At the end,    *)
(* the program of RunRoot is shown to be such a run for each command.      *)
(***************************************************************************)
EXTENDS RunRoot, Alerts, Samples_proofs

------------------------------------------------------------------------------
(* Traceroute. *)

(* The probes sent are those of the hops up to the loop variable, and no hop *)
(* has used a reply that is still on the wire.                               *)
LastSent == IF trace = "read" THEN hopTtl ELSE hopTtl - 1

TraceInv ==
  /\ TraceTypeOK
  /\ trace \in {"hop", "read"} => traceErr = "none"
  /\ trace \in {"resolve", "listen"} => route = <<>> /\ wire = {} /\ hopTtl = 1
  /\ trace = "read" => hopTtl <= TraceHops
  /\ trace # "done" => ~complete /\ traceErr = "none"
  /\ trace # "done" => \A p \in wire : p <= LastSent
  /\ \A k \in 1..Len(route) :
       /\ trace # "done" => route[k].number < hopTtl /\ ~route[k].reached
       /\ route[k].answers <= route[k].number
       /\ route[k].answers \notin wire
       /\ stray = 0 /\ route[k].reached => route[k].number >= Distance
       /\ stray = 0 => route[k].answers # Stray
  /\ \A j, k \in 1..Len(route) :
       j # k /\ route[j].answers = route[k].answers =>
         route[j].answers \in {NoReply, Stray}
  /\ RouteEndsAtTarget

LEMMA TraceStarts == TraceInit => TraceInv
<1> SUFFICES ASSUME TraceInit PROVE TraceInv
  OBVIOUS
<1>1. TraceTypeOK
  <2>1. route \in Seq(Hops)
    BY DEF TraceInit
  <2>2. hopTtl \in 1..(TraceHops + 1) /\ stray \in 0..MaxStray
    BY TraceAssumption DEF TraceInit
  <2> QED BY <2>1, <2>2 DEF TraceInit, TraceTypeOK
<1>2. 1..Len(route) = {}
  BY DEF TraceInit
<1> QED BY <1>1, <1>2 DEF TraceInit, TraceInv, RouteEndsAtTarget

(* What the end of a hop needs: a hop of a new number, and a reply that none *)
(* of the others has used.                                                   *)
LEMMA HopEnds ==
  ASSUME TraceInv, trace = "read", ctxDone' = ctxDone,
         NEW answers \in {Stray, NoReply} \union 1..TraceHops,
         NEW reached \in BOOLEAN,
         TraceHop(answers, reached), wire' = wire \ {answers},
         stray' \in {stray, stray + 1}, stray' \in 0..MaxStray,
         answers \notin {Stray, NoReply} => answers \in wire,
         answers = Stray => stray' # 0,
         stray' = 0 /\ reached => answers >= Distance
  PROVE  TraceInv'
<1> USE TraceAssumption DEF Stray, NoReply
<1>h. hopTtl \in 1..TraceHops /\ answers <= hopTtl
  BY DEF TraceInv, TraceTypeOK, LastSent
<1>r. /\ route \in Seq(Hops) /\ Len(route) \in Nat
      /\ route' = Append(route, [number |-> hopTtl, answers |-> answers,
                                 reached |-> reached])
      /\ route' \in Seq(Hops) /\ Len(route') = Len(route) + 1
      /\ \A k \in 1..Len(route) : route'[k] = route[k]
      /\ route'[Len(route) + 1] = [number |-> hopTtl, answers |-> answers,
                                   reached |-> reached]
  BY <1>h DEF TraceInv, TraceTypeOK, TraceHop, Hops
<1>e. \A k \in 1..Len(route') : k \in 1..Len(route) \/ k = Len(route) + 1
  BY <1>r
<1>f. \A k \in 1..Len(route) :
        /\ route[k] \in Hops
        /\ route[k].number < hopTtl /\ ~route[k].reached
        /\ route[k].answers <= route[k].number /\ route[k].answers \notin wire
        /\ stray = 0 => route[k].answers # Stray
  BY <1>r DEF TraceInv
<1>1. TraceTypeOK'
  <2>1. /\ hopTtl' \in {hopTtl, hopTtl + 1}
        /\ trace' \in {"hop", "done"} /\ traceErr' \in {"nil", traceErr}
        /\ complete' = (complete \/ reached)
    BY DEF TraceHop, TraceReturns
  <2>2. /\ complete \in BOOLEAN /\ wire \subseteq 1..TraceHops
        /\ traceErr \in {"none", "nil", "resolve", "listen", "ctx"}
    BY DEF TraceInv, TraceTypeOK
  <2>3. hopTtl' \in 1..(TraceHops + 1)
    BY <1>h, <2>1
  <2>4. wire' \subseteq 1..TraceHops /\ complete' \in BOOLEAN
    BY <2>1, <2>2
  <2> QED BY <2>1, <2>2, <2>3, <2>4, <1>r DEF TraceTypeOK
<1>2. /\ trace' \in {"hop", "done"}
      /\ trace' = "hop" => ~reached /\ ~complete' /\ traceErr' = "none"
                           /\ hopTtl' = hopTtl + 1
      /\ trace' = "done" => reached /\ complete' /\ traceErr' = "nil"
  BY DEF TraceInv, TraceTypeOK, TraceHop, TraceReturns
<1>3. \A p \in wire' : trace' # "done" => p <= LastSent'
  BY <1>h, <1>2 DEF TraceInv, TraceTypeOK, LastSent
<1>4. \A k \in 1..Len(route') :
        /\ trace' # "done" => route'[k].number < hopTtl' /\ ~route'[k].reached
        /\ route'[k].answers <= route'[k].number
        /\ route'[k].answers \notin wire'
        /\ stray' = 0 /\ route'[k].reached => route'[k].number >= Distance
        /\ stray' = 0 => route'[k].answers # Stray
  <2> TAKE k \in 1..Len(route')
  <2>1. CASE k \in 1..Len(route)
    BY <2>1, <1>h, <1>r, <1>2, <1>f DEF TraceInv, TraceTypeOK, Hops
  <2>2. CASE k = Len(route) + 1
    BY <2>2, <1>h, <1>r, <1>2 DEF TraceInv, TraceTypeOK
  <2> QED BY <2>1, <2>2, <1>e
<1>5. \A j, k \in 1..Len(route') :
        j # k /\ route'[j].answers = route'[k].answers =>
          route'[j].answers \in {NoReply, Stray}
  <2>1. \A k \in 1..Len(route) :
          route[k].answers = answers => answers \in {NoReply, Stray}
    BY <1>f
  <2> QED BY <2>1, <1>e, <1>r DEF TraceInv
<1>6. RouteEndsAtTarget'
  <2>1. \A j, k \in 1..Len(route') : j < k => j \in 1..Len(route)
    BY <1>r
  <2>2. \A j, k \in 1..Len(route') : j < k =>
          route'[j].number < route'[k].number /\ ~route'[j].reached
    BY <2>1, <1>e, <1>r, <1>f DEF TraceInv, RouteEndsAtTarget
  <2>3. complete' <=> \E k \in 1..Len(route') : route'[k].reached
    BY <1>e, <1>r, <1>f, <1>2
  <2> QED BY <2>2, <2>3, <1>2 DEF RouteEndsAtTarget
<1> QED BY <1>1, <1>2, <1>3, <1>4, <1>5, <1>6 DEF TraceInv

LEMMA TraceSteps == TraceInv /\ TraceStep => TraceInv'
<1> SUFFICES ASSUME TraceInv, TraceStep PROVE TraceInv'
  OBVIOUS
<1> USE TraceAssumption
<1>1. CASE TraceResolve
  BY <1>1 DEF TraceInv, TraceTypeOK, TraceResolve, TraceReturns, LastSent,
     RouteEndsAtTarget
<1>2. CASE TraceListen
  BY <1>2 DEF TraceInv, TraceTypeOK, TraceListen, TraceReturns, LastSent,
     RouteEndsAtTarget
<1>3. CASE TraceSeeCancel
  BY <1>3 DEF TraceInv, TraceTypeOK, TraceSeeCancel, TraceReturns,
     RouteEndsAtTarget
<1>4. CASE TraceSend
  <2>1. /\ wire' \subseteq 1..TraceHops
        /\ \A p \in wire' : p <= hopTtl
    <3>1. /\ wire \subseteq 1..TraceHops /\ hopTtl \in 1..TraceHops
          /\ \A p \in wire : p <= hopTtl - 1
      BY <1>4 DEF TraceInv, TraceTypeOK, TraceSend, LastSent
    <3>2. wire' \subseteq wire \union {hopTtl}
      BY <1>4 DEF TraceSend
    <3> QED BY <3>1, <3>2
  <2>2. \A k \in 1..Len(route) :
          route[k].answers <= route[k].number /\ route[k].number < hopTtl
    BY <1>4 DEF TraceInv, TraceSend
  <2>3. \A k \in 1..Len(route) : route[k].answers # hopTtl
    <3> TAKE k \in 1..Len(route)
    <3>1. route[k] \in Hops
      BY DEF TraceInv, TraceTypeOK
    <3> QED BY <2>2, <3>1 DEF TraceInv, TraceTypeOK, Hops, Stray, NoReply
  <2>4. \A k \in 1..Len(route) : route[k].answers \notin wire'
    BY <1>4, <2>3 DEF TraceInv, TraceSend
  <2> QED BY <1>4, <2>1, <2>4 DEF TraceInv, TraceTypeOK, TraceSend, LastSent,
       RouteEndsAtTarget
<1>5. CASE TraceSendFails
  <2>1. \A k \in 1..Len(route) : route[k] \in Hops
    BY DEF TraceInv, TraceTypeOK
  <2>2. hopTtl' \in 1..(TraceHops + 1) /\ hopTtl < hopTtl'
    BY <1>5 DEF TraceInv, TraceTypeOK, TraceSendFails
  <2>3. \A k \in 1..Len(route) : route[k].number < hopTtl'
    BY <1>5, <2>1, <2>2 DEF TraceInv, TraceTypeOK, TraceSendFails, Hops
  <2>4. \A p \in wire' : p <= LastSent'
    <3>1. /\ wire \subseteq 1..TraceHops /\ hopTtl \in 1..TraceHops
          /\ \A p \in wire : p <= hopTtl - 1
      BY <1>5 DEF TraceInv, TraceTypeOK, TraceSendFails, LastSent
    <3>2. wire' = wire /\ LastSent' = hopTtl
      BY <1>5, <3>1 DEF TraceSendFails, LastSent
    <3> QED BY <3>1, <3>2
  <2>5. TraceTypeOK'
    BY <1>5, <2>2 DEF TraceInv, TraceTypeOK, TraceSendFails
  <2>6. RouteEndsAtTarget'
    BY <1>5 DEF TraceInv, TraceSendFails, RouteEndsAtTarget
  <2>7. /\ <<trace, wire, route, complete, traceErr, stray>>' =
              <<trace, wire, route, complete, traceErr, stray>>
        /\ trace = "hop"
    BY <1>5 DEF TraceSendFails
  <2> QED BY <2>3, <2>4, <2>5, <2>6, <2>7 DEF TraceInv
<1>6. CASE TraceReadReply
  <2>1. PICK p \in wire : wire' = wire \ {p} /\ TraceHop(p, p >= Distance)
    BY <1>6 DEF TraceReadReply
  <2>2. p \in 1..TraceHops /\ (p >= Distance) \in BOOLEAN
    BY DEF TraceInv, TraceTypeOK
  <2>3. p \notin {Stray, NoReply} /\ stray' = stray /\ stray \in 0..MaxStray
    BY <1>6, <2>2 DEF TraceReadReply, TraceInv, TraceTypeOK, Stray, NoReply
  <2>4. trace = "read" /\ ctxDone' = ctxDone
    BY <1>6, <2>1 DEF TraceReadReply, TraceHop
  <2> QED BY <2>1, <2>2, <2>3, <2>4, HopEnds
<1>7. CASE TraceReadStray
  <2>1. PICK reached \in BOOLEAN : TraceHop(Stray, reached)
    BY <1>7 DEF TraceReadStray
  <2>2. wire' = wire \ {Stray}
    BY <1>7 DEF TraceReadStray, TraceInv, TraceTypeOK, Stray
  <2>3. /\ stray' = stray + 1 /\ stray' \in 0..MaxStray /\ stray' # 0
        /\ trace = "read"
    BY <1>7 DEF TraceReadStray, TraceInv, TraceTypeOK
  <2>4. ctxDone' = ctxDone
    BY <2>1 DEF TraceHop
  <2> QED BY <2>1, <2>2, <2>3, <2>4, HopEnds
<1>8. CASE TraceTimesOut
  <2>1. TraceHop(NoReply, FALSE) /\ trace = "read" /\ stray' = stray
    BY <1>8 DEF TraceTimesOut
  <2>2. wire' = wire \ {NoReply} /\ stray \in 0..MaxStray
    BY <1>8 DEF TraceTimesOut, TraceInv, TraceTypeOK, NoReply
  <2>3. NoReply # Stray
    BY DEF NoReply, Stray
  <2>4. ctxDone' = ctxDone
    BY <2>1 DEF TraceHop
  <2> QED BY <2>1, <2>2, <2>3, <2>4, HopEnds
<1>9. CASE TraceEnds
  BY <1>9 DEF TraceInv, TraceTypeOK, TraceEnds, TraceReturns,
     RouteEndsAtTarget
<1> QED BY <1>1, <1>2, <1>3, <1>4, <1>5, <1>6, <1>7, <1>8, <1>9 DEF TraceStep

LEMMA TraceStutters == TraceInv /\ UNCHANGED traceVars => TraceInv'
  BY DEF TraceInv, TraceTypeOK, LastSent, RouteEndsAtTarget, traceVars

(* TraceInv holds in every state of a trace.                                 *)
THEOREM TraceInvariant == TraceSpec => []TraceInv
<1>1. /\ TraceInv
      /\ [TraceStep \/ (Cancel /\ UNCHANGED traceVars)]_<<traceVars, ctxDone>>
      => TraceInv'
  BY TraceSteps, TraceStutters
<1> QED BY TraceStarts, <1>1, PTL DEF TraceSpec

(* A route stops at the target, for any number of hops and any target,       *)
(* whatever is lost, late or read by mistake (Tracer.Run).                   *)
THEOREM RoutesEndAtTarget == TraceSpec => []RouteEndsAtTarget
<1>1. TraceInv => RouteEndsAtTarget
  BY DEF TraceInv
<1> QED BY TraceInvariant, <1>1, PTL

(* Late and lost replies make no route shorter than it is (Tracer.Run).      *)
THEOREM RoutesAreNotTooShort == TraceSpec => []RouteIsNotTooShort
<1>1. TraceInv => RouteIsNotTooShort
  BY DEF TraceInv, RouteIsNotTooShort
<1> QED BY TraceInvariant, <1>1, PTL

------------------------------------------------------------------------------
(* DNS lookups. *)

(* Nothing is looked up before Run has started the goroutines, and nothing   *)
(* after it has waited for them; the mutex is held by the goroutine that     *)
(* appends.                                                                  *)
DnsInv ==
  /\ dns \in {"start", "wait", "judge", "done"}
  /\ lookup \in [Types -> {"unborn", "asking", "locking", "storing", "over"}]
  /\ dns = "start" => \A t \in Types : lookup[t] = "unborn"
  /\ dns # "start" => \A t \in Types : lookup[t] # "unborn"
  /\ dns \in {"judge", "done"} => \A t \in Types : lookup[t] = "over"
  /\ \A t \in Types : lookup[t] = "storing" <=> mu = t
  /\ ended \in Seq([job : Types, state : {"PROBED", "CANCELLED"}])

LEMMA NobodyIsNoType == Nobody \notin Types
  BY DnsAssumption DEF Nobody, RecordTypes

LEMMA DnsStarts == DnsInit => DnsInv
  BY NobodyIsNoType DEF DnsInit, DnsInv

LEMMA DnsSteps == DnsInv /\ DnsStep => DnsInv'
<1> SUFFICES ASSUME DnsInv, DnsStep PROVE DnsInv'
  OBVIOUS
<1>1. CASE SpawnLookups
  BY <1>1 DEF DnsInv, SpawnLookups
<1>2. CASE LookupsEnd \/ JudgeRecords
  BY <1>2 DEF DnsInv, LookupsEnd, JudgeRecords, lookupVars
<1>3. ASSUME NEW t \in Types, AnswerComes(t) PROVE DnsInv'
  BY <1>3 DEF DnsInv, AnswerComes
<1>4. ASSUME NEW t \in Types, LookupFails(t) PROVE DnsInv'
  BY <1>4 DEF DnsInv, LookupFails, Over
<1>5. ASSUME NEW t \in Types, LockRecords(t) PROVE DnsInv'
  BY <1>5, NobodyIsNoType DEF DnsInv, LockRecords
<1>6. ASSUME NEW t \in Types, StoreValue(t) PROVE DnsInv'
  BY <1>6 DEF DnsInv, StoreValue
<1>7. ASSUME NEW t \in Types, UnlockRecords(t) PROVE DnsInv'
  BY <1>7, NobodyIsNoType DEF DnsInv, UnlockRecords, Over
<1> QED
  BY <1>1, <1>2, <1>3, <1>4, <1>5, <1>6, <1>7 DEF DnsStep, LookUp

(* DnsInv holds in every state of a lookup.                                  *)
THEOREM DnsInvariant == DnsSpec => []DnsInv
<1>1. DnsInv /\ UNCHANGED dnsVars => DnsInv'
  BY DEF DnsInv, dnsVars, lookupVars
<1>2. /\ DnsInv
      /\ [DnsStep \/ (Cancel /\ UNCHANGED dnsVars)]_<<dnsVars,
                                                                    ctxDone>>
      => DnsInv'
  BY <1>1, DnsSteps
<1> QED BY DnsStarts, <1>2, PTL DEF DnsSpec

LEMMA LookupsImplementBatch == DnsSpec => Lookups!BatchSafety
<1> DEFINE pending == {t \in Types : lookup[t] # "over"}
           finished == dns \in {"judge", "done"}
<1> USE DEF Lookups!batchVars
<1>1. DnsInit /\ ContextInit => Lookups!BatchInit
  BY DEF DnsInit, ContextInit, Lookups!BatchInit
<1>2. ASSUME DnsInv, NEW t \in Types, NEW state \in {"PROBED", "CANCELLED"},
             lookup[t] \notin {"unborn", "over"}, Over(t, state),
             state = "CANCELLED" => ctxDone, UNCHANGED <<dns, ctxDone>>
      PROVE  Lookups!BatchNext
  <2> DEFINE r == [job |-> t, state |-> state]
  <2>1. r \in Lookups!Result
    BY DEF Lookups!Result
  <2>2. ~finished /\ t \in pending
    BY <1>2 DEF DnsInv
  <2>3. pending' = pending \ {t}
    BY <1>2 DEF DnsInv, Over
  <2>4. ended' = Append(ended, r) /\ finished' = finished
    BY <1>2 DEF Over
  <2>5. Lookups!Report(r)
    BY <1>2, <2>2, <2>3, <2>4 DEF Lookups!Report
  <2> QED BY <2>1, <2>5 DEF Lookups!BatchNext, Lookups!ReportSome
<1>3. /\ DnsInv
      /\ [DnsStep \/ (Cancel /\ UNCHANGED dnsVars)]_<<dnsVars,
                                                                    ctxDone>>
      => [Lookups!BatchNext]_Lookups!batchVars
  <2> SUFFICES ASSUME DnsInv,
                      [DnsStep \/ (Cancel /\ UNCHANGED dnsVars)]_<<dnsVars,
                                                                    ctxDone>>
               PROVE  [Lookups!BatchNext]_Lookups!batchVars
    OBVIOUS
  <2>1. CASE SpawnLookups
    BY <2>1 DEF SpawnLookups, DnsInv
  <2>2. CASE LookupsEnd
    BY <2>2 DEF LookupsEnd, lookupVars, DnsInv, Lookups!Finish,
       Lookups!BatchNext
  <2>3. CASE JudgeRecords
    BY <2>3 DEF JudgeRecords, lookupVars
  <2>4. ASSUME NEW t \in Types,
               AnswerComes(t) \/ LockRecords(t) \/ StoreValue(t)
        PROVE  UNCHANGED <<ended, pending, ctxDone, finished>>
    BY <2>4 DEF AnswerComes, LockRecords, StoreValue, DnsInv
  <2>5. ASSUME NEW t \in Types, LookupFails(t) PROVE Lookups!BatchNext
    <3>1. /\ lookup[t] = "asking" /\ UNCHANGED <<dns, ctxDone>>
          /\ Over(t, IF ctxDone THEN "CANCELLED" ELSE "PROBED")
      BY <2>5 DEF LookupFails
    <3>2. CASE ctxDone
      BY <3>1, <3>2, <1>2
    <3>3. CASE ~ctxDone
      BY <3>1, <3>3, <1>2
    <3> QED BY <3>2, <3>3
  <2>6. ASSUME NEW t \in Types, UnlockRecords(t) PROVE Lookups!BatchNext
    BY <2>6, <1>2 DEF UnlockRecords
  <2>7. CASE Cancel /\ UNCHANGED dnsVars
    BY <2>7 DEF Cancel, dnsVars, lookupVars, Lookups!CancelBatch,
       Lookups!BatchNext
  <2>8. CASE UNCHANGED <<dnsVars, ctxDone>>
    BY <2>8 DEF dnsVars, lookupVars
  <2> QED
    BY <2>1, <2>2, <2>3, <2>4, <2>5, <2>6, <2>7, <2>8 DEF DnsStep, LookUp
<1> QED
  BY <1>1, <1>3, DnsInvariant, PTL DEF DnsSpec, Lookups!BatchSafety

(* The lookups implement the safety half of Batch: each is reported once,    *)
(* and Run goes on when all have been, cancelled or not (Resolver.Run).      *)
THEOREM LookupsAreAlwaysABatch == DnsSpec => LookupsAreABatch
<1>1. DnsInv => (dns \in {"judge", "done"} =>
                   \A t \in Types : lookup[t] = "over")
  BY DEF DnsInv
<1> QED
  BY <1>1, LookupsImplementBatch, DnsInvariant, PTL DEF LookupsAreABatch

(* The values of a type are appended by the goroutine that holds the mutex,  *)
(* at the end of the list.                                                   *)
Unstored(t) == stored[t] = 0 /\ StandsAfter(t, Len(records), 0)

Storing(t) ==
  /\ stored[t] <= zone[t] /\ stored[t] <= Len(records)
  /\ StandsAfter(t, Len(records) - stored[t], stored[t])

Whole(t) ==
  \E n \in {0, zone[t]}, s \in 0..Len(records) :
    s + n <= Len(records) /\ StandsAfter(t, s, n)

RecordsTyped ==
  /\ records \in Seq([type : Types, value : Nat])
  /\ zone \in [Types -> Nat] /\ stored \in [Types -> Nat]

RecordsInv ==
  /\ RecordsTyped
  /\ \A t \in Types :
       /\ lookup[t] \notin {"storing", "over"} => Unstored(t)
       /\ lookup[t] = "storing" => Storing(t)
       /\ lookup[t] = "over" => Whole(t)
  /\ dns = "done" => (dnsError <=> records = <<>>)

LEMMA RecordsStart == DnsInit => RecordsInv
<1> SUFFICES ASSUME DnsInit PROVE RecordsInv
  OBVIOUS
<1>1. /\ records \in Seq([type : Types, value : Nat])
      /\ Len(records) = 0 /\ 1..Len(records) = {}
  BY DEF DnsInit
<1>2. zone \in [Types -> Nat] /\ stored \in [Types -> Nat]
  BY DEF DnsInit
<1>3. \A t \in Types : stored[t] = 0 /\ lookup[t] = "unborn"
  BY DEF DnsInit
<1>4. \A t \in Types : Unstored(t)
  BY <1>1, <1>3 DEF Unstored, StandsAfter
<1>5. dns = "start"
  BY DEF DnsInit
<1> QED BY <1>1, <1>2, <1>3, <1>4, <1>5 DEF RecordsInv, RecordsTyped

(* A step that leaves the records alone changes none of the three. *)
LEMMA RecordsStand ==
  ASSUME UNCHANGED <<stored, records>>, NEW t \in Types
  PROVE  /\ Unstored(t)' <=> Unstored(t)
         /\ UNCHANGED zone => (Storing(t)' <=> Storing(t))
         /\ UNCHANGED zone => (Whole(t)' <=> Whole(t))
<1>1. Unstored(t)' <=> Unstored(t)
  BY DEF Unstored, StandsAfter
<1>2. ASSUME UNCHANGED zone PROVE Storing(t)' <=> Storing(t)
  BY <1>2 DEF Storing, StandsAfter
<1>3. ASSUME UNCHANGED zone PROVE Whole(t)' <=> Whole(t)
  BY <1>3 DEF Whole, StandsAfter
<1> QED BY <1>1, <1>2, <1>3

(* A record of another type leaves the ones of type u where they are. *)
LEMMA RecordsOfOthers ==
  ASSUME RecordsTyped, NEW r \in [type : Types, value : Nat],
         records' = Append(records, r),
         NEW u \in Types, r.type # u,
         NEW s \in Nat, NEW n \in Nat, s + n <= Len(records),
         StandsAfter(u, s, n)
  PROVE  StandsAfter(u, s, n)'
<1>1. /\ Len(records) \in Nat /\ Len(records') = Len(records) + 1
      /\ \A k \in 1..Len(records) : records'[k] = records[k]
      /\ records'[Len(records) + 1] = r
  BY DEF RecordsTyped
<1>2. ASSUME NEW k \in 1..Len(records')
      PROVE  /\ records'[k].type = u <=> k \in (s + 1)..(s + n)
             /\ records'[k].type = u => records'[k].value = k - s
  <2>1. CASE k \in 1..Len(records)
    BY <2>1, <1>1 DEF StandsAfter
  <2>2. CASE k = Len(records) + 1
    <3>1. k \notin (s + 1)..(s + n)
      BY <2>2, <1>1
    <3> QED BY <3>1, <2>2, <1>1
  <2> QED BY <2>1, <2>2, <1>1
<1> QED BY <1>2 DEF StandsAfter

(* The next value of the goroutine that holds the mutex follows its others. *)
LEMMA RecordsGrow ==
  ASSUME RecordsTyped, NEW t \in Types, NEW m \in Nat, NEW c \in Nat,
         NEW r \in [type : Types, value : Nat], r.type = t, r.value = c + 1,
         records' = Append(records, r), m + c = Len(records),
         StandsAfter(t, m, c)
  PROVE  StandsAfter(t, m, c + 1)'
<1>1. /\ Len(records) \in Nat /\ Len(records') = Len(records) + 1
      /\ \A k \in 1..Len(records) : records'[k] = records[k]
      /\ records'[Len(records) + 1] = r
  BY DEF RecordsTyped
<1>2. ASSUME NEW k \in 1..Len(records')
      PROVE  /\ records'[k].type = t <=> k \in (m + 1)..(m + (c + 1))
             /\ records'[k].type = t => records'[k].value = k - m
  <2>1. CASE k \in 1..Len(records)
    <3>1. k \in (m + 1)..(m + c) <=> k \in (m + 1)..(m + (c + 1))
      BY <2>1, <1>1
    <3> QED BY <3>1, <2>1, <1>1 DEF StandsAfter
  <2>2. CASE k = Len(records) + 1
    <3>1. k \in (m + 1)..(m + (c + 1)) /\ k - m = c + 1
      BY <2>2, <1>1
    <3> QED BY <3>1, <2>2, <1>1
  <2> QED BY <2>1, <2>2, <1>1
<1> QED BY <1>2 DEF StandsAfter

LEMMA RecordsSteps == DnsInv /\ RecordsInv /\ DnsStep => RecordsInv'
<1> SUFFICES ASSUME DnsInv, RecordsInv, DnsStep PROVE RecordsInv'
  OBVIOUS
<1>l. Len(records) \in Nat
  BY DEF RecordsInv, RecordsTyped
<1>1. CASE SpawnLookups
  <2>1. zone' \in [Types -> Nat]
    BY <1>1, DnsAssumption DEF SpawnLookups
  <2>2. \A t \in Types : lookup[t] = "unborn" /\ lookup'[t] = "asking"
    BY <1>1 DEF SpawnLookups, DnsInv
  <2>3. UNCHANGED <<stored, records>> /\ dns' = "wait"
    BY <1>1 DEF SpawnLookups
  <2>4. \A t \in Types : Unstored(t)'
    BY <2>2, <2>3, RecordsStand DEF RecordsInv
  <2> QED BY <2>1, <2>2, <2>3, <2>4 DEF RecordsInv, RecordsTyped
<1>2. CASE LookupsEnd \/ JudgeRecords
  <2>1. /\ UNCHANGED <<zone, lookup, stored, records>>
        /\ dns' = "done" => (dnsError' <=> records = <<>>)
    BY <1>2 DEF LookupsEnd, JudgeRecords, lookupVars
  <2>2. \A t \in Types : /\ Unstored(t)' <=> Unstored(t)
                         /\ Storing(t)' <=> Storing(t)
                         /\ Whole(t)' <=> Whole(t)
    BY <2>1, RecordsStand
  <2> QED BY <2>1, <2>2 DEF RecordsInv, RecordsTyped
<1>3. ASSUME NEW t \in Types,
             AnswerComes(t) \/ LookupFails(t) \/ LockRecords(t)
               \/ UnlockRecords(t)
      PROVE  RecordsInv'
  <2>1. /\ UNCHANGED <<dns, zone, stored, records, dnsError>>
        /\ \A u \in Types \ {t} : lookup'[u] = lookup[u]
    BY <1>3 DEF AnswerComes, LookupFails, LockRecords, UnlockRecords, Over,
       DnsInv
  <2>2. \A u \in Types : /\ Unstored(u)' <=> Unstored(u)
                         /\ Storing(u)' <=> Storing(u)
                         /\ Whole(u)' <=> Whole(u)
    BY <2>1, RecordsStand
  <2>3. zone[t] \in Nat /\ stored[t] \in Nat
    BY DEF RecordsInv, RecordsTyped
  <2>4. CASE AnswerComes(t)
    <3>1. lookup[t] = "asking" /\ lookup'[t] = "locking"
      BY <2>4 DEF AnswerComes, DnsInv
    <3> QED BY <3>1, <2>1, <2>2 DEF RecordsInv, RecordsTyped
  <2>5. CASE LookupFails(t)
    <3>1. lookup[t] = "asking" /\ lookup'[t] = "over"
      BY <2>5 DEF LookupFails, Over, DnsInv
    <3>2. StandsAfter(t, Len(records), 0)
      BY <3>1 DEF RecordsInv, Unstored
    <3>3. Len(records) \in 0..Len(records) /\ Len(records) + 0 <= Len(records)
      BY <1>l
    <3>4. Whole(t)
      BY <3>2, <3>3 DEF Whole
    <3> QED BY <3>1, <3>4, <2>1, <2>2 DEF RecordsInv, RecordsTyped
  <2>6. CASE LockRecords(t)
    <3>1. lookup[t] = "locking" /\ lookup'[t] = "storing"
      BY <2>6 DEF LockRecords, DnsInv
    <3>2. stored[t] = 0 /\ StandsAfter(t, Len(records), 0)
      BY <3>1 DEF RecordsInv, Unstored
    <3>3. /\ Len(records) - stored[t] = Len(records)
          /\ stored[t] <= zone[t] /\ stored[t] <= Len(records)
      BY <3>2, <2>3, <1>l
    <3>4. Storing(t)
      BY <3>2, <3>3 DEF Storing
    <3> QED BY <3>1, <3>4, <2>1, <2>2 DEF RecordsInv, RecordsTyped
  <2>7. CASE UnlockRecords(t)
    <3>1. lookup[t] = "storing" /\ lookup'[t] = "over" /\ stored[t] = zone[t]
      BY <2>7 DEF UnlockRecords, Over, DnsInv
    <3>2. stored[t] <= Len(records)
          /\ StandsAfter(t, Len(records) - stored[t], stored[t])
      BY <3>1 DEF RecordsInv, Storing
    <3>3. /\ Len(records) - stored[t] \in 0..Len(records)
          /\ (Len(records) - stored[t]) + stored[t] <= Len(records)
      BY <3>2, <2>3, <1>l
    <3>4. Whole(t)
      BY <3>1, <3>2, <3>3 DEF Whole
    <3> QED BY <3>1, <3>4, <2>1, <2>2 DEF RecordsInv, RecordsTyped
  <2> QED BY <1>3, <2>4, <2>5, <2>6, <2>7
<1>4. ASSUME NEW t \in Types, StoreValue(t) PROVE RecordsInv'
  <2>1. PICK r \in [type : Types, value : Nat] :
          r.type = t /\ r.value = stored[t] + 1
            /\ records' = Append(records, r)
    <3>1. stored[t] \in Nat /\ stored'[t] = stored[t] + 1
      BY <1>4 DEF StoreValue, RecordsInv, RecordsTyped
    <3> QED BY <1>4, <3>1 DEF StoreValue
  <2>2. /\ lookup[t] = "storing" /\ stored[t] < zone[t]
        /\ stored' = [stored EXCEPT ![t] = stored[t] + 1]
        /\ UNCHANGED <<dns, zone, lookup, dnsError>>
    BY <1>4 DEF StoreValue
  <2>3. /\ stored[t] \in Nat /\ zone[t] \in Nat /\ stored' \in [Types -> Nat]
        /\ stored'[t] = stored[t] + 1
        /\ \A u \in Types \ {t} : stored'[u] = stored[u]
    BY <2>2 DEF RecordsInv, RecordsTyped
  <2>4. /\ records' \in Seq([type : Types, value : Nat])
        /\ Len(records') = Len(records) + 1
    BY <2>1 DEF RecordsInv, RecordsTyped
  <2>5. dns = "wait" /\ \A u \in Types : lookup[u] = "storing" => u = t
    BY <2>2 DEF DnsInv
  <2>t. RecordsTyped
    BY DEF RecordsInv
  <2>6. Storing(t)'
    <3>1. stored[t] <= Len(records)
          /\ StandsAfter(t, Len(records) - stored[t], stored[t])
      BY <2>2 DEF RecordsInv, Storing
    <3>2. PICK c \in Nat : c = stored[t]
      BY <2>3
    <3>3. PICK m \in Nat : m = Len(records) - c
      BY <3>1, <3>2, <1>l
    <3>4. StandsAfter(t, m, c) /\ m + c = Len(records)
      BY <3>1, <3>2, <3>3, <1>l
    <3>5. StandsAfter(t, m, c + 1)'
      BY <2>1, <2>t, <3>2, <3>4, RecordsGrow
    <3>6. /\ stored'[t] = c + 1 /\ Len(records') - stored'[t] = m
          /\ stored'[t] <= zone[t] /\ stored'[t] <= Len(records')
      BY <2>2, <2>3, <2>4, <3>1, <3>2, <3>3, <1>l
    <3>7. StandsAfter(t, Len(records) - stored[t], stored[t])'
      BY <3>5, <3>6 DEF StandsAfter
    <3> QED BY <3>6, <3>7, <2>2 DEF Storing
  <2>7. ASSUME NEW u \in Types \ {t}, Unstored(u) PROVE Unstored(u)'
    <3>1. PICK s \in Nat : s = Len(records)
      BY <1>l
    <3>2. StandsAfter(u, s, 0) /\ s + 0 <= Len(records) /\ 0 \in Nat
      BY <2>7, <3>1, <1>l DEF Unstored
    <3>3. StandsAfter(u, s, 0)'
      BY <3>2, <2>1, <2>t, RecordsOfOthers
    <3>4. (s + 1)..(s + 0) = {}
          /\ (Len(records') + 1)..(Len(records') + 0) = {}
      BY <3>1, <2>4, <1>l
    <3>5. StandsAfter(u, Len(records), 0)'
      BY <3>3, <3>4 DEF StandsAfter
    <3> QED BY <3>5, <2>3, <2>7 DEF Unstored
  <2>8. ASSUME NEW u \in Types \ {t}, Whole(u) PROVE Whole(u)'
    <3>1. PICK n \in {0, zone[u]}, s \in 0..Len(records) :
            s + n <= Len(records) /\ StandsAfter(u, s, n)
      BY <2>8 DEF Whole
    <3>2. n \in Nat /\ s \in Nat
      BY <3>1, <1>l DEF RecordsInv, RecordsTyped
    <3>3. StandsAfter(u, s, n)'
      BY <3>1, <3>2, <2>1, <2>t, RecordsOfOthers
    <3>4. s \in 0..Len(records') /\ s + n <= Len(records')
      BY <3>1, <3>2, <2>4, <1>l
    <3> QED BY <3>1, <3>3, <3>4, <2>2 DEF Whole
  <2>9. ASSUME NEW u \in Types
        PROVE  /\ lookup'[u] \notin {"storing", "over"} => Unstored(u)'
               /\ lookup'[u] = "storing" => Storing(u)'
               /\ lookup'[u] = "over" => Whole(u)'
    <3>1. CASE u = t
      BY <3>1, <2>2, <2>6
    <3>2. CASE u # t
      BY <3>2, <2>2, <2>5, <2>7, <2>8 DEF RecordsInv
    <3> QED BY <3>1, <3>2
  <2> QED
    BY <2>2, <2>3, <2>4, <2>5, <2>9 DEF RecordsInv, RecordsTyped
<1> QED
  BY <1>1, <1>2, <1>3, <1>4 DEF DnsStep, LookUp

(* The records of one type stand together, in order and whole, for any number*)
(* of values and in whatever order the lookups end (Resolver.Run).           *)
THEOREM RecordsAreAlwaysWhole == DnsSpec => []RecordsAreWhole
<1>1. RecordsInv /\ UNCHANGED dnsVars => RecordsInv'
  <2> SUFFICES ASSUME RecordsInv, UNCHANGED dnsVars PROVE RecordsInv'
    OBVIOUS
  <2>1. UNCHANGED <<dns, zone, lookup, stored, records, dnsError>>
    BY DEF dnsVars, lookupVars
  <2>2. \A t \in Types : /\ Unstored(t)' <=> Unstored(t)
                         /\ Storing(t)' <=> Storing(t)
                         /\ Whole(t)' <=> Whole(t)
    BY <2>1, RecordsStand
  <2> QED BY <2>1, <2>2 DEF RecordsInv, RecordsTyped
<1>2. /\ DnsInv /\ RecordsInv
      /\ [DnsStep \/ (Cancel /\ UNCHANGED dnsVars)]_<<dnsVars,
                                                                    ctxDone>>
      => RecordsInv'
  BY <1>1, RecordsSteps
<1>3. RecordsInv => RecordsAreWhole
  BY DEF RecordsInv, RecordsAreWhole, Whole
<1> QED BY RecordsStart, <1>2, <1>3, DnsInvariant, PTL DEF DnsSpec

(* The values of the lookups stay in their ranges. *)
LEMMA DnsTypesHold == DnsSpec => []DnsTypeOK
<1>1. DnsInit => DnsTypeOK
  <2> SUFFICES ASSUME DnsInit PROVE DnsTypeOK
    OBVIOUS
  <2>1. [t \in Types |-> 0] \in [Types -> 0..MaxValues]
    BY DnsAssumption
  <2>2. /\ records \in Seq([type : Types, value : 1..MaxValues])
        /\ ended \in Seq([job : Types, state : {"PROBED", "CANCELLED"}])
    BY DEF DnsInit
  <2> QED BY <2>1, <2>2 DEF DnsInit, DnsTypeOK
<1>2. DnsTypeOK /\ (DnsStep \/ UNCHANGED dnsVars) => DnsTypeOK'
  <2> SUFFICES ASSUME DnsTypeOK, DnsStep \/ UNCHANGED dnsVars
               PROVE  DnsTypeOK'
    OBVIOUS
  <2>1. CASE SpawnLookups
    BY <2>1 DEF DnsTypeOK, SpawnLookups
  <2>2. CASE LookupsEnd \/ JudgeRecords
    BY <2>2 DEF DnsTypeOK, LookupsEnd, JudgeRecords, lookupVars
  <2>3. ASSUME NEW t \in Types, AnswerComes(t) \/ LockRecords(t)
        PROVE  DnsTypeOK'
    BY <2>3 DEF DnsTypeOK, AnswerComes, LockRecords
  <2>4. ASSUME NEW t \in Types, LookupFails(t) \/ UnlockRecords(t)
        PROVE  DnsTypeOK'
    <3>1. PICK state \in {"PROBED", "CANCELLED"} : Over(t, state)
      BY <2>4 DEF LookupFails, UnlockRecords
    <3>2. ended' \in Seq([job : Types, state : {"PROBED", "CANCELLED"}])
      BY <3>1 DEF DnsTypeOK, Over
    <3>3. lookup' \in [Types -> {"unborn", "asking", "locking", "storing",
                                "over"}]
      BY <3>1 DEF DnsTypeOK, Over
    <3>4. mu' \in Types \union {Nobody}
      BY <2>4 DEF DnsTypeOK, LookupFails, UnlockRecords
    <3> QED BY <2>4, <3>2, <3>3, <3>4 DEF DnsTypeOK, LookupFails, UnlockRecords
  <2>5. ASSUME NEW t \in Types, StoreValue(t) PROVE DnsTypeOK'
    <3>1. stored[t] + 1 \in 1..MaxValues
      BY <2>5, DnsAssumption DEF DnsTypeOK, StoreValue
    <3>2. stored' \in [Types -> 0..MaxValues] /\ stored'[t] \in 1..MaxValues
      BY <2>5, <3>1 DEF DnsTypeOK, StoreValue
    <3>3. [type |-> t, value |-> stored'[t]] \in
            [type : Types, value : 1..MaxValues]
      BY <3>2
    <3>4. records' \in Seq([type : Types, value : 1..MaxValues])
      BY <2>5, <3>3 DEF DnsTypeOK, StoreValue
    <3> QED BY <2>5, <3>2, <3>4 DEF DnsTypeOK, StoreValue
  <2>6. CASE UNCHANGED dnsVars
    BY <2>6 DEF DnsTypeOK, dnsVars, lookupVars
  <2> QED BY <2>1, <2>2, <2>3, <2>4, <2>5, <2>6 DEF DnsStep, LookUp
<1>3. /\ DnsTypeOK
      /\ [DnsStep \/ (Cancel /\ UNCHANGED dnsVars)]_<<dnsVars, ctxDone>>
      => DnsTypeOK'
  BY <1>2
<1> QED BY <1>1, <1>3, PTL DEF DnsSpec

------------------------------------------------------------------------------
(* MTR. *)

MtrCancelInv ==
  /\ mtrAfter \in {0, 1}
  /\ mtrAfter = 1 => ctxDone /\ mtr # "read"

(* Once ctx is done, no cycle sends another probe: the one that is out is the*)
(* last whose answer is waited for, however many hops and cycles are left.   *)
THEOREM MtrStops == MtrSpec => []MtrStopsPromptly
<1>1. MtrInit => MtrCancelInv
  BY DEF MtrInit, MtrCancelInv
<1>2. /\ MtrCancelInv
      /\ [MtrStep \/ (Cancel /\ UNCHANGED mtrVars)]_<<mtrVars,
                                                                    ctxDone>>
      => MtrCancelInv'
  <2> SUFFICES ASSUME MtrCancelInv,
                      [MtrStep \/ (Cancel /\ UNCHANGED mtrVars)]_<<mtrVars,
                                                                    ctxDone>>
               PROVE  MtrCancelInv'
    OBVIOUS
  <2>1. CASE MtrResolve
    BY <2>1 DEF MtrCancelInv, MtrResolve, mtrHistoryVars
  <2>2. CASE MtrFinish \/ MtrSeeCancel
    BY <2>2 DEF MtrCancelInv, MtrFinish, MtrSeeCancel, MtrFinalize,
       mtrHistoryVars
  <2>3. CASE MtrOpen \/ MtrOpenFails
    BY <2>3 DEF MtrCancelInv, MtrOpen, MtrOpenFails, mtrHistoryVars
  <2>4. CASE MtrSend
    BY <2>4 DEF MtrCancelInv, MtrSend, mtrHistoryVars
  <2>5. CASE MtrRead
    BY <2>5 DEF MtrCancelInv, MtrRead
  <2>6. CASE MtrEndHops \/ MtrShow \/ MtrWake
    BY <2>6 DEF MtrCancelInv, MtrEndHops, MtrShow, MtrWake, mtrHistoryVars
  <2>7. CASE Cancel /\ UNCHANGED mtrVars
    BY <2>7 DEF MtrCancelInv, Cancel, mtrVars, mtrLoopVars, mtrHistoryVars
  <2>8. CASE UNCHANGED <<mtrVars, ctxDone>>
    BY <2>8 DEF MtrCancelInv, mtrVars, mtrLoopVars, mtrHistoryVars
  <2> QED
    BY <2>1, <2>2, <2>3, <2>4, <2>5, <2>6, <2>7, <2>8 DEF MtrStep
<1>3. MtrCancelInv => MtrStopsPromptly
  BY DEF MtrCancelInv, MtrStopsPromptly
<1> QED BY <1>1, <1>2, <1>3, PTL DEF MtrSpec

(* In the cycle that is running, the hops before hop k have had their probe. *)
ProbedUpTo(k) ==
  \A t \in TTLs :
    Len(hopData[t]) = IF t < k THEN Cardinality(opened)
                      ELSE Cardinality(opened) - 1

MtrTyped ==
  /\ cycle \in Nat /\ ttl \in 1..(MaxHops + 1)
  /\ hopData \in [TTLs -> Seq(Sample)]
  /\ IsFiniteSet(opened) /\ opened \subseteq Nat
  /\ \A c \in opened : c <= cycle

HopsInv ==
  /\ MtrTyped
  /\ mtr \in {"resolve", "cycle"} => cycle \notin opened
  /\ mtr \in {"resolve", "cycle", "show", "sleep"} => ProbedUpTo(MaxHops + 1)
  /\ mtr \in {"hop", "read"} => ProbedUpTo(ttl)
  /\ mtr = "read" => ttl <= MaxHops
  /\ mtr = "returned" =>
       \E k \in 1..(MaxHops + 1) :
         ProbedUpTo(k) /\ (mtrErr = "nil" => k = MaxHops + 1)
  /\ mtr # "returned" => mtrErr = "none"
  /\ mtr \in {"resolve", "cycle", "hop", "read", "show", "sleep", "returned"}

LEMMA HopsStart == MtrInit => HopsInv
<1> SUFFICES ASSUME MtrInit PROVE HopsInv
  OBVIOUS
<1>1. IsFiniteSet(opened) /\ Cardinality(opened) = 0 /\ opened = {}
  BY FS_EmptySet DEF MtrInit
<1>2. hopData \in [TTLs -> Seq(Sample)]
  BY DEF MtrInit
<1>3. \A t \in TTLs : Len(hopData[t]) = 0 /\ t < MaxHops + 1
  BY MtrAssumption DEF MtrInit, TTLs
<1>4. ProbedUpTo(MaxHops + 1)
  BY <1>1, <1>3 DEF ProbedUpTo
<1>5. cycle \in Nat /\ ttl \in 1..(MaxHops + 1) /\ mtr = "resolve"
      /\ mtrErr = "none"
  BY MtrAssumption DEF MtrInit
<1> QED BY <1>1, <1>2, <1>4, <1>5 DEF HopsInv, MtrTyped

(* A step between the probes. *)
LEMMA ProbesStand ==
  ASSUME UNCHANGED <<hopData, opened>>, NEW k
  PROVE  ProbedUpTo(k)' <=> ProbedUpTo(k)
  BY DEF ProbedUpTo

LEMMA HopsSteps == HopsInv /\ MtrStep => HopsInv'
<1> SUFFICES ASSUME HopsInv, MtrStep PROVE HopsInv'
  OBVIOUS
<1>n. /\ MaxHops \in Nat /\ Cycles \in Nat /\ cycle \in Nat
      /\ ttl \in 1..(MaxHops + 1) /\ Cardinality(opened) \in Nat
      /\ MaxHops + 1 \in 1..(MaxHops + 1) /\ 1 \in 1..(MaxHops + 1)
  BY MtrAssumption, FS_CardinalityType DEF HopsInv, MtrTyped
<1>1. CASE MtrResolve
  <2>1. UNCHANGED <<cycle, ttl, hopData, opened>> /\ mtr = "resolve"
        /\ (\/ mtr' = "cycle" /\ mtrErr' = mtrErr
            \/ mtr' = "returned" /\ mtrErr' = "resolve")
    BY <1>1 DEF MtrResolve, mtrHistoryVars
  <2>2. ProbedUpTo(MaxHops + 1)'
    BY <2>1, ProbesStand DEF HopsInv
  <2> QED BY <2>1, <2>2, <1>n DEF HopsInv, MtrTyped
<1>2. CASE MtrFinish
  <2>1. /\ UNCHANGED <<cycle, ttl, hopData, opened>> /\ mtr = "cycle"
        /\ mtr' = "returned"
    BY <1>2 DEF MtrFinish, MtrFinalize, mtrHistoryVars
  <2>2. ProbedUpTo(MaxHops + 1)'
    BY <2>1, ProbesStand DEF HopsInv
  <2> QED BY <2>1, <2>2, <1>n DEF HopsInv, MtrTyped
<1>3. CASE MtrSeeCancel
  <2>1. /\ UNCHANGED <<cycle, ttl, hopData, opened>>
        /\ mtr \in {"cycle", "hop"}
        /\ mtr' = "returned" /\ mtrErr' = "ctx"
    BY <1>3 DEF MtrSeeCancel, MtrFinalize, mtrHistoryVars
  <2>2. PICK k \in 1..(MaxHops + 1) : ProbedUpTo(k)
    BY <2>1, <1>n DEF HopsInv
  <2>3. ProbedUpTo(k)'
    BY <2>1, <2>2, ProbesStand
  <2> QED BY <2>1, <2>3 DEF HopsInv, MtrTyped
<1>4. CASE MtrOpen
  <2>1. /\ opened' = opened \union {cycle} /\ ttl' = 1 /\ mtr = "cycle"
        /\ mtr' = "hop" /\ UNCHANGED <<cycle, hopData, mtrErr>>
    BY <1>4 DEF MtrOpen, mtrResultVars
  <2>2. /\ IsFiniteSet(opened')
        /\ Cardinality(opened') = Cardinality(opened) + 1
    BY <2>1, FS_AddElement DEF HopsInv, MtrTyped
  <2>3. \A t \in TTLs :
          t < MaxHops + 1 /\ ~(t < 1) /\ Len(hopData[t]) = Cardinality(opened)
    BY <2>1, <1>n DEF HopsInv, ProbedUpTo, TTLs
  <2>4. ProbedUpTo(ttl)'
    BY <2>1, <2>2, <2>3, <1>n DEF ProbedUpTo
  <2>5. MtrTyped'
    BY <2>1, <2>2, <1>n DEF HopsInv, MtrTyped
  <2> QED BY <2>1, <2>4, <2>5 DEF HopsInv
<1>5. CASE MtrOpenFails
  <2>1. /\ cycle' = cycle + 1 /\ mtr = "cycle"
        /\ UNCHANGED <<mtr, ttl, hopData, opened, mtrErr>>
    BY <1>5 DEF MtrOpenFails, mtrResultVars, mtrHistoryVars
  <2>2. ProbedUpTo(MaxHops + 1)'
    BY <2>1, ProbesStand DEF HopsInv
  <2>3. MtrTyped' /\ cycle' \notin opened
    BY <2>1, <1>n DEF HopsInv, MtrTyped
  <2> QED BY <2>1, <2>2, <2>3 DEF HopsInv
<1>6. CASE MtrSend
  <2>1. /\ mtr = "hop" /\ ttl <= MaxHops /\ mtr' = "read"
        /\ UNCHANGED <<cycle, ttl, hopData, opened, mtrErr>>
    BY <1>6 DEF MtrSend, mtrResultVars, mtrHistoryVars
  <2>2. ProbedUpTo(ttl)'
    BY <2>1, ProbesStand DEF HopsInv, ProbedUpTo
  <2> QED BY <2>1, <2>2 DEF HopsInv, MtrTyped
<1>7. CASE MtrRead
  <2>1. PICK r \in Sample : hopData' = [hopData EXCEPT ![ttl] = Append(@, r)]
    BY <1>7 DEF MtrRead
  <2>2. /\ mtr = "read" /\ mtr' = "hop" /\ ttl' = ttl + 1 /\ ttl <= MaxHops
        /\ UNCHANGED <<cycle, opened, mtrErr>>
    BY <1>7 DEF MtrRead, HopsInv
  <2>3. ttl \in TTLs /\ hopData[ttl] \in Seq(Sample)
    BY <2>2, <1>n DEF HopsInv, MtrTyped, TTLs
  <2>4. /\ hopData' \in [TTLs -> Seq(Sample)]
        /\ Len(hopData'[ttl]) = Len(hopData[ttl]) + 1
        /\ \A t \in TTLs \ {ttl} : hopData'[t] = hopData[t]
    BY <2>1, <2>3 DEF HopsInv, MtrTyped
  <2>5. \A t \in TTLs : Len(hopData[t]) = IF t < ttl THEN Cardinality(opened)
                                          ELSE Cardinality(opened) - 1
    BY <2>2 DEF HopsInv, ProbedUpTo
  <2>6. ASSUME NEW t \in TTLs
        PROVE  Len(hopData'[t]) = IF t < ttl' THEN Cardinality(opened)
                                  ELSE Cardinality(opened) - 1
    <3>1. CASE t = ttl
      <4>1. Len(hopData[t]) = Cardinality(opened) - 1 /\ t < ttl'
        BY <3>1, <2>2, <2>5, <1>n
      <4> QED BY <4>1, <3>1, <2>4, <1>n
    <3>2. CASE t # ttl
      <4>1. t < ttl' <=> t < ttl
        BY <3>2, <2>2, <1>n DEF TTLs
      <4> QED BY <4>1, <3>2, <2>4, <2>5
    <3> QED BY <3>1, <3>2
  <2>7. ProbedUpTo(ttl)'
    BY <2>2, <2>6 DEF ProbedUpTo
  <2>8. MtrTyped'
    BY <2>2, <2>4, <1>n DEF HopsInv, MtrTyped
  <2> QED BY <2>2, <2>7, <2>8 DEF HopsInv
<1>8. CASE MtrEndHops
  <2>1. /\ mtr = "hop" /\ ttl > MaxHops /\ mtr' \in {"show", "sleep"}
        /\ UNCHANGED <<cycle, ttl, hopData, opened, mtrErr>>
    BY <1>8 DEF MtrEndHops, mtrResultVars, mtrHistoryVars
  <2>2. ttl = MaxHops + 1
    BY <2>1, <1>n
  <2>3. ProbedUpTo(MaxHops + 1)'
    BY <2>1, <2>2, ProbesStand DEF HopsInv, ProbedUpTo
  <2> QED BY <2>1, <2>3 DEF HopsInv, MtrTyped
<1>9. CASE MtrShow
  <2>1. /\ mtr = "show" /\ mtr' = "sleep"
        /\ UNCHANGED <<cycle, ttl, hopData, opened, mtrErr>>
    BY <1>9 DEF MtrShow, mtrHistoryVars
  <2>2. ProbedUpTo(MaxHops + 1)'
    BY <2>1, ProbesStand DEF HopsInv
  <2> QED BY <2>1, <2>2 DEF HopsInv, MtrTyped
<1>10. CASE MtrWake
  <2>1. /\ mtr = "sleep" /\ mtr' = "cycle" /\ cycle' = cycle + 1
        /\ UNCHANGED <<ttl, hopData, opened, mtrErr>>
    BY <1>10 DEF MtrWake, mtrResultVars, mtrHistoryVars
  <2>2. ProbedUpTo(MaxHops + 1)'
    BY <2>1, ProbesStand DEF HopsInv
  <2>3. MtrTyped' /\ cycle' \notin opened
    BY <2>1, <1>n DEF HopsInv, MtrTyped
  <2> QED BY <2>1, <2>2, <2>3 DEF HopsInv
<1> QED
  BY <1>1, <1>2, <1>3, <1>4, <1>5, <1>6, <1>7, <1>8, <1>9, <1>10 DEF MtrStep

LEMMA HopsStand == HopsInv /\ UNCHANGED mtrVars => HopsInv'
<1> SUFFICES ASSUME HopsInv, UNCHANGED mtrVars PROVE HopsInv'
  OBVIOUS
<1>1. UNCHANGED <<mtr, cycle, ttl, hopData, opened, mtrErr>>
  BY DEF mtrVars, mtrLoopVars, mtrResultVars, mtrHistoryVars
<1> QED BY <1>1 DEF HopsInv, MtrTyped, ProbedUpTo

(* Every state of a run of its own has it.                                   *)
LEMMA HopsInvariant == MtrSpec => []HopsInv
<1>1. /\ HopsInv
      /\ [MtrStep \/ (Cancel /\ UNCHANGED mtrVars)]_<<mtrVars, ctxDone>>
      => HopsInv'
  BY HopsSteps, HopsStand DEF mtrVars
<1> QED BY HopsStart, <1>1, PTL DEF MtrSpec

(* For any number of cycles and hops, and whichever cycles have no socket:   *)
(* the hops of a finished report have had the same number of probes, and an  *)
(* interrupted one misses at most one of the last hops (mtr.Run).            *)
THEOREM HopsAreAlwaysProbedAlike == MtrSpec => []HopsAreProbedAlike
<1>1. HopsInv => HopsAreProbedAlike
  <2> SUFFICES ASSUME HopsInv PROVE HopsAreProbedAlike
    OBVIOUS
  <2>1. /\ MaxHops \in Nat /\ ttl \in 1..(MaxHops + 1)
        /\ Cardinality(opened) \in Nat
    BY MtrAssumption, FS_CardinalityType DEF HopsInv, MtrTyped
  <2>2. PICK k \in 1..(MaxHops + 1) :
          ProbedUpTo(k) /\ (mtrErr = "nil" => k = MaxHops + 1)
    BY <2>1 DEF HopsInv
  <2>3. \A t \in TTLs : Len(hopData[t]) = IF t < k THEN Cardinality(opened)
                                          ELSE Cardinality(opened) - 1
    BY <2>2 DEF ProbedUpTo
  <2>4. k = MaxHops + 1 => \A t \in TTLs : t < k
    BY <2>1 DEF TTLs
  <2> QED BY <2>1, <2>2, <2>3, <2>4 DEF HopsAreProbedAlike, Sent, TTLs
<1> QED BY HopsInvariant, <1>1, PTL

(* What calculateStats makes of any samples of a hop. *)
LEMMA StatsHold ==
  ASSUME NEW samples \in Seq(Nat), samples # <<>>
  PROVE  LET s == Stats(samples)
         IN  /\ s.sent = Len(samples) /\ s.lost \in 0..s.sent
             /\ s.lost < s.sent =>
                  /\ s.min <= s.avg /\ s.avg <= s.max
                  /\ s.last \in {0} \union s.min..s.max
<1> DEFINE s == Stats(samples)
           ok == Answered(samples)
           n == Len(samples)
           final == samples[n]
<1>1. /\ n \in Nat /\ n > 0 /\ final \in Nat /\ MtrTimeout \in Nat
  BY MtrAssumption
<1>2. /\ ok \in Seq(Nat) /\ Len(ok) \in 0..n
      /\ ToSet(ok) = ToSet(samples) \cap 0..(MtrTimeout - 1)
  <2> DEFINE S == 0..(MtrTimeout - 1)
  <2>1. /\ ok \in Seq(Nat \cap S) /\ Len(ok) <= n
        /\ ToSet(ok) = ToSet(samples) \cap S
    <3> HIDE DEF S
    <3>1. /\ Keep(samples, S) \in Seq(Nat \cap S)
          /\ Len(Keep(samples, S)) <= Len(samples)
          /\ ToSet(Keep(samples, S)) = ToSet(samples) \cap S
      BY KeepKeeps
    <3> QED BY <3>1 DEF Answered, S
  <2>2. Nat \cap S \subseteq Nat
    OBVIOUS
  <2> HIDE DEF ok, S
  <2>3. ok \in Seq(Nat)
    BY <2>1, <2>2, SeqMonotonic
  <2> QED BY <2>1, <2>3, <1>1 DEF S
<1>3. /\ s.sent = n /\ s.lost = n - Len(ok)
      /\ s.last = IF final < MtrTimeout THEN final ELSE 0
  BY DEF Stats, NoStats
<1>4. s.lost \in 0..n
  <2> HIDE DEF s, ok, n
  <2> QED BY <1>1, <1>2, <1>3
<1>5. ASSUME s.lost < s.sent
      PROVE  /\ s.min <= s.avg /\ s.avg <= s.max
             /\ s.last \in {0} \union s.min..s.max
  <2>1. ok # <<>>
    <3> HIDE DEF s, n
    <3>1. Len(ok) # 0
      BY <1>1, <1>2, <1>3, <1>5
    <3> QED BY <3>1
  <2>2. /\ s.min = Min(ToSet(ok)) /\ s.max = Max(ToSet(ok))
        /\ s.avg = Mean(ok)
    BY <2>1 DEF Stats, NoStats, Average
  <2> HIDE DEF s, ok
  <2> DEFINE U == {}
             S == ToSet(ok)
  <2>3. U \in SUBSET Nat /\ IsFiniteSet(U)
    BY FS_EmptySet
  <2>4. S \union U = S
    OBVIOUS
  <2>5. S \in SUBSET Nat /\ S # {} /\ IsFiniteSet(S)
    BY <1>2, <2>1, ToSetIsFinite
  <2> HIDE DEF U
  <2>6. Min(S \union U) <= Mean(ok) /\ Mean(ok) <= Max(S \union U)
    BY <1>2, <2>1, <2>3, MeanIsBetween
  <2>7. final < MtrTimeout => final \in S
    <3>1. final \in ToSet(samples)
      <4>1. n \in 1..Len(samples)
        BY <1>1
      <4> HIDE DEF n
      <4> QED BY <4>1, ToSetIsFinite
    <3> HIDE DEF final
    <3> QED BY <3>1, <1>1, <1>2
  <2> HIDE DEF S, final
  <2>8. /\ Min(S) \in S /\ \A x \in S : Min(S) <= x
        /\ Max(S) \in S /\ \A x \in S : x <= Max(S)
    BY <2>5, MinIsLeast, MaxIsGreatest
  <2>9. s.min = Min(S) /\ s.max = Max(S)
    BY <2>2 DEF S
  <2>10. final < MtrTimeout => final \in Min(S)..Max(S)
    <3> DEFINE lo == Min(S)
               hi == Max(S)
    <3>1. /\ lo \in S /\ hi \in S
          /\ \A x \in S : lo <= x
          /\ \A x \in S : x <= hi
      BY <2>8
    <3> HIDE DEF lo, hi
    <3>2. lo \in Nat /\ hi \in Nat
      BY <2>5, <3>1
    <3>3. final \in S => final \in Nat /\ lo <= final /\ final <= hi
      BY <2>5, <3>1
    <3>4. final \in S => final \in lo..hi
      BY <3>2, <3>3
    <3> QED BY <2>7, <3>4 DEF lo, hi
  <2> QED BY <2>2, <2>4, <2>6, <2>9, <2>10, <1>3
<1> QED BY <1>3, <1>4, <1>5

(* The first cycle makes one hop per probe, and no other cycle makes any.    *)
NewHops == [number : TTLs, stats : {NoStats}]

HopListInv ==
  /\ mtr # "returned" => hops \in Seq(NewHops)
  /\ mtr # "returned" => \A k \in 1..Len(hops) : hops[k].number = k
  /\ mtr = "resolve" => cycle = 0 /\ opened = {}
  /\ mtr \in {"hop", "read", "show", "sleep"} => cycle \in opened
  /\ 0 \notin opened => hops = <<>>
  /\ mtr \in {"hop", "read"} /\ cycle = 0 => Len(hops) = ttl - 1
  /\ mtr # "returned" /\ 0 \in opened =>
       (mtr \in {"hop", "read"} /\ cycle = 0) \/ Len(hops) = MaxHops
  /\ ReportCoversSamples

LEMMA HopListStarts == MtrInit => HopListInv
<1> SUFFICES ASSUME MtrInit PROVE HopListInv
  OBVIOUS
<1>1. /\ mtr = "resolve" /\ cycle = 0 /\ opened = {} /\ hops = <<>>
      /\ mtrErr = "none" /\ Len(hops) = 0 /\ hops \in Seq(NewHops)
  BY DEF MtrInit
<1> QED BY <1>1 DEF HopListInv, ReportCoversSamples

(* A report is made when every hop of the list has had a probe and no other  *)
(* hop has.                                                                  *)
LEMMA ReportsCover ==
  ASSUME HopsInv, HopListInv, NEW e \in {"nil", "ctx"}, MtrFinalize(e),
         mtr # "returned",
         0 \in opened => \A t \in TTLs : Sent(t) > 0 <=> t <= Len(hops),
         Len(hops) <= MaxHops
  PROVE  ReportCoversSamples'
<1> DEFINE n == Len(hops)
<1>1. /\ hops \in Seq(NewHops) /\ n \in Nat /\ DOMAIN hops = 1..n
      /\ \A k \in 1..n : hops[k] \in NewHops /\ hops[k].number = k
  BY DEF HopListInv
<1>2. /\ hopData' = hopData /\ opened' = opened /\ mtrErr' = e
      /\ hops' = [k \in 1..n |-> WithStats(hops[k])]
  BY <1>1 DEF MtrFinalize, mtrHistoryVars
<1>3. Len(hops') = n /\ \A k \in 1..n : hops'[k] = WithStats(hops[k])
  <2> DEFINE W == {WithStats(hops[k]) : k \in 1..n}
  <2>1. hops' \in [1..n -> W]
    BY <1>2
  <2> HIDE DEF n, W
  <2>2. hops' \in Seq(W) /\ Len(hops') = n
    BY <2>1, <1>1
  <2> QED BY <2>2, <1>2
<1> HIDE DEF n
<1>4. CASE 0 \notin opened
  <2>1. Len(hops') = 0
    BY <1>3, <1>4 DEF HopListInv, n
  <2>2. 1..n = {}
    BY <1>3, <2>1
  <2>3. hops' = <<>>
    BY <1>2, <2>2
  <2> QED BY <1>2, <1>4, <2>3 DEF ReportCoversSamples
<1>5. CASE 0 \in opened
  <2>1. {t \in TTLs : Sent(t) > 0} = 1..n
    BY <1>1, <1>5, MtrAssumption DEF TTLs, n
  <2>2. Cardinality(1..n) = n
    BY <1>1, FS_Interval
  <2>3. ASSUME NEW k \in 1..n
        PROVE  LET s == hops'[k].stats
               IN  /\ hops'[k].number = k
                   /\ s.sent = Sent(k) /\ s.lost \in 0..s.sent
                   /\ s.lost < s.sent =>
                        /\ s.min <= s.avg /\ s.avg <= s.max
                        /\ s.last \in {0} \union s.min..s.max
    <3>1. k \in TTLs /\ Sent(k) > 0
      BY <2>1
    <3>2. hopData[k] \in Seq(Nat) /\ hopData[k] # <<>>
      <4>1. hopData[k] \in Seq(Sample)
        BY <3>1 DEF HopsInv, MtrTyped
      <4>2. Sample \subseteq Nat
        BY MtrAssumption DEF Sample
      <4>3. hopData[k] \in Seq(Nat)
        BY <4>1, <4>2, SeqMonotonic
      <4>4. Len(hopData[k]) > 0
        BY <3>1 DEF Sent
      <4> QED BY <4>3, <4>4
    <3>3. hops[k].number = k
      BY <1>1
    <3>4. hops'[k].number = k /\ hops'[k].stats = Stats(hopData[k])
      <4>1. hops'[k] = [hops[k] EXCEPT !.stats = Stats(hopData[k])]
        BY <1>3, <3>2, <3>3 DEF WithStats
      <4>2. hops[k] \in NewHops
        BY <1>1
      <4> HIDE DEF Stats
      <4> QED BY <4>1, <4>2, <3>3 DEF NewHops
    <3> DEFINE s == Stats(hopData[k])
    <3>5. /\ s.sent = Len(hopData[k]) /\ s.lost \in 0..s.sent
          /\ s.lost < s.sent =>
               /\ s.min <= s.avg /\ s.avg <= s.max
               /\ s.last \in {0} \union s.min..s.max
      BY <3>2, StatsHold
    <3> HIDE DEF s
    <3> QED BY <3>4, <3>5 DEF s, Sent
  <2>4. \A t \in TTLs : Sent(t)' = Sent(t)
    BY <1>2 DEF Sent
  <2>5. {t \in TTLs : Sent(t) > 0}' = 1..n
    BY <2>1, <2>4 DEF TTLs
  <2>6. \A k \in 1..n : Sent(k)' = Sent(k)
    BY <1>2 DEF Sent
  <2> QED BY <1>2, <1>3, <1>5, <2>2, <2>3, <2>5, <2>6 DEF ReportCoversSamples
<1> QED BY <1>4, <1>5

(* Only the first cycle adds to the list, and only finalize writes its       *)
(* statistics.                                                               *)
LEMMA HopListSteps ==
  ASSUME HopsInv, HopsInv', HopListInv, MtrStep PROVE HopListInv'
<1>n. /\ MaxHops \in Nat /\ Cycles \in Nat /\ cycle \in Nat
      /\ ttl \in 1..(MaxHops + 1) /\ Cardinality(opened) \in Nat
      /\ IsFiniteSet(opened) /\ opened \subseteq Nat
      /\ \A c \in opened : c <= cycle
  BY MtrAssumption, FS_CardinalityType DEF HopsInv, MtrTyped
<1>l. mtr # "returned" => hops \in Seq(NewHops) /\ Len(hops) \in Nat
  BY DEF HopListInv
(* No report is made by a step that does not finalize. *)
<1>r. mtrErr' = "none" \/ mtrErr' = "resolve" => ReportCoversSamples'
  BY DEF ReportCoversSamples
<1>e. mtr # "returned" => mtrErr = "none"
  BY DEF HopsInv
<1>1. CASE MtrResolve
  BY <1>1, <1>e, <1>r
     DEF MtrResolve, mtrHistoryVars, HopListInv, NewHops, TTLs, NoStats
<1>f. ASSUME NEW e \in {"nil", "ctx"}, MtrFinalize(e), mtr \in {"cycle", "hop"}
      PROVE  HopListInv'
  <2>1. Len(hops) <= MaxHops
    BY <1>f, <1>n, <1>l DEF HopListInv
  <2>2. ASSUME 0 \in opened, NEW t \in TTLs
        PROVE  Sent(t) > 0 <=> t <= Len(hops)
    <3>0. t \in Nat /\ t <= MaxHops /\ 1 <= t
      BY <1>n DEF TTLs
    <3>c. Cardinality(opened) >= 1
      <4>1. opened # {}
        BY <2>2
      <4> QED BY <4>1, <1>n, FS_EmptySet
    <3>1. CASE mtr = "cycle"
      <4>1. Len(hopData[t]) = Cardinality(opened)
        BY <3>0, <3>1, <1>n DEF HopsInv, ProbedUpTo
      <4>2. Len(hops) = MaxHops
        BY <2>2, <3>1 DEF HopListInv
      <4> QED BY <3>0, <3>c, <4>1, <4>2 DEF Sent
    <3>2. CASE mtr = "hop" /\ cycle = 0
      <4>1. opened = {0}
        <5>1. \A c \in opened : c = 0
          BY <1>n, <3>2
        <5> QED BY <5>1, <2>2
      <4>2. Cardinality(opened) = 1
        BY <4>1, FS_Singleton
      <4>3. Len(hopData[t]) = IF t < ttl THEN 1 ELSE 0
        BY <3>2, <4>2 DEF HopsInv, ProbedUpTo
      <4>4. Len(hops) = ttl - 1
        BY <3>2 DEF HopListInv
      <4> QED BY <3>0, <4>3, <4>4, <1>n DEF Sent
    <3>3. CASE mtr = "hop" /\ cycle # 0
      <4>1. cycle \in opened
        BY <3>3 DEF HopListInv
      <4>2. Cardinality(opened) # 1
        BY <4>1, <2>2, <3>3, <1>n, FS_Singleton
      <4>3. Cardinality(opened) >= 2
        BY <4>2, <3>c, <1>n
      <4>4. Len(hopData[t]) >= Cardinality(opened) - 1
        BY <3>3, <1>n DEF HopsInv, ProbedUpTo
      <4>5. Len(hopData[t]) \in Nat
        BY DEF HopsInv, MtrTyped
      <4>6. Len(hops) = MaxHops
        BY <2>2, <3>3 DEF HopListInv
      <4> QED BY <3>0, <4>3, <4>4, <4>5, <4>6, <1>n DEF Sent
    <3> QED BY <3>1, <3>2, <3>3, <1>f
  <2>3. ReportCoversSamples'
    BY <2>1, <2>2, <1>f, ReportsCover
  <2>4. mtr' = "returned" /\ opened' = opened
    BY <1>f DEF MtrFinalize, mtrHistoryVars
  <2>5. 0 \notin opened' => hops' = <<>>
    BY <2>3, <1>f DEF ReportCoversSamples, MtrFinalize
  <2> QED BY <2>3, <2>4, <2>5 DEF HopListInv
<1>2. CASE MtrFinish
  BY <1>2, <1>f DEF MtrFinish
<1>3. CASE MtrSeeCancel
  BY <1>3, <1>f DEF MtrSeeCancel
<1>4. CASE MtrOpen
  <2>1. /\ mtr = "cycle" /\ mtr' = "hop" /\ opened' = opened \union {cycle}
        /\ ttl' = 1 /\ UNCHANGED <<cycle, hopData, hops, mtrErr>>
    BY <1>4 DEF MtrOpen, mtrResultVars
  <2>2. cycle = 0 => 0 \notin opened /\ hops = <<>>
    BY <2>1 DEF HopsInv, HopListInv
  <2>3. cycle # 0 => (0 \in opened' <=> 0 \in opened)
    BY <2>1
  <2>4. cycle = 0 => Len(hops') = ttl' - 1
    BY <2>1, <2>2
  <2>5. 0 \in opened /\ cycle # 0 => Len(hops) = MaxHops
    BY <2>1 DEF HopListInv
  <2> QED BY <2>1, <2>2, <2>3, <2>4, <2>5, <1>e, <1>r DEF HopListInv
<1>5. CASE MtrOpenFails \/ MtrWake
  <2>1. /\ mtr \in {"cycle", "sleep"} /\ mtr' = "cycle" /\ cycle' = cycle + 1
        /\ UNCHANGED <<opened, hops, mtrErr>>
    BY <1>5 DEF MtrOpenFails, MtrWake, mtrResultVars, mtrHistoryVars
  <2> QED BY <2>1, <1>e, <1>r DEF HopListInv
<1>6. CASE MtrSend
  <2>1. /\ mtr = "hop" /\ mtr' = "read"
        /\ UNCHANGED <<cycle, ttl, opened, hops, mtrErr>>
    BY <1>6 DEF MtrSend, mtrResultVars, mtrHistoryVars
  <2> QED BY <2>1, <1>e, <1>r DEF HopListInv
<1>7. CASE MtrRead
  <2>1. /\ mtr = "read" /\ mtr' = "hop" /\ ttl' = ttl + 1
        /\ UNCHANGED <<cycle, opened, mtrErr>>
        /\ hops' = IF cycle = 0
                   THEN Append(hops, [number |-> ttl, stats |-> NoStats])
                   ELSE hops
    BY <1>7 DEF MtrRead
  <2>2. ttl \in TTLs
    BY <2>1, <1>n DEF HopsInv, TTLs
  <2>3. CASE cycle = 0
    <3> DEFINE new == [number |-> ttl, stats |-> NoStats]
    <3>1. new \in NewHops /\ new.number = ttl
      BY <2>2 DEF NewHops
    <3> HIDE DEF new
    <3>2. hops' = Append(hops, new) /\ hops \in Seq(NewHops)
          /\ Len(hops) = ttl - 1 /\ \A k \in 1..Len(hops) : hops[k].number = k
      BY <2>1, <2>3, <1>l DEF HopListInv, new
    <3>3. /\ hops' \in Seq(NewHops) /\ Len(hops') = Len(hops) + 1
          /\ \A k \in 1..Len(hops) : hops'[k] = hops[k]
          /\ hops'[Len(hops) + 1] = new
      BY <3>1, <3>2, AppendProperties
    <3>4. Len(hops') = ttl' - 1
      BY <3>2, <3>3, <2>1, <1>n
    <3>5. \A k \in 1..Len(hops') : k \in 1..Len(hops) \/ k = Len(hops) + 1
      BY <3>3, <1>l, <2>1
    <3>6. \A k \in 1..Len(hops') : hops'[k].number = k
      <4> TAKE k \in 1..Len(hops')
      <4>1. CASE k \in 1..Len(hops)
        BY <4>1, <3>2, <3>3
      <4>2. CASE k = Len(hops) + 1
        BY <4>2, <3>1, <3>2, <3>3, <1>n
      <4> QED BY <4>1, <4>2, <3>5
    <3>7. 0 \in opened
      BY <2>1, <2>3 DEF HopListInv
    <3> QED BY <2>1, <2>3, <3>3, <3>4, <3>6, <3>7, <1>e, <1>r DEF HopListInv
  <2>4. CASE cycle # 0
    BY <2>1, <2>4, <1>e, <1>r DEF HopListInv
  <2> QED BY <2>3, <2>4
<1>8. CASE MtrEndHops
  <2>1. /\ mtr = "hop" /\ ttl > MaxHops /\ mtr' \in {"show", "sleep"}
        /\ UNCHANGED <<cycle, ttl, opened, hops, mtrErr>>
    BY <1>8 DEF MtrEndHops, mtrResultVars, mtrHistoryVars
  <2>2. cycle = 0 => Len(hops) = MaxHops
    BY <2>1, <1>n DEF HopListInv
  <2> QED BY <2>1, <2>2, <1>e, <1>r DEF HopListInv
<1>9. CASE MtrShow
  <2>1. /\ mtr = "show" /\ mtr' = "sleep"
        /\ UNCHANGED <<cycle, ttl, opened, hops, mtrErr>>
    BY <1>9 DEF MtrShow, mtrHistoryVars
  <2> QED BY <2>1, <1>e, <1>r DEF HopListInv
<1> QED
  BY <1>1, <1>2, <1>3, <1>4, <1>5, <1>6, <1>7, <1>8, <1>9 DEF MtrStep

(* The list is covered in every state of a run of its own.                   *)
LEMMA HopListInvariant == MtrSpec => []HopListInv
<1>1. /\ HopsInv /\ HopsInv' /\ HopListInv
      /\ [MtrStep \/ (Cancel /\ UNCHANGED mtrVars)]_<<mtrVars, ctxDone>>
      => HopListInv'
  <2>1. HopListInv /\ UNCHANGED mtrVars => HopListInv'
    BY DEF HopListInv, ReportCoversSamples, Sent, NewHops, mtrVars,
       mtrLoopVars, mtrResultVars, mtrHistoryVars
  <2> QED BY <2>1, HopListSteps DEF mtrVars
<1> QED BY HopListStarts, HopsInvariant, <1>1, PTL DEF MtrSpec

(* For any cycles, hops and latencies: a report lists the hops that had a    *)
(* probe, in order, each with the figures of all of its probes, unless the   *)
(* first cycle had no socket (mtr.go:121-134, 155-236).                      *)
THEOREM ReportsAlwaysCover == MtrSpec => []ReportCoversSamples
<1>1. HopListInv => ReportCoversSamples
  BY DEF HopListInv
<1> QED BY HopListInvariant, <1>1, PTL

(* A cycle that has begun is one of those asked for. *)
MtrTypeInv ==
  /\ MtrTypeOK
  /\ mtr \in {"hop", "read", "show", "sleep"} => cycle < Cycles

(* The numbers of MTR stay in their ranges. *)
LEMMA MtrTypesHold == MtrSpec => []MtrTypeOK
<1>1. MtrInit => MtrTypeInv
  <2> SUFFICES ASSUME MtrInit PROVE MtrTypeInv
    OBVIOUS
  <2>1. hopData \in [TTLs -> Seq(Sample)] /\ opened = {} /\ Len(hops) = 0
    BY DEF MtrInit
  <2> QED BY <2>1, MtrAssumption DEF MtrInit, MtrTypeInv, MtrTypeOK
<1>2. ASSUME MtrTypeInv, HopsInv, HopListInv, MtrStep \/ UNCHANGED mtrVars
      PROVE  MtrTypeInv'
  <2>t. /\ mtr \in {"resolve", "cycle", "hop", "read", "show", "sleep",
                    "returned"}
        /\ cycle \in 0..Cycles /\ ttl \in 1..(MaxHops + 1)
        /\ hopData \in [TTLs -> Seq(Sample)]
        /\ \A k \in 1..Len(hops) : hops[k].number \in TTLs
        /\ progress.cycles \in 0..Cycles /\ progress.running \in BOOLEAN
        /\ mtrErr \in {"none", "nil", "resolve", "ctx"}
        /\ opened \subseteq 0..(Cycles - 1) /\ mtrAfter \in Nat
        /\ mtr \in {"hop", "read", "show", "sleep"} => cycle < Cycles
        /\ mtr = "read" => ttl <= MaxHops
        /\ mtr # "returned" => hops \in Seq(NewHops)
        /\ Cycles \in Nat /\ MaxHops \in Nat
    BY <1>2, MtrAssumption DEF MtrTypeInv, MtrTypeOK, HopsInv, HopListInv
  <2>1. CASE \/ MtrResolve \/ MtrOpen \/ MtrOpenFails \/ MtrSend
             \/ MtrEndHops \/ MtrShow \/ MtrWake
    <3>1. CASE MtrResolve
      BY <2>t, <3>1 DEF MtrResolve, mtrHistoryVars, MtrTypeInv, MtrTypeOK
    <3>2. CASE MtrOpen
      BY <2>t, <3>2 DEF MtrOpen, mtrResultVars, MtrTypeInv, MtrTypeOK
    <3>3. CASE MtrOpenFails
      BY <2>t, <3>3
         DEF MtrOpenFails, mtrResultVars, mtrHistoryVars, MtrTypeInv, MtrTypeOK
    <3>4. CASE MtrSend \/ MtrEndHops
      BY <2>t, <3>4
         DEF MtrSend, MtrEndHops, mtrResultVars, mtrHistoryVars, MtrTypeInv,
             MtrTypeOK
    <3>5. CASE MtrShow
      BY <2>t, <3>5 DEF MtrShow, mtrHistoryVars, MtrTypeInv, MtrTypeOK
    <3>6. CASE MtrWake
      BY <2>t, <3>6
         DEF MtrWake, mtrResultVars, mtrHistoryVars, MtrTypeInv, MtrTypeOK
    <3> QED BY <2>1, <3>1, <3>2, <3>3, <3>4, <3>5, <3>6
  <2>2. CASE MtrRead
    <3>1. ttl \in TTLs /\ mtr = "read"
      BY <2>t, <2>2 DEF MtrRead, TTLs
    <3>2. hopData' \in [TTLs -> Seq(Sample)]
      BY <2>t, <2>2, <3>1 DEF MtrRead
    <3>3. \A k \in 1..Len(hops') : hops'[k].number \in TTLs
      <4>1. CASE hops' = hops
        BY <4>1, <2>t
      <4>2. CASE hops' = Append(hops, [number |-> ttl, stats |-> NoStats])
        <5>1. hops \in Seq(NewHops)
          BY <2>t, <3>1
        <5>2. [number |-> ttl, stats |-> NoStats] \in NewHops
          BY <3>1 DEF NewHops
        <5>3. hops' \in Seq(NewHops)
          BY <4>2, <5>1, <5>2
        <5>4. ASSUME NEW k \in 1..Len(hops') PROVE hops'[k].number \in TTLs
          <6>1. hops'[k] \in NewHops
            BY <5>3
          <6> QED BY <6>1 DEF NewHops
        <5> QED BY <5>4
      <4> QED BY <2>2, <4>1, <4>2 DEF MtrRead
    <3> QED BY <2>t, <2>2, <3>1, <3>2, <3>3 DEF MtrRead, MtrTypeInv, MtrTypeOK
  <2>3. ASSUME NEW e \in {"nil", "ctx"}, MtrFinalize(e), mtr # "returned"
        PROVE  MtrTypeInv'
    <3>1. hops \in Seq(NewHops) /\ Len(hops) \in Nat
          /\ DOMAIN hops = 1..Len(hops)
      BY <2>t, <2>3
    <3>2. Len(hops') = Len(hops) /\ DOMAIN hops' = 1..Len(hops)
          /\ \A k \in 1..Len(hops) : hops'[k] = WithStats(hops[k])
      BY <2>3, <3>1 DEF MtrFinalize
    <3>3. ASSUME NEW k \in 1..Len(hops)
          PROVE  WithStats(hops[k]).number \in TTLs
      <4>1. hops[k] \in NewHops
        BY <3>1
      <4>2. hops[k].number \in TTLs /\ DOMAIN hops[k] = {"number", "stats"}
        BY <4>1 DEF NewHops
      <4> QED BY <4>2 DEF WithStats
    <3> QED BY <2>t, <2>3, <3>2, <3>3
            DEF MtrFinalize, mtrHistoryVars, MtrTypeInv, MtrTypeOK
  <2>4. CASE UNCHANGED mtrVars
    BY <2>t, <2>4 DEF mtrVars, mtrLoopVars, mtrResultVars, mtrHistoryVars,
       MtrTypeInv, MtrTypeOK
  <2>5. CASE MtrFinish \/ MtrSeeCancel
    BY <2>3, <2>5 DEF MtrFinish, MtrSeeCancel
  <2> QED BY <1>2, <2>1, <2>2, <2>4, <2>5 DEF MtrStep
<1>3. /\ MtrTypeInv /\ HopsInv /\ HopListInv
      /\ [MtrStep \/ (Cancel /\ UNCHANGED mtrVars)]_<<mtrVars, ctxDone>>
      => MtrTypeInv'
  BY <1>2
<1>4. MtrTypeInv => MtrTypeOK
  BY DEF MtrTypeInv
<1> QED
  BY <1>1, <1>3, <1>4, HopsInvariant, HopListInvariant, PTL DEF MtrSpec

------------------------------------------------------------------------------
(* The TCP check. *)

Succeeded(s) == Keep(s, Nat \ {0})
Opens(s) == Keep(s, {"open"})

(* There is one dial out at most, while the loop waits for it; the others    *)
(* have left a latency each, and as many of these are not 0 as dials         *)
(* succeeded.                                                                *)
TcpInv ==
  /\ TcpTypeOK
  /\ Len(outcomes) = Len(latencies)
  /\ Len(Succeeded(latencies)) = Len(Opens(outcomes))
  /\ dials # {} => tcp = "wait" /\ dials = {dialled}
  /\ Len(latencies) = IF dials = {} THEN dialled ELSE dialled - 1
  /\ VerdictIsWhole

LEMMA TcpStarts == TcpInit => TcpInv
<1> SUFFICES ASSUME TcpInit PROVE TcpInv
  OBVIOUS
<1>1. /\ tcp = "loop" /\ dialled = 0 /\ dials = {} /\ tcpResult = TcpNoResult
      /\ latencies = <<>> /\ outcomes = <<>>
  BY DEF TcpInit
<1>2. TcpTypeOK
  BY <1>1, TcpAssumption DEF TcpTypeOK, TcpNoResult
<1>3. Succeeded(latencies) = <<>> /\ Opens(outcomes) = <<>>
  BY <1>1, KeepOfNone DEF Succeeded, Opens
<1>4. Len(outcomes) = Len(latencies) /\ Len(latencies) = dialled
      /\ Len(Succeeded(latencies)) = Len(Opens(outcomes))
  BY <1>1, <1>3
<1> QED BY <1>1, <1>2, <1>4 DEF TcpInv, VerdictIsWhole

(* The verdict over the latencies of any dials: OPEN exactly if one of them  *)
(* is not 0.                                                                 *)
LEMMA VerdictHolds ==
  ASSUME latencies \in Seq(TcpLatencies \union {0})
  PROVE  /\ TcpVerdict.state \in {"OPEN", "CLOSED", "TIMEOUT"}
         /\ TcpVerdict.state = "OPEN" <=> Len(Succeeded(latencies)) > 0
         /\ TcpVerdict.state = "OPEN" =>
              /\ TcpVerdict.samples = Len(Succeeded(latencies))
              /\ TcpVerdict.min <= TcpVerdict.avg
              /\ TcpVerdict.avg <= TcpVerdict.max
<1>1. latencies \in Seq(Nat) /\ TcpTimeout \in Nat
  <2>1. TcpLatencies \union {0} \subseteq Nat
    BY TcpAssumption
  <2> QED BY <2>1, SeqMonotonic, TcpAssumption
<1>2. TcpValid = Succeeded(latencies)
  BY DEF TcpValid, Succeeded
<1>3. /\ TcpValid \in Seq(Nat) /\ Len(TcpValid) <= Len(latencies)
      /\ Len(TcpValid) \in Nat
  <2>1. Nat \cap (Nat \ {0}) \subseteq Nat
    OBVIOUS
  <2>2. /\ TcpValid \in Seq(Nat \cap (Nat \ {0}))
        /\ Len(TcpValid) <= Len(latencies)
    BY <1>1, KeepKeeps DEF TcpValid
  <2> QED BY <2>1, <2>2, SeqMonotonic
<1>4. CASE latencies = <<>> \/ TcpValid = <<>>
  <2>1. Len(TcpValid) = 0
    BY <1>3, <1>4
  <2>2. TcpVerdict.state \in {"CLOSED", "TIMEOUT"}
    BY <1>4 DEF TcpVerdict, TcpNoResult
  <2> QED BY <2>1, <2>2, <1>2
<1>5. CASE latencies # <<>> /\ TcpValid # <<>>
  <2>1. Len(TcpValid) > 0
    BY <1>3, <1>5
  <2>2. /\ TcpVerdict.state = "OPEN" /\ TcpVerdict.samples = Len(TcpValid)
        /\ TcpVerdict.min = Min(ToSet(TcpValid) \union {TcpTimeout})
        /\ TcpVerdict.max = Max(ToSet(TcpValid))
        /\ TcpVerdict.avg = Mean(TcpValid)
    BY <1>5 DEF TcpVerdict
  <2> DEFINE T == {TcpTimeout}
             U == {}
  <2>3. T \in SUBSET Nat /\ U \in SUBSET Nat /\ IsFiniteSet(U)
    BY <1>1, FS_EmptySet
  <2>4. ToSet(TcpValid) \union U = ToSet(TcpValid)
    OBVIOUS
  <2> HIDE DEF T, U
  <2>5. /\ Min(ToSet(TcpValid) \union T) <= Mean(TcpValid)
        /\ Mean(TcpValid) <= Max(ToSet(TcpValid) \union U)
    BY <1>3, <1>5, <2>3, MeanIsBetween
  <2> QED BY <2>1, <2>2, <2>4, <2>5, <1>2 DEF T
<1> QED BY <1>4, <1>5

(* A dial that ends adds one latency, and the verdict is over all of         *)
(* them.                                                                     *)
LEMMA TcpSteps ==
  TcpInv /\ [TcpStep \/ (Cancel /\ UNCHANGED tcpVars)]_<<tcpVars, ctxDone>>
    => TcpInv'
<1> SUFFICES ASSUME TcpInv,
                    [TcpStep \/ (Cancel /\ UNCHANGED tcpVars)]_
                      <<tcpVars, ctxDone>>
             PROVE  TcpInv'
  OBVIOUS
<1> DEFINE A == TcpLatencies \union {0}
           O == {"open", "refused", "unanswered"}
<1>t. /\ tcp \in {"loop", "wait", "done"} /\ dialled \in 0..TcpCount
      /\ dials \in SUBSET (1..TcpCount) /\ TcpCount \in Nat
      /\ latencies \in Seq(A) /\ outcomes \in Seq(O)
      /\ Len(latencies) \in Nat /\ Len(latencies) <= dialled
      /\ tcpResult.state \in {"none", "OPEN", "CLOSED", "TIMEOUT"}
  BY TcpAssumption DEF TcpInv, TcpTypeOK
<1>i. /\ Len(outcomes) = Len(latencies)
      /\ Len(Succeeded(latencies)) = Len(Opens(outcomes))
      /\ dials # {} => tcp = "wait" /\ dials = {dialled}
      /\ Len(latencies) = IF dials = {} THEN dialled ELSE dialled - 1
  BY DEF TcpInv
<1>o. Len(Opens(outcomes)) \in Nat /\ (Opens(outcomes) = <<>> <=>
                                        Len(Opens(outcomes)) = 0)
  <2>1. Opens(outcomes) \in Seq(O \cap {"open"})
    BY <1>t, KeepKeeps DEF Opens
  <2> QED BY <2>1
(* A step before the verdict, which only has to keep the counts. *)
<1>w. ASSUME tcp' \in {"loop", "wait"}, tcpResult' = tcpResult,
             UNCHANGED <<latencies, outcomes>>,
             dialled' \in 0..TcpCount, dials' \in SUBSET (1..TcpCount),
             Len(latencies) <= dialled',
             dials' # {} => tcp' = "wait" /\ dials' = {dialled'},
             Len(latencies) = IF dials' = {} THEN dialled' ELSE dialled' - 1
      PROVE  TcpInv'
  <2>1. TcpTypeOK'
    BY <1>w, <1>t DEF TcpTypeOK
  <2>2. VerdictIsWhole'
    BY <1>w DEF VerdictIsWhole
  <2> QED BY <1>w, <1>i, <2>1, <2>2 DEF TcpInv, Succeeded, Opens
<1>1. CASE TcpDial
  BY <1>1, <1>t, <1>i, <1>w DEF TcpDial
<1>2. CASE TcpWaited
  BY <1>2, <1>t, <1>i, <1>w DEF TcpWaited
<1>3. CASE TcpDialling
  <2>1. PICK d \in dials : TcpDialEnds(d)
    BY <1>3 DEF TcpDialling
  <2>2. /\ tcp = "wait" /\ dials = {dialled} /\ d = dialled
        /\ Len(latencies) = dialled - 1
    BY <2>1, <1>i
  <2>3. /\ dials' = {} /\ UNCHANGED <<tcp, dialled, tcpResult, ctxDone>>
    BY <2>1, <2>2 DEF TcpDialEnds
  <2>4. PICK l \in A, o \in O :
          /\ latencies' = Append(latencies, l)
          /\ outcomes' = Append(outcomes, o)
          /\ l \in Nat \ {0} <=> o \in {"open"}
    <3>1. TcpLatencies \subseteq Nat \ {0}
      BY TcpAssumption
    <3>2. CASE /\ \E l \in TcpLatencies : latencies' = Append(latencies, l)
               /\ outcomes' = Append(outcomes, "open")
      BY <3>1, <3>2
    <3>3. CASE /\ latencies' = Append(latencies, 0)
               /\ \E o \in {"refused", "unanswered"} :
                    outcomes' = Append(outcomes, o)
      BY <3>3
    <3> QED BY <3>2, <3>3, <2>1 DEF TcpDialEnds
  <2>5. /\ latencies' \in Seq(A) /\ Len(latencies') = Len(latencies) + 1
        /\ outcomes' \in Seq(O) /\ Len(outcomes') = Len(outcomes) + 1
    BY <2>4, <1>t, <1>i
  <2>6. /\ Succeeded(latencies) \in Seq(A)
        /\ Succeeded(latencies') = IF l \in Nat \ {0}
                                   THEN Append(Succeeded(latencies), l)
                                   ELSE Succeeded(latencies)
    <3> DEFINE S == Nat \ {0}
    <3>1. latencies \in Seq(A) /\ l \in A /\ latencies' = Append(latencies, l)
      BY <2>4, <1>t
    <3> HIDE DEF A, S
    <3>2. /\ Keep(latencies, S) \in Seq(A)
          /\ Keep(Append(latencies, l), S) = IF l \in S
               THEN Append(Keep(latencies, S), l) ELSE Keep(latencies, S)
      BY <3>1, KeepOfOneMore
    <3> QED BY <3>1, <3>2 DEF S, Succeeded
  <2>7. /\ Opens(outcomes) \in Seq(O)
        /\ Opens(outcomes') = IF o \in {"open"}
                              THEN Append(Opens(outcomes), o)
                              ELSE Opens(outcomes)
    <3> DEFINE S == {"open"}
    <3>1. outcomes \in Seq(O) /\ o \in O /\ outcomes' = Append(outcomes, o)
      BY <2>4, <1>t
    <3> HIDE DEF O, S
    <3>2. /\ Keep(outcomes, S) \in Seq(O)
          /\ Keep(Append(outcomes, o), S) = IF o \in S
               THEN Append(Keep(outcomes, S), o) ELSE Keep(outcomes, S)
      BY <3>1, KeepOfOneMore
    <3> QED BY <3>1, <3>2 DEF S, Opens
  <2>8. Len(Succeeded(latencies')) = Len(Opens(outcomes'))
    <3>1. /\ Len(Append(Succeeded(latencies), l)) =
               Len(Succeeded(latencies)) + 1
          /\ Len(Append(Opens(outcomes), o)) = Len(Opens(outcomes)) + 1
      BY <2>6, <2>7
    <3> QED BY <3>1, <2>4, <2>6, <2>7, <1>i
  <2>9. TcpTypeOK'
    BY <2>2, <2>3, <2>5, <1>t DEF TcpTypeOK
  <2>10. VerdictIsWhole'
    BY <2>2, <2>3 DEF VerdictIsWhole
  <2> QED BY <2>2, <2>3, <2>5, <2>8, <2>9, <2>10, <1>t, <1>i DEF TcpInv
(* The steps that make the verdict. *)
<1>v. ASSUME tcp = "loop", tcp' = "done",
             UNCHANGED <<dialled, dials, latencies, outcomes, ctxDone>>,
             tcpResult'.state \in {"OPEN", "CLOSED", "TIMEOUT"},
             ~ctxDone => dialled = TcpCount,
             tcpResult'.state = "OPEN" =>
               /\ Len(Succeeded(latencies)) > 0
               /\ tcpResult'.samples = Len(Succeeded(latencies))
               /\ tcpResult'.min <= tcpResult'.avg
               /\ tcpResult'.avg <= tcpResult'.max,
             tcpResult'.state # "OPEN" /\ ~ctxDone =>
               ~(Len(Succeeded(latencies)) > 0)
      PROVE  TcpInv'
  <2>1. dials = {} /\ Len(latencies) = dialled
    BY <1>v, <1>i
  <2>2. TcpTypeOK'
    BY <1>v, <1>t DEF TcpTypeOK
  <2>3. Opens(outcomes)' = Opens(outcomes)
    BY <1>v DEF Opens
  <2>4. VerdictIsWhole'
    BY <1>v, <1>i, <1>o, <2>1, <2>3 DEF VerdictIsWhole, Opens
  <2> QED BY <1>v, <1>i, <2>1, <2>2, <2>4 DEF TcpInv, Succeeded, Opens
<1>4. CASE TcpGiveUp
  <2>1. tcpResult'.state = "TIMEOUT"
    BY <1>4 DEF TcpGiveUp, TcpNoResult
  <2> QED BY <1>4, <2>1, <1>v DEF TcpGiveUp
<1>5. CASE TcpJudge
  <2>1. /\ TcpVerdict.state \in {"OPEN", "CLOSED", "TIMEOUT"}
        /\ TcpVerdict.state = "OPEN" <=> Len(Succeeded(latencies)) > 0
        /\ TcpVerdict.state = "OPEN" =>
             /\ TcpVerdict.samples = Len(Succeeded(latencies))
             /\ TcpVerdict.min <= TcpVerdict.avg
             /\ TcpVerdict.avg <= TcpVerdict.max
    BY <1>t, VerdictHolds
  <2> QED BY <1>5, <2>1, <1>v DEF TcpJudge
<1>6. CASE UNCHANGED tcpVars /\ (ctxDone => ctxDone')
  BY <1>6, <1>i, <1>t DEF TcpInv, TcpTypeOK, VerdictIsWhole, tcpVars,
     Succeeded, Opens
<1> QED
  BY <1>1, <1>2, <1>3, <1>4, <1>5, <1>6 DEF TcpStep, TcpRun, Cancel

(* A TCP check judges all of its dials, whatever they come to and whenever   *)
(* ctx ends it (tcp.go:59-122).                                              *)
THEOREM VerdictIsAlwaysWhole == TcpSpec => []VerdictIsWhole
<1>1. TcpInv => VerdictIsWhole
  BY DEF TcpInv
<1> QED BY <1>1, TcpStarts, TcpSteps, PTL DEF TcpSpec

------------------------------------------------------------------------------
(* TCP ping. *)

(* The counters agree with the latencies counted, and the loop ends with its *)
(* summary.                                                                  *)
TcPingInv ==
  /\ TcPingTypeOK
  /\ total = success + fail
  /\ success = Len(rtts)
  /\ totalLat = Total(rtts)
  /\ success > 0 => minLat = Min(ToSet(rtts)) /\ maxLat = Max(ToSet(rtts))
  /\ summary.printed => tcping = "returned"
  /\ SummaryIsTrue

LEMMA TcPingStarts == TcPingInit => TcPingInv
<1> SUFFICES ASSUME TcPingInit PROVE TcPingInv
  OBVIOUS
<1>1. /\ tcping = "select" /\ ticks = 0 /\ doneClosed = FALSE
      /\ total = 0 /\ success = 0 /\ fail = 0
      /\ minLat = 0 /\ maxLat = 0 /\ totalLat = 0
      /\ summary = NoSummary /\ rtts = <<>>
  BY DEF TcPingInit
<1>2. TcPingTypeOK
  <2>1. 0 \in 0..MaxCounted
    BY TcPingAssumption
  <2>2. rtts \in Seq(RoundTrips) /\ {minLat, maxLat} \subseteq {0}
    BY <1>1
  <2>3. ticks \in 0..1 /\ totalLat \in Nat
    BY <1>1
  <2>4. doneClosed \in BOOLEAN
    BY <1>1
  <2> QED BY <1>1, <2>1, <2>2, <2>3, <2>4 DEF TcPingTypeOK
<1>3. Total(rtts) = 0 /\ Len(rtts) = 0
  BY <1>1, TotalOfNone
<1>4. ~summary.printed
  BY <1>1 DEF NoSummary
<1> QED BY <1>1, <1>2, <1>3, <1>4 DEF TcPingInv, SummaryIsTrue

(* An answer changes the counters and the list of round trips together.      *)
LEMMA TcPingSteps ==
  TcPingInv /\ [TcPingStep \/ (Cancel /\ UNCHANGED tcPingVars)]_
                 <<tcPingVars, ctxDone>>
    => TcPingInv'
<1> SUFFICES ASSUME TcPingInv,
                    [TcPingStep \/ (Cancel /\ UNCHANGED tcPingVars)]_
                      <<tcPingVars, ctxDone>>
             PROVE  TcPingInv'
  OBVIOUS
<1>t. TcPingTypeOK
  BY DEF TcPingInv
<1>n. /\ total \in Nat /\ success \in Nat /\ fail \in Nat /\ totalLat \in Nat
      /\ total \in 0..MaxCounted /\ success \in 0..MaxCounted
      /\ fail \in 0..MaxCounted /\ MaxCounted \in Nat
      /\ total = success + fail
  BY TcPingAssumption DEF TcPingInv, TcPingTypeOK
<1>r. RoundTrips \subseteq Nat \ {0} /\ rtts \in Seq(RoundTrips)
      /\ rtts \in Seq(Nat) /\ rtts \in Seq(Int)
  <2>1. RoundTrips \subseteq Nat \ {0} /\ RoundTrips \subseteq Nat
        /\ RoundTrips \subseteq Int
    BY TcPingAssumption
  <2>2. rtts \in Seq(RoundTrips)
    BY <1>t DEF TcPingTypeOK
  <2> QED BY <2>1, <2>2, SeqMonotonic
<1>1. CASE UNCHANGED <<counters, summary, rtts>>
           /\ tcping' \in {"select", "dial"}
           /\ tcping \in {"select", "dial"} /\ ticks' \in 0..1
           /\ doneClosed' \in BOOLEAN
  BY <1>1 DEF counters, TcPingInv, TcPingTypeOK, SummaryIsTrue
<1>2. CASE Tick \/ SelectTick
  BY <1>1, <1>2, <1>t
     DEF Tick, SelectTick, TcPingRunning, stopVars, TcPingTypeOK
<1>3. CASE CloseDone
  BY <1>3 DEF CloseDone, counters, TcPingInv, TcPingTypeOK, SummaryIsTrue
<1>4. CASE DialFails
  <2>1. /\ tcping = "dial" /\ tcping' = "select"
        /\ UNCHANGED <<ticks, doneClosed, success, minLat, maxLat, totalLat,
                       summary, rtts>>
    BY <1>4 DEF DialFails, stopVars
  <2>2. /\ total' \in 0..MaxCounted /\ fail' \in 0..MaxCounted
        /\ total' = success' + fail'
    BY <1>4, <1>n, <2>1 DEF DialFails, Counted
  <2>3. TcPingTypeOK'
    BY <2>1, <2>2, <1>t DEF TcPingTypeOK
  <2> QED BY <2>1, <2>2, <2>3 DEF TcPingInv, SummaryIsTrue
<1>5. ASSUME NEW lat \in RoundTrips, DialSucceeds(lat) PROVE TcPingInv'
  <2>1. /\ tcping = "dial" /\ tcping' = "select"
        /\ UNCHANGED <<ticks, doneClosed, fail, summary>>
    BY <1>5 DEF DialSucceeds, stopVars
  <2>2. ~summary.printed
    BY <2>1 DEF TcPingInv
  <2>3. CASE ~Counted
    <3>1. UNCHANGED <<total, success, minLat, maxLat, totalLat, rtts>>
      BY <1>5, <2>3 DEF DialSucceeds
    <3> QED BY <1>1, <2>1, <3>1, <1>t DEF counters, TcPingTypeOK
  <2>4. CASE Counted
    <3>1. /\ total' = total + 1 /\ success' = success + 1
          /\ CountLatency(lat) /\ rtts' = Append(rtts, lat)
      BY <1>5, <2>4 DEF DialSucceeds
    <3>2. /\ total' \in 0..MaxCounted /\ success' \in 0..MaxCounted
          /\ total' = success' + fail' /\ lat \in Nat
      BY <3>1, <2>1, <2>4, <1>n, <1>r DEF Counted
    <3>3. rtts' \in Seq(RoundTrips) /\ Len(rtts') = success'
      BY <3>1, <1>r DEF TcPingInv
    <3>4. totalLat' = Total(rtts') /\ totalLat' \in Nat
      <4>1. totalLat' = totalLat + lat
        BY <3>1 DEF CountLatency
      <4>2. Total(rtts') = Total(rtts) + lat
        BY <3>1, <3>2, <1>r, TotalOfOneMore
      <4>3. totalLat = Total(rtts)
        BY DEF TcPingInv
      <4> QED BY <4>1, <4>2, <4>3, <3>2, <1>n
    <3>5. success = 0 <=> rtts = <<>>
      <4>1. success = Len(rtts)
        BY DEF TcPingInv
      <4> QED BY <4>1, <1>r
    <3>6. minLat' = Min(ToSet(rtts'))
      <4>1. Min(ToSet(rtts')) =
              IF rtts = <<>> THEN lat ELSE Min({Min(ToSet(rtts)), lat})
        BY <3>1, <3>2, <1>r, LeastOfOneMore
      <4>2. minLat' = IF success = 0 THEN lat ELSE Min({minLat, lat})
        BY <3>1 DEF CountLatency
      <4>3. success # 0 => minLat = Min(ToSet(rtts))
        BY <1>n DEF TcPingInv
      <4> QED BY <4>1, <4>2, <4>3, <3>5
    <3>7. maxLat' = Max(ToSet(rtts'))
      <4>1. Max(ToSet(rtts')) =
              IF rtts = <<>> THEN lat ELSE Max({Max(ToSet(rtts)), lat})
        BY <3>1, <3>2, <1>r, GreatestOfOneMore
      <4>2. maxLat' = IF success = 0 THEN lat ELSE Max({maxLat, lat})
        BY <3>1 DEF CountLatency
      <4>3. success # 0 => maxLat = Max(ToSet(rtts))
        BY <1>n DEF TcPingInv
      <4> QED BY <4>1, <4>2, <4>3, <3>5
    <3>8. minLat' \in RoundTrips /\ maxLat' \in RoundTrips
      <4> DEFINE S == ToSet(rtts')
      <4>1. rtts' # <<>>
        BY <3>3, <3>1, <1>r
      <4>2. S \subseteq RoundTrips /\ S # {} /\ IsFiniteSet(S)
        BY <3>3, <4>1, ToSetIsFinite
      <4> HIDE DEF S
      <4>3. S \in SUBSET Nat
        BY <4>2, <1>r
      <4>4. Min(S) \in S /\ Max(S) \in S
        BY <4>2, <4>3, MinIsLeast, MaxIsGreatest
      <4> QED BY <4>2, <4>4, <3>6, <3>7 DEF S
    <3>9. TcPingTypeOK'
      BY <2>1, <3>2, <3>3, <3>4, <3>8, <1>t DEF TcPingTypeOK
    <3>10. ~summary'.printed
      BY <2>1, <2>2
    <3> QED
      BY <2>1, <3>2, <3>3, <3>4, <3>6, <3>7, <3>9, <3>10
      DEF TcPingInv, SummaryIsTrue
  <2> QED BY <2>3, <2>4
<1>6. CASE SelectDone
  <2>1. /\ tcping = "select" /\ tcping' \in {"returned", "panicked"}
        /\ UNCHANGED <<ticks, doneClosed, total, success, fail, minLat, maxLat,
                       totalLat, rtts>>
    BY <1>6 DEF SelectDone, stopVars, counters
  <2>2. ~summary.printed
    BY <2>1 DEF TcPingInv
  <2>3. CASE summary' = summary
    <3>1. TcPingTypeOK'
      BY <2>1, <2>3, <1>t DEF TcPingTypeOK
    <3> QED BY <2>1, <2>2, <2>3, <3>1 DEF TcPingInv, SummaryIsTrue
  <2>4. CASE success > 0 /\ tcping' = "returned" /\ summary' = Summary
    <3>1. /\ summary'.printed /\ summary'.total = total
          /\ summary'.success = success /\ summary'.fail = fail
          /\ summary'.min = minLat /\ summary'.max = maxLat
          /\ summary'.avg = totalLat \div success
      BY <2>4 DEF Summary
    <3>2. TcPingTypeOK'
      BY <2>1, <3>1, <1>t DEF TcPingTypeOK
    <3>3. SummaryIsTrue'
      BY <2>1, <2>4, <3>1 DEF TcPingInv, SummaryIsTrue, Mean
    <3> QED BY <2>1, <2>4, <3>2, <3>3 DEF TcPingInv
  <2> QED BY <1>6, <2>3, <2>4 DEF SelectDone
<1>7. CASE UNCHANGED tcPingVars
  BY <1>7 DEF tcPingVars, counters, TcPingInv, TcPingTypeOK, SummaryIsTrue
<1> QED
  BY <1>2, <1>3, <1>4, <1>5, <1>6, <1>7
  DEF TcPingStep, TcPingGoesOn, DialEnds, Cancel

(* What a TCP ping prints at the end is true of the probes it counted, for   *)
(* any latencies and any number of them (main.go:263-271, 287-300).          *)
THEOREM SummaryIsAlwaysTrue == TcPingSpec => []SummaryIsTrue
<1>1. TcPingInv => SummaryIsTrue
  BY DEF TcPingInv
<1> QED BY <1>1, TcPingStarts, TcPingSteps, PTL DEF TcPingSpec

------------------------------------------------------------------------------
(* The list of discovery.  The value of an address counts up by one with each*)
(* incIP, and the prefix is an interval of values: the list is that interval.*)

(* An octet is a part of an address. *)
LEMMA BitsAreEnough == Bits \in Nat /\ OctetBits <= Bits /\ Octets >= 1
<1>1. Octets \in Nat /\ OctetBits \in Nat /\ Octets >= 1 /\ OctetBits >= 1
  BY SubnetAssumption
<1>2. PICK n \in Nat : Octets = n + 1
  <2>1. Octets - 1 \in Nat /\ Octets = (Octets - 1) + 1
    BY <1>1
  <2> QED BY <2>1
<1>3. n * OctetBits \in Nat /\ Octets * OctetBits = n * OctetBits + OctetBits
  BY <1>1, <1>2
<1> QED BY <1>1, <1>3 DEF Bits

(* The recursive function has the values that its definition says. *)
LEMMA PowersOfTwo ==
  /\ PowerOfTwo \in [0..Bits -> Nat]
  /\ PowerOfTwo[0] = 1
  /\ \A n \in 1..Bits : PowerOfTwo[n] = 2 * PowerOfTwo[n - 1]
<1> DEFINE G == [k \in 1..Bits |-> [v \in Nat |-> 2 * v]]
           Eq(f) == f = [n \in 0..Bits |->
                           IF n = 0 THEN 1 ELSE 2 * f[n - 1]]
<1>0. Bits \in Nat
  BY BitsAreEnough
<1>1. \E p : Partials(p, Nat, 1, G, Bits)
  <2> DEFINE A == Nat
             one == 1
  <2>1. one \in A /\ G \in [1..Bits -> [A -> A]]
    OBVIOUS
  <2> HIDE DEF A, one, G
  <2>2. \E p : Partials(p, A, one, G, Bits)
    BY <1>0, <2>1, PartialsExist
  <2> QED BY <2>2 DEF A, one
<1>2. PICK p : Partials(p, Nat, 1, G, Bits)
  BY <1>1
<1>3. p \in [0..Bits -> Nat] /\ p[0] = 1
      /\ \A n \in 1..Bits : p[n] = 2 * p[n - 1]
  <2>1. /\ p \in [0..Bits -> Nat] /\ p[0] = 1
        /\ \A n \in 1..Bits : p[n] = G[n][p[n - 1]]
    <3> HIDE DEF G
    <3> QED BY <1>2 DEF Partials
  <2>2. ASSUME NEW n \in 1..Bits PROVE p[n] = 2 * p[n - 1]
    <3>1. n - 1 \in 0..Bits
      BY <1>0
    <3>2. p[n - 1] \in Nat
      BY <2>1, <3>1
    <3> QED BY <2>1, <3>2
  <2> QED BY <2>1, <2>2
<1>4. Eq(p)
  BY <1>0, <1>3
<1>5. Eq(PowerOfTwo)
  <2> DEFINE f == CHOOSE g : Eq(g)
  <2>1. Eq(f)
    <3> HIDE DEF Eq
    <3> QED BY <1>4
  <2>2. PowerOfTwo = f
    BY DEF PowerOfTwo
  <2> HIDE DEF Eq, f
  <2> QED BY <2>1, <2>2
<1>6. PowerOfTwo[0] = 1
      /\ \A n \in 1..Bits : PowerOfTwo[n] = 2 * PowerOfTwo[n - 1]
  <2> DEFINE f == PowerOfTwo
  <2>1. Eq(f)
    BY <1>5
  <2> HIDE DEF f
  <2>2. f[0] = 1
        /\ \A n \in 1..Bits : f[n] = 2 * f[n - 1]
    BY <2>1, <1>0
  <2> QED BY <2>2 DEF f
<1> DEFINE T == {n \in Nat : n <= Bits => PowerOfTwo[n] \in Nat}
<1>7. 0 \in T
  BY <1>6
<1>8. ASSUME NEW n \in Nat, n \in T PROVE n + 1 \in T
  <2> SUFFICES ASSUME n + 1 <= Bits PROVE PowerOfTwo[n + 1] \in Nat
    OBVIOUS
  <2>1. n + 1 \in 1..Bits /\ n + 1 - 1 = n /\ PowerOfTwo[n] \in Nat
    BY <1>0, <1>8
  <2> QED BY <2>1, <1>6
<1>9. T = Nat
  <2>1. T \subseteq Nat
    OBVIOUS
  <2> HIDE DEF T
  <2> QED BY <1>7, <1>8, <2>1, Induction
<1>10. \A n \in 0..Bits : PowerOfTwo[n] \in Nat
  BY <1>9
<1>11. PowerOfTwo \in [0..Bits -> Nat]
  <2> DEFINE f == PowerOfTwo
  <2>1. Eq(f)
    BY <1>5
  <2>2. \A n \in 0..Bits : f[n] \in Nat
    BY <1>10
  <2> HIDE DEF f
  <2>3. f = [n \in 0..Bits |-> f[n]]
    BY <2>1
  <2>4. f \in [0..Bits -> Nat]
    BY <2>2, <2>3
  <2> QED BY <2>4 DEF f
<1> QED BY <1>6, <1>11

(* No power is below 1, and only the first one is 1. *)
LEMMA PowersArePositive ==
  ASSUME NEW n \in 0..Bits
  PROVE  /\ PowerOfTwo[n] \in Nat /\ PowerOfTwo[n] >= 1
         /\ n >= 1 => PowerOfTwo[n] >= 2
<1>0. Bits \in Nat
  BY BitsAreEnough
<1> DEFINE T == {m \in Nat : m <= Bits => PowerOfTwo[m] >= 1}
<1>1. 0 \in T
  BY PowersOfTwo
<1>2. ASSUME NEW m \in Nat, m \in T PROVE m + 1 \in T
  <2> SUFFICES ASSUME m + 1 <= Bits PROVE PowerOfTwo[m + 1] >= 1
    OBVIOUS
  <2>1. m + 1 \in 1..Bits /\ m + 1 - 1 = m /\ PowerOfTwo[m] >= 1
        /\ m \in 0..Bits
    BY <1>0, <1>2
  <2>2. PowerOfTwo[m + 1] = 2 * PowerOfTwo[m] /\ PowerOfTwo[m] \in Nat
    BY <2>1, PowersOfTwo
  <2> QED BY <2>1, <2>2
<1>3. T = Nat
  <2>1. T \subseteq Nat
    OBVIOUS
  <2> HIDE DEF T
  <2> QED BY <1>1, <1>2, <2>1, Induction
<1>4. \A m \in 0..Bits : PowerOfTwo[m] >= 1 /\ PowerOfTwo[m] \in Nat
  BY <1>3, PowersOfTwo
<1>5. ASSUME n >= 1 PROVE PowerOfTwo[n] >= 2
  <2>1. n \in 1..Bits /\ n - 1 \in 0..Bits
    BY <1>0, <1>5
  <2>2. PowerOfTwo[n] = 2 * PowerOfTwo[n - 1] /\ PowerOfTwo[n - 1] >= 1
        /\ PowerOfTwo[n - 1] \in Nat
    BY <1>4, <2>1, PowersOfTwo
  <2> QED BY <2>2
<1> QED BY <1>4, <1>5

(* The powers multiply as their exponents add up. *)
LEMMA PowersMultiply ==
  ASSUME NEW m \in Nat, NEW n \in Nat, m + n <= Bits
  PROVE  PowerOfTwo[m + n] = PowerOfTwo[m] * PowerOfTwo[n]
<1>0. Bits \in Nat
  BY BitsAreEnough
<1> DEFINE T == {k \in Nat : m + k <= Bits =>
                   PowerOfTwo[m + k] = PowerOfTwo[m] * PowerOfTwo[k]}
<1>1. 0 \in T
  <2>1. PowerOfTwo[0] = 1 /\ m + 0 = m /\ m \in 0..Bits
    BY <1>0, PowersOfTwo
  <2>2. PowerOfTwo[m] \in Nat
    BY <2>1, PowersOfTwo
  <2> QED BY <2>1, <2>2
<1>2. ASSUME NEW k \in Nat, k \in T PROVE k + 1 \in T
  <2> SUFFICES ASSUME m + (k + 1) <= Bits
               PROVE  PowerOfTwo[m + (k + 1)] =
                        PowerOfTwo[m] * PowerOfTwo[k + 1]
    OBVIOUS
  <2>1. /\ k + 1 \in 1..Bits /\ k + 1 - 1 = k /\ m \in 0..Bits
        /\ m + (k + 1) \in 1..Bits /\ m + (k + 1) - 1 = m + k
        /\ k \in 0..Bits /\ m + k <= Bits
    BY <1>0
  <2>2. PowerOfTwo[m + k] = PowerOfTwo[m] * PowerOfTwo[k]
    BY <1>2, <2>1
  <2>3. PowerOfTwo[m] \in Nat /\ PowerOfTwo[k] \in Nat
    BY <2>1, PowersOfTwo
  <2>5. PowerOfTwo[k + 1] = 2 * PowerOfTwo[k]
    BY <2>1, PowersOfTwo
  <2>6. PowerOfTwo[m + (k + 1)] = 2 * PowerOfTwo[m + k]
    BY <2>1, PowersOfTwo
  <2>4. \A x, y \in Nat : 2 * (x * y) = x * (2 * y)
    OBVIOUS
  <2> QED BY <2>2, <2>3, <2>4, <2>5, <2>6
<1>3. T = Nat
  <2>1. T \subseteq Nat
    OBVIOUS
  <2> HIDE DEF T
  <2> QED BY <1>1, <1>2, <2>1, Induction
<1> QED BY <1>3

(* What an address has in its first k octets is below Weight(k).             *)
Weight(k) == PowerOfTwo[k * OctetBits]

(* An octet more is the base times more. *)
LEMMA Weights ==
  /\ Weight(0) = 1 /\ Weight(Octets) = PowerOfTwo[Bits]
  /\ OctetBase \in Nat /\ OctetBase >= 2
  /\ \A k \in 0..Octets : Weight(k) \in Nat /\ Weight(k) >= 1
  /\ \A k \in 1..Octets : Weight(k) = Weight(k - 1) * OctetBase
<1>1. /\ Octets \in Nat /\ OctetBits \in Nat /\ OctetBits >= 1
      /\ Bits \in Nat /\ OctetBits <= Bits /\ Bits = Octets * OctetBits
  BY BitsAreEnough, SubnetAssumption DEF Bits
<1>2. ASSUME NEW k \in 0..Octets
      PROVE  k * OctetBits \in 0..Bits
  <2>1. k \in Nat /\ Octets - k \in Nat /\ Octets = k + (Octets - k)
    BY <1>1
  <2>2. PICK j \in Nat : Octets = k + j
    BY <2>1
  <2>3. k * OctetBits \in Nat /\ j * OctetBits \in Nat
        /\ Octets * OctetBits = k * OctetBits + j * OctetBits
    BY <1>1, <2>1, <2>2
  <2> QED BY <2>3, <1>1
<1>3. \A k \in 0..Octets : Weight(k) \in Nat /\ Weight(k) >= 1
  BY <1>2, PowersArePositive DEF Weight
<1>4. Weight(0) = 1
  <2>1. 0 * OctetBits = 0
    BY <1>1
  <2> QED BY <2>1, PowersOfTwo DEF Weight
<1>5. OctetBase \in Nat /\ OctetBase >= 2
  <2>1. OctetBits \in 0..Bits
    BY <1>1
  <2> QED BY <1>1, <2>1, PowersArePositive DEF OctetBase
<1>6. ASSUME NEW k \in 1..Octets
      PROVE  Weight(k) = Weight(k - 1) * OctetBase
  <2>1. k \in Nat /\ k - 1 \in Nat /\ k - 1 \in 0..Octets /\ k \in 0..Octets
    BY <1>1
  <2>2. PICK j \in Nat : j = k - 1
    BY <2>1
  <2>3. k * OctetBits = j * OctetBits + OctetBits
    <3>1. k = j + 1
      BY <2>1, <2>2
    <3> QED BY <3>1, <1>1
  <2>4. j * OctetBits \in Nat /\ k * OctetBits <= Bits
    BY <2>1, <2>2, <1>2
  <2>5. PowerOfTwo[j * OctetBits + OctetBits] =
          PowerOfTwo[j * OctetBits] * PowerOfTwo[OctetBits]
    <3> DEFINE m == j * OctetBits
    <3>1. m \in Nat /\ m + OctetBits <= Bits
      BY <2>3, <2>4
    <3> HIDE DEF m
    <3>2. PowerOfTwo[m + OctetBits] = PowerOfTwo[m] * PowerOfTwo[OctetBits]
      BY <3>1, <1>1, PowersMultiply
    <3> QED BY <3>2 DEF m
  <2> QED BY <2>2, <2>3, <2>5 DEF Weight, OctetBase
<1>7. Weight(Octets) = PowerOfTwo[Bits]
  BY <1>1 DEF Weight
<1> QED BY <1>3, <1>4, <1>5, <1>6, <1>7

(* What octet k does to the value of those before it.                        *)
Shifting(a) == [k \in 1..Octets |-> [v \in Nat |-> v * OctetBase + a[k]]]

(* What the fold takes an address for. *)
LEMMA AddressesAreSequences ==
  ASSUME NEW a \in Addresses
  PROVE  /\ a \in Seq(Nat) /\ Len(a) = Octets /\ DOMAIN a = 1..Octets
         /\ \A k \in 1..Octets : a[k] \in 0..(OctetBase - 1)
<1>1. Octets \in Nat /\ OctetBase \in Nat
  BY SubnetAssumption, Weights
<1>2. /\ a \in [1..Octets -> Nat] /\ DOMAIN a = 1..Octets
      /\ \A k \in 1..Octets : a[k] \in 0..(OctetBase - 1)
  BY <1>1 DEF Addresses
<1>3. a \in Seq(Nat)
  BY <1>1, <1>2, SeqDef
<1> QED BY <1>1, <1>2, <1>3

(* The value is what they come to after all of the octets. *)
LEMMA ValueIsPartials ==
  ASSUME NEW a \in Addresses
  PROVE  \E p : /\ Partials(p, Nat, 0, Shifting(a), Octets)
               /\ ValueOf(a) = p[Octets]
<1> DEFINE N == Octets
           B == OctetBase
           G == Shifting(a)
           Eq(h) == h = [t \in SUBSET (1..N) |->
                           IF t = {} THEN 0
                           ELSE h[t \ {Max(t)}] * B + a[Max(t)]]
           iter == CHOOSE h : Eq(h)
<1>0. /\ N \in Nat /\ B \in Nat /\ Len(a) = N /\ DOMAIN a = 1..N
      /\ \A k \in 1..N : a[k] \in Nat
  BY SubnetAssumption, Weights, AddressesAreSequences
<1>1. /\ G \in [1..N -> [Nat -> Nat]]
      /\ \A k \in 1..N : \A v \in Nat : G[k][v] = v * B + a[k]
  <2>1. ASSUME NEW k \in 1..N, NEW v \in Nat PROVE v * B + a[k] \in Nat
    BY <1>0
  <2> HIDE DEF N, B
  <2> QED BY <2>1 DEF Shifting, N, B
<1>2. \E h : Table(h, Nat, 0, G, N)
  <2> DEFINE A == Nat
             base == 0
  <2>1. base \in A
    OBVIOUS
  <2> HIDE DEF N, G, A, base
  <2>2. \E h : Table(h, A, base, G, N)
    BY <2>1, <1>0, <1>1, TableExists DEF A
  <2> QED BY <2>2 DEF A, base
<1>3. \A t \in SUBSET (1..N) : t # {} => Max(t) \in 1..N
  <2> HIDE DEF N
  <2>1. ASSUME NEW t \in SUBSET (1..N), t # {} PROVE Max(t) \in 1..N
    <3>1. N \in Nat
      BY <1>0
    <3>2. Max(t) \in t
      BY <2>1, <3>1, MaxOfIndices
    <3> QED BY <3>2
  <2> QED BY <2>1
<1>4. \E h : Eq(h)
  <2>1. PICK h : Table(h, Nat, 0, G, N)
    BY <1>2
  <2>2. /\ h \in [SUBSET (1..N) -> Nat] /\ h[{}] = 0
        /\ \A t \in SUBSET (1..N) : t # {} =>
             h[t] = G[Max(t)][h[t \ {Max(t)}]]
    BY <2>1 DEF Table
  <2> HIDE DEF N, G, B
  <2>3. ASSUME NEW t \in SUBSET (1..N), t # {}
        PROVE  h[t] = h[t \ {Max(t)}] * B + a[Max(t)]
    <3>1. h[t \ {Max(t)}] \in Nat
      BY <2>2
    <3>2. Max(t) \in 1..N
      BY <2>3, <1>3
    <3> QED BY <3>1, <3>2, <2>2, <2>3, <1>1
  <2>4. Eq(h)
    BY <2>2, <2>3
  <2> HIDE DEF Eq
  <2> QED BY <2>4
<1>5. Eq(iter)
  <2> HIDE DEF Eq
  <2> QED BY <1>4
<1>6. ValueOf(a) = iter[1..N]
  BY <1>0 DEF ValueOf, FoldLeft, MapThenFoldSet
<1> HIDE DEF iter
<1>7. iter[{}] = 0
  BY <1>5
<1>8. ASSUME NEW t \in SUBSET (1..N), t # {}, iter[t \ {Max(t)}] \in Nat
      PROVE  iter[t] = G[Max(t)][iter[t \ {Max(t)}]]
  <2>1. iter[t] = iter[t \ {Max(t)}] * B + a[Max(t)]
    BY <1>5, <1>8
  <2>2. Max(t) \in 1..N
    BY <1>3, <1>8
  <2> HIDE DEF G, Eq, B
  <2> QED BY <1>1, <1>8, <2>1, <2>2
<1>9. \E p : Partials(p, Nat, 0, G, N) /\ p[N] = iter[1..N]
  <2> DEFINE A == Nat
             base == 0
  <2>1. base \in A /\ N \in Nat /\ G \in [1..N -> [A -> A]]
    BY <1>0, <1>1
  <2>2. Solves(iter, A, base, G, N)
    BY <1>7, <1>8 DEF Solves
  <2>3. \E p : Partials(p, A, base, G, N) /\ p[N] = iter[1..N]
    <3> HIDE DEF A, base, N, G
    <3> QED BY <2>1, <2>2, TableIsPartials
  <2> QED BY <2>3
<1> QED BY <1>6, <1>9

(* Each partial result is the last one, shifted by an octet, and that octet.*)
LEMMA ShiftingOnce ==
  ASSUME NEW a \in Addresses, NEW p, Partials(p, Nat, 0, Shifting(a), Octets)
  PROVE  /\ p[0] = 0
         /\ \A k \in 0..Octets : p[k] \in Nat
         /\ \A k \in 1..Octets : p[k] = p[k - 1] * OctetBase + a[k]
<1>1. p \in [0..Octets -> Nat] /\ p[0] = 0
  BY DEF Partials
<1>2. ASSUME NEW k \in 1..Octets
      PROVE  p[k] = p[k - 1] * OctetBase + a[k]
  <2>1. k - 1 \in 0..Octets
    BY SubnetAssumption
  <2>2. p[k - 1] \in Nat
    BY <1>1, <2>1
  <2>3. p[k] = Shifting(a)[k][p[k - 1]]
    BY DEF Partials
  <2> QED BY <2>2, <2>3 DEF Shifting
<1> QED BY <1>1, <1>2

(* One octet more: what is left to the next weight.                          *)
LEMMA OneOctetMore ==
  ASSUME NEW B \in Nat, B >= 2, NEW w \in Nat, NEW v \in Nat, v < w,
         NEW d \in 0..(B - 1)
  PROVE  /\ v * B + d \in Nat /\ v * B + d < w * B
         /\ v * B + d = w * B - 1 <=> (v = w - 1 /\ d = B - 1)
         /\ (v + 1) * B = v * B + (B - 1) + 1
<1>1. PICK j \in Nat : w = (v + 1) + j
  <2>1. w - (v + 1) \in Nat /\ w = (v + 1) + (w - (v + 1))
    OBVIOUS
  <2> QED BY <2>1
<1>2. v * B \in Nat /\ j * B \in Nat /\ w * B = (v * B + B) + j * B
  BY <1>1
<1>3. (v + 1) * B = v * B + B
  OBVIOUS
<1>4. CASE j = 0
  <2>1. j * B = 0 /\ v = w - 1
    BY <1>4, <1>1
  <2> QED BY <2>1, <1>2, <1>3
<1>5. CASE j # 0
  <2>1. j - 1 \in Nat /\ j = (j - 1) + 1
    BY <1>5
  <2>2. PICK i \in Nat : j = i + 1
    BY <2>1
  <2>3. i * B \in Nat /\ j * B = i * B + B /\ v # w - 1
    BY <2>2, <1>1
  <2> QED BY <2>3, <1>2, <1>3
<1> QED BY <1>4, <1>5

(* Counting up goes to the next value, and from the last one to 0.           *)
LEMMA IncIPCounts ==
  ASSUME NEW a \in Addresses
  PROVE  /\ ValueOf(a) \in Nat /\ ValueOf(a) < PowerOfTwo[Bits]
         /\ IncIP(a) \in Addresses
         /\ ValueOf(IncIP(a)) = IF ValueOf(a) = PowerOfTwo[Bits] - 1 THEN 0
                                ELSE ValueOf(a) + 1
<1> DEFINE B == OctetBase
           N == Octets
           b == IncIP(a)
           Full(k) == \A j \in (k + 1)..N : a[j] = B - 1
<1>0. /\ N \in Nat /\ B \in Nat /\ B >= 2
      /\ \A k \in 1..N : a[k] \in 0..(B - 1)
      /\ Weight(0) = 1 /\ Weight(N) = PowerOfTwo[Bits]
      /\ \A k \in 0..N : Weight(k) \in Nat /\ Weight(k) >= 1
      /\ \A k \in 1..N : Weight(k) = Weight(k - 1) * B
  BY SubnetAssumption, Weights, AddressesAreSequences
<1>1. /\ b \in Addresses
      /\ \A k \in 1..N : b[k] = IF Full(k) THEN (a[k] + 1) % B ELSE a[k]
  <2>1. \A k \in 1..N : (a[k] + 1) % B \in 0..(B - 1)
    <3>1. \A k \in 1..N : a[k] + 1 \in Nat
      BY <1>0
    <3>2. \A x \in Nat : x % B \in 0..(B - 1)
      BY <1>0
    <3> HIDE DEF B, N
    <3> QED BY <3>1, <3>2
  <2>2. \A k \in 1..N : b[k] = IF Full(k) THEN (a[k] + 1) % B ELSE a[k]
    BY DEF IncIP
  <2>3. \A k \in 1..N : b[k] \in 0..(B - 1)
    <3> HIDE DEF b, B, N, Full
    <3> QED BY <2>1, <2>2, <1>0
  <2>4. b = [k \in 1..N |-> b[k]]
    BY DEF IncIP
  <2>5. b \in [1..N -> 0..(B - 1)]
    <3> HIDE DEF b, B, N, Full
    <3> QED BY <2>3, <2>4
  <2>6. b \in Addresses
    BY <2>5 DEF Addresses
  <2> QED BY <2>2, <2>6
<1>2. PICK p : /\ Partials(p, Nat, 0, Shifting(a), N)
               /\ ValueOf(a) = p[N]
  BY ValueIsPartials
<1>3. PICK q : /\ Partials(q, Nat, 0, Shifting(b), N)
               /\ ValueOf(b) = q[N]
  <2> HIDE DEF b
  <2> QED BY <1>1, ValueIsPartials
<1>4. /\ p[0] = 0
      /\ \A k \in 0..N : p[k] \in Nat
      /\ \A k \in 1..N : p[k] = p[k - 1] * B + a[k]
  BY <1>2, ShiftingOnce
<1>5. /\ q[0] = 0
      /\ \A k \in 0..N : q[k] \in Nat
      /\ \A k \in 1..N : q[k] = q[k - 1] * B + b[k]
  <2> HIDE DEF b
  <2> QED BY <1>1, <1>3, ShiftingOnce
<1> DEFINE Good(k) == /\ p[k] < Weight(k)
                      /\ q[k] = IF ~Full(k) THEN p[k]
                                ELSE IF p[k] = Weight(k) - 1 THEN 0
                                ELSE p[k] + 1
           T == {k \in Nat : k <= N => Good(k)}
<1>6. 0 \in T
  BY <1>0, <1>4, <1>5
<1>7. ASSUME NEW k \in Nat, k \in T PROVE k + 1 \in T
  <2> SUFFICES ASSUME k + 1 <= N PROVE Good(k + 1)
    OBVIOUS
  <2> DEFINE m == k + 1
             v == p[k]
             w == Weight(k)
             d == a[m]
  <2>1. /\ m \in 1..N /\ k \in 0..N /\ m - 1 = k /\ k <= N /\ m \in Nat
        /\ v \in Nat /\ w \in Nat /\ d \in 0..(B - 1) /\ q[k] \in Nat
    BY <1>0, <1>4, <1>5
  <2>2. Good(k)
    BY <1>7, <2>1
  <2>3. p[m] = v * B + d /\ q[m] = q[k] * B + b[m] /\ Weight(m) = w * B
    BY <1>0, <1>4, <1>5, <2>1
  <2>4. Full(k) <=> Full(m) /\ d = B - 1
    <3> DEFINE left == (k + 1)..N
               less == (m + 1)..N
    <3>1. \A j : j \in left <=> j = m \/ j \in less
      BY <2>1, <1>0
    <3> HIDE DEF left, less, m
    <3>2. (\A j \in left : a[j] = B - 1) <=>
            (\A j \in less : a[j] = B - 1) /\ a[m] = B - 1
      BY <3>1
    <3> QED BY <3>2 DEF left, less, m
  <2>5. b[m] = IF Full(m) THEN (d + 1) % B ELSE d
    BY <1>1, <2>1
  <2>6. /\ v * B + d \in Nat /\ v * B + d < w * B
        /\ v * B + d = w * B - 1 <=> (v = w - 1 /\ d = B - 1)
        /\ (v + 1) * B = v * B + (B - 1) + 1
    <3>1. v < w
      BY <2>2
    <3> HIDE DEF v, w, d, B
    <3> QED BY <3>1, <2>1, <1>0, OneOctetMore
  <2>7. d < B - 1 => (d + 1) % B = d + 1
    <3>1. \A x \in 0..(B - 1) : x % B = x
      BY <1>0
    <3>2. d < B - 1 => d + 1 \in 0..(B - 1)
      BY <2>1, <1>0
    <3> HIDE DEF d, B
    <3> QED BY <3>1, <3>2
  <2>8. d = B - 1 => (d + 1) % B = 0
    <3>1. B % B = 0
      BY <1>0
    <3> HIDE DEF d, B
    <3>2. d = B - 1 => d + 1 = B
      BY <1>0
    <3> QED BY <3>1, <3>2
  <2>9. v < w /\ q[k] = IF ~Full(k) THEN v
                        ELSE IF v = w - 1 THEN 0 ELSE v + 1
    BY <2>2
  <2> DEFINE qk == q[k]
             qm == q[m]
             pm == p[m]
             wm == Weight(m)
             bm == b[m]
  <2> HIDE DEF v, w, d, B, N, T, Good, qk, qm, pm, wm, bm, Full, b
  <2>10. CASE ~Full(m)
    <3>1. qk = v /\ bm = d
      BY <2>10, <2>4, <2>5, <2>9 DEF qk, bm
    <3>2. qm = pm /\ pm < wm
      BY <3>1, <2>3, <2>6 DEF qm, pm, wm, qk, bm
    <3> QED BY <2>10, <3>2 DEF Good, qm, pm, wm, m
  <2>11. CASE Full(m) /\ d # B - 1
    <3>1. qk = v /\ bm = d + 1
      <4>1. d < B - 1
        BY <2>1, <2>11, <1>0
      <4> QED BY <4>1, <2>11, <2>4, <2>5, <2>7, <2>9 DEF qk, bm
    <3>2. qm = v * B + (d + 1)
      BY <3>1, <2>3 DEF qm, qk, bm
    <3>3. v * B \in Nat
      BY <2>1, <1>0
    <3>4. qm = pm + 1 /\ pm < wm /\ pm # wm - 1
      BY <3>2, <3>3, <2>1, <2>3, <2>6, <2>11 DEF pm, wm
    <3> QED BY <2>11, <3>4 DEF Good, qm, pm, wm, m
  <2>12. CASE Full(m) /\ d = B - 1 /\ v = w - 1
    <3>1. qk = 0 /\ bm = 0
      BY <2>12, <2>4, <2>5, <2>8, <2>9 DEF qk, bm
    <3>2. qm = 0
      <4>1. 0 * B = 0
        BY <1>0
      <4> QED BY <4>1, <3>1, <2>3 DEF qm, qk, bm
    <3>3. pm = wm - 1 /\ pm < wm
      BY <2>3, <2>6, <2>12 DEF pm, wm
    <3> QED BY <2>12, <3>2, <3>3 DEF Good, qm, pm, wm, m
  <2>13. CASE Full(m) /\ d = B - 1 /\ v # w - 1
    <3>1. qk = v + 1 /\ bm = 0
      BY <2>13, <2>4, <2>5, <2>8, <2>9 DEF qk, bm
    <3>2. qm = (v + 1) * B
      <4>1. (v + 1) * B \in Nat
        BY <2>1, <1>0
      <4> QED BY <4>1, <3>1, <2>3 DEF qm, qk, bm
    <3>3. v * B \in Nat
      BY <2>1, <1>0
    <3>4. qm = pm + 1 /\ pm # wm - 1 /\ pm < wm
      BY <3>2, <3>3, <2>1, <1>0, <2>3, <2>6, <2>13 DEF pm, wm
    <3> QED BY <2>13, <3>4 DEF Good, qm, pm, wm, m
  <2> QED BY <2>10, <2>11, <2>12, <2>13
<1>8. T = Nat
  <2>1. T \subseteq Nat
    OBVIOUS
  <2> HIDE DEF T
  <2> QED BY <1>6, <1>7, <2>1, Induction
<1>9. Good(N)
  <2>1. N \in T /\ N <= N
    <3> HIDE DEF T, N
    <3> QED BY <1>8, <1>0
  <2> HIDE DEF Good
  <2> QED BY <2>1
<1>10. Full(N)
  BY <1>0
<1> QED BY <1>0, <1>1, <1>2, <1>3, <1>4, <1>9, <1>10

(* The values that have the same quotient are an interval.                   *)
LEMMA BlockIsInterval ==
  ASSUME NEW z \in Nat, z >= 1, NEW f \in Nat, f % z = 0, NEW v \in Nat
  PROVE  v \div z = f \div z <=> f <= v /\ v < f + z
<1> DEFINE q == f \div z
           r == v \div z
           s == v % z
<1>1. /\ q \in Nat /\ r \in Nat /\ s \in Nat /\ s < z
      /\ f = z * q /\ v = z * r + s
  OBVIOUS
<1> HIDE DEF q, r, s
<1>2. CASE r = q
  <2>1. z * r = z * q /\ z * q \in Nat
    BY <1>1, <1>2
  <2> QED BY <1>1, <1>2, <2>1 DEF q, r
<1>3. CASE r < q
  <2>1. PICK j \in Nat : q = (r + 1) + j
    <3>1. q - (r + 1) \in Nat /\ q = (r + 1) + (q - (r + 1))
      BY <1>1, <1>3
    <3> QED BY <3>1
  <2>2. z * q = (z * r + z) + z * j /\ z * r \in Nat /\ z * j \in Nat
    BY <2>1, <1>1
  <2> QED BY <1>1, <1>3, <2>2 DEF q, r
<1>4. CASE q < r
  <2>1. PICK j \in Nat : r = (q + 1) + j
    <3>1. r - (q + 1) \in Nat /\ r = (q + 1) + (r - (q + 1))
      BY <1>1, <1>4
    <3> QED BY <3>1
  <2>2. z * r = (z * q + z) + z * j /\ z * q \in Nat /\ z * j \in Nat
    BY <2>1, <1>1
  <2> QED BY <1>1, <1>4, <2>2 DEF q, r
<1> QED BY <1>1, <1>2, <1>3, <1>4

(* A block that begins below a multiple of its size ends there or below.     *)
LEMMA BlockFits ==
  ASSUME NEW z \in Nat, z >= 1, NEW f \in Nat, f % z = 0, NEW m \in Nat,
         f < z * m
  PROVE  f + z <= z * m
<1> DEFINE q == f \div z
<1>1. q \in Nat /\ f = z * q
  OBVIOUS
<1> HIDE DEF q
<1>2. CASE q < m
  <2>1. PICK j \in Nat : m = (q + 1) + j
    <3>1. m - (q + 1) \in Nat /\ m = (q + 1) + (m - (q + 1))
      BY <1>1, <1>2
    <3> QED BY <3>1
  <2>2. z * m = (z * q + z) + z * j /\ z * q \in Nat /\ z * j \in Nat
    BY <2>1, <1>1
  <2> QED BY <1>1, <2>2
<1>3. CASE m <= q
  <2>1. PICK j \in Nat : q = m + j
    <3>1. q - m \in Nat /\ q = m + (q - m)
      BY <1>1, <1>3
    <3> QED BY <3>1
  <2>2. z * q = z * m + z * j /\ z * m \in Nat /\ z * j \in Nat
    BY <2>1, <1>1
  <2> QED BY <1>1, <2>2
<1> QED BY <1>1, <1>2, <1>3

(* The addresses of a prefix are those whose values are in its interval,     *)
(* which ends at the last address of all or before it.                       *)
LEMMA PrefixIsInterval ==
  ASSUME NEW net \in Addresses, NEW bits \in 0..Bits,
         ValueOf(net) % Size(bits) = 0
  PROVE  /\ Size(bits) \in Nat /\ Size(bits) >= 1 /\ ValueOf(net) \in Nat
         /\ ValueOf(net) + Size(bits) <= PowerOfTwo[Bits]
         /\ bits = 0 => /\ ValueOf(net) = 0
                        /\ Size(bits) = PowerOfTwo[Bits]
         /\ bits > 0 => Size(bits) < PowerOfTwo[Bits]
         /\ \A a \in Addresses :
              Block(a, bits) = Block(net, bits) <=>
                /\ ValueOf(net) <= ValueOf(a)
                /\ ValueOf(a) < ValueOf(net) + Size(bits)
<1> DEFINE left == Bits - bits
           W == PowerOfTwo[Bits]
           z == Size(bits)
           m == PowerOfTwo[bits]
           f == ValueOf(net)
<1>1. /\ left \in 0..Bits /\ left + bits = Bits
      /\ Bits \in Nat /\ bits \in Nat /\ left \in Nat /\ Bits \in 0..Bits
  BY BitsAreEnough
<1>2. /\ z \in Nat /\ z >= 1 /\ m \in Nat /\ m >= 1 /\ (bits >= 1 => m >= 2)
      /\ W \in Nat
  <2>1. /\ PowerOfTwo[left] \in Nat /\ PowerOfTwo[left] >= 1
        /\ m \in Nat /\ m >= 1 /\ (bits >= 1 => m >= 2) /\ W \in Nat
    <3> HIDE DEF left
    <3> QED BY <1>1, PowersArePositive
  <2> QED BY <2>1 DEF Size
<1>3. W = z * m
  <2>1. PowerOfTwo[left + bits] = PowerOfTwo[left] * PowerOfTwo[bits]
    <3> HIDE DEF left
    <3> QED BY <1>1, PowersMultiply
  <2> QED BY <1>1, <2>1 DEF Size
<1>4. f \in Nat /\ f < W
  BY IncIPCounts
<1>5. f % z = 0
  OBVIOUS
<1>6. bits > 0 => z < W
  <2> SUFFICES ASSUME bits > 0 PROVE z < W
    OBVIOUS
  <2>1. PICK j \in Nat : m = 2 + j
    <3>1. m - 2 \in Nat /\ m = 2 + (m - 2)
      BY <1>1, <1>2
    <3> QED BY <3>1
  <2> HIDE DEF z, W, m
  <2>2. z * m = z + z + z * j /\ z * j \in Nat
    BY <1>2, <2>1
  <2> QED BY <1>2, <1>3, <2>2
<1>7. f + z <= W
  <2> HIDE DEF z, W, m, f
  <2>1. f + z <= z * m
    BY <1>2, <1>3, <1>4, <1>5, BlockFits
  <2> QED BY <2>1, <1>3
<1>8. bits = 0 => z = W
  <2>1. bits = 0 => Bits - bits = Bits
    BY <1>1
  <2> QED BY <2>1 DEF Size
<1>9. ASSUME NEW a \in Addresses
      PROVE  Block(a, bits) = Block(net, bits) <=>
               f <= ValueOf(a) /\ ValueOf(a) < f + z
  <2> DEFINE v == ValueOf(a)
  <2>1. v \in Nat
    BY IncIPCounts
  <2>2. Block(a, bits) = Block(net, bits) <=> v \div z = f \div z
    BY DEF Block
  <2> HIDE DEF v, z, f
  <2>3. v \div z = f \div z <=> f <= v /\ v < f + z
    BY <1>2, <1>4, <1>5, <2>1, BlockIsInterval
  <2> QED BY <2>2, <2>3 DEF v
<1> HIDE DEF z, W, f, m
<1>10. bits = 0 => f = 0
  BY <1>2, <1>4, <1>7, <1>8
<1> QED BY <1>2, <1>4, <1>6, <1>7, <1>8, <1>9, <1>10 DEF z, W, f

(* The list holds the first addresses of the prefix, and the next one is     *)
(* that which follows, or 0 after the last address of all.                   *)
Counting(net, bits, list, next) ==
  /\ Len(list) <= Size(bits)
  /\ \A k \in 1..Len(list) : ValueOf(list[k]) = ValueOf(net) + k - 1
  /\ ValueOf(next) = IF ValueOf(net) + Len(list) = PowerOfTwo[Bits] THEN 0
                     ELSE ValueOf(net) + Len(list)

(* An address that follows is put on the list only if the list is short.     *)
LEMMA CountingGoesOn ==
  ASSUME NEW net \in Addresses, NEW bits \in 1..Bits,
         ValueOf(net) % Size(bits) = 0,
         NEW list \in Seq(Addresses), NEW next \in Addresses,
         Counting(net, bits, list, next)
  PROVE  /\ Block(next, bits) = Block(net, bits) =>
              Counting(net, bits, Append(list, next), IncIP(next))
         /\ Block(next, bits) # Block(net, bits) => Len(list) = Size(bits)
<1> DEFINE f == ValueOf(net)
           z == Size(bits)
           W == PowerOfTwo[Bits]
           n == Len(list)
           v == ValueOf(next)
           u == ValueOf(IncIP(next))
           more == Append(list, next)
<1>1. /\ z \in Nat /\ z >= 1 /\ f \in Nat /\ f + z <= W /\ z < W
      /\ W \in Nat
      /\ Block(next, bits) = Block(net, bits) <=> f <= v /\ v < f + z
  <2>1. bits \in 0..Bits /\ bits > 0 /\ Bits \in Nat /\ Bits \in 0..Bits
    BY BitsAreEnough
  <2> QED BY <2>1, PrefixIsInterval, PowersOfTwo
<1>2. /\ v \in Nat /\ v < W
      /\ u = IF v = W - 1 THEN 0 ELSE v + 1
  BY IncIPCounts
<1>3. /\ n \in Nat /\ n <= z
      /\ \A k \in 1..n : ValueOf(list[k]) = f + k - 1
      /\ v = IF f + n = W THEN 0 ELSE f + n
  BY DEF Counting
<1>4. Len(more) = n + 1 /\ more[n + 1] = next
      /\ \A k \in 1..n : more[k] = list[k]
  OBVIOUS
<1>5. ASSUME Block(next, bits) = Block(net, bits)
      PROVE  Counting(net, bits, more, IncIP(next))
  <2>1. f <= v /\ v < f + z
    BY <1>1, <1>5
  <2> HIDE DEF f, z, W, n, v, u
  <2>2. v = f + n /\ n + 1 <= z
    BY <1>1, <1>2, <1>3, <2>1
  <2>3. u = IF f + (n + 1) = W THEN 0 ELSE f + (n + 1)
    BY <1>1, <1>2, <1>3, <2>2
  <2>4. \A k \in 1..(n + 1) : ValueOf(more[k]) = f + k - 1
    <3>1. ValueOf(more[n + 1]) = f + (n + 1) - 1
      BY <1>1, <1>3, <1>4, <2>2 DEF v
    <3>2. \A k \in 1..n : ValueOf(more[k]) = f + k - 1
      BY <1>3, <1>4
    <3> HIDE DEF more
    <3>3. \A k \in 1..(n + 1) : k \in 1..n \/ k = n + 1
      BY <1>3
    <3> QED BY <3>1, <3>2, <3>3
  <2> HIDE DEF more
  <2> QED BY <1>4, <2>2, <2>3, <2>4 DEF Counting, f, z, W, u
<1>6. ASSUME Block(next, bits) # Block(net, bits)
      PROVE  n = z
  <2>1. ~(f <= v /\ v < f + z)
    BY <1>1, <1>6
  <2> HIDE DEF f, z, W, n, v, u
  <2> QED BY <1>1, <1>2, <1>3, <2>1
<1> QED BY <1>5, <1>6

(* A list that is being made is counting, and that of all addresses never    *)
(* ends.                                                                     *)
SubnetInv ==
  /\ SubnetTypeOK
  /\ subnet \in {"parse", "failed"} => ips = <<>>
  /\ subnet \in {"list", "done"} =>
       ValueOf(prefix.net) % Size(prefix.bits) = 0
  /\ subnet = "list" /\ prefix.bits > 0 =>
       Counting(prefix.net, prefix.bits, ips, ip)
  /\ subnet = "done" => HostsAreTheSubnet

(* It holds before the argument is parsed. *)
LEMMA SubnetStarts == SubnetInit => SubnetInv
<1> SUFFICES ASSUME SubnetInit PROVE SubnetInv
  OBVIOUS
<1>1. OctetBase \in Nat /\ OctetBase >= 2 /\ Bits \in Nat
  BY Weights, BitsAreEnough
<1>2. prefix.net \in Addresses /\ prefix.bits \in 0..Bits /\ ip \in Addresses
  BY <1>1 DEF SubnetInit, Addresses
<1>3. subnet = "parse" /\ ips = <<>>
  BY DEF SubnetInit
<1>4. SubnetTypeOK
  BY <1>2, <1>3 DEF SubnetTypeOK
<1> QED BY <1>3, <1>4 DEF SubnetInv

(* What HostsAreTheSubnet says of a list. *)
AreHosts(net, bits, hosts) ==
  LET first == ValueOf(net)
      size == Size(bits)
      trim == IF size > 2 THEN 1 ELSE 0
  IN  /\ Len(hosts) <= size
      /\ [k \in 1..Len(hosts) |-> ValueOf(hosts[k])] =
           [k \in 1..(size - 2 * trim) |-> first + trim + k - 1]

(* A list of all the addresses of a prefix, in order, has the hosts once     *)
(* its ends are gone.                                                        *)
LEMMA HostsOfList ==
  ASSUME NEW net \in Addresses, NEW bits \in 1..Bits,
         ValueOf(net) % Size(bits) = 0,
         NEW list \in Seq(Addresses), Len(list) = Size(bits),
         \A k \in 1..Len(list) : ValueOf(list[k]) = ValueOf(net) + k - 1,
         NEW hosts,
         hosts = IF Len(list) > 2 THEN SubSeq(list, 2, Len(list) - 1)
                 ELSE list
  PROVE  hosts \in Seq(Addresses) /\ AreHosts(net, bits, hosts)
<1> DEFINE f == ValueOf(net)
           z == Size(bits)
<1>1. z \in Nat /\ f \in Nat /\ Len(list) = z
  <2>1. bits \in 0..Bits
    BY BitsAreEnough
  <2> QED BY <2>1, PrefixIsInterval
<1> HIDE DEF f, z
<1>2. CASE z > 2
  <2>1. /\ hosts = SubSeq(list, 2, z - 1)
        /\ hosts \in Seq(Addresses) /\ Len(hosts) = z - 2
        /\ \A k \in 1..(z - 2) : hosts[k] = list[k + 1]
    <3>1. hosts = SubSeq(list, 2, z - 1)
      BY <1>1, <1>2
    <3> QED BY <3>1, <1>1, <1>2, SubSeqProperties
  <2>2. ASSUME NEW k \in 1..(z - 2)
        PROVE  ValueOf(hosts[k]) = f + 1 + k - 1
    <3>1. k + 1 \in 1..z
      BY <1>1
    <3>2. ValueOf(list[k + 1]) = f + (k + 1) - 1
      BY <3>1, <1>1 DEF f
    <3> QED BY <3>2, <2>1, <1>1
  <2>3. /\ hosts \in Seq(Addresses) /\ Len(hosts) <= z
        /\ [k \in 1..Len(hosts) |-> ValueOf(hosts[k])] =
             [k \in 1..(z - 2 * 1) |-> f + 1 + k - 1]
    <3> DEFINE n == z - 2
    <3>1. n = z - 2 * 1 /\ n <= z /\ Len(hosts) = n
      BY <2>1, <1>1
    <3>2. \A k \in 1..n : ValueOf(hosts[k]) = f + 1 + k - 1
      BY <2>2
    <3> HIDE DEF n
    <3>3. [k \in 1..n |-> ValueOf(hosts[k])] = [k \in 1..n |-> f + 1 + k - 1]
      BY <3>2
    <3> QED BY <3>1, <3>3, <2>1
  <2> QED BY <2>3, <1>2 DEF AreHosts, f, z
<1>3. CASE ~(z > 2)
  <2>1. hosts = list
    BY <1>1, <1>3
  <2>2. \A k \in 1..z : ValueOf(hosts[k]) = f + 0 + k - 1
    BY <2>1, <1>1 DEF f
  <2>3. /\ hosts \in Seq(Addresses) /\ Len(hosts) <= z
        /\ [k \in 1..Len(hosts) |-> ValueOf(hosts[k])] =
             [k \in 1..(z - 2 * 0) |-> f + 0 + k - 1]
    BY <2>1, <2>2, <1>1
  <2> QED BY <2>3, <1>1, <1>3 DEF AreHosts, f, z
<1> QED BY <1>2, <1>3

(* Each step of parseCIDR keeps it. *)
LEMMA SubnetSteps ==
  ASSUME SubnetInv, SubnetStep \/ UNCHANGED subnetVars
  PROVE  SubnetInv'
<1>0. /\ SubnetTypeOK
      /\ subnet \in {"parse", "failed"} => ips = <<>>
      /\ subnet \in {"list", "done"} =>
           ValueOf(prefix.net) % Size(prefix.bits) = 0
      /\ subnet = "list" /\ prefix.bits > 0 =>
           Counting(prefix.net, prefix.bits, ips, ip)
      /\ subnet = "done" => HostsAreTheSubnet
  BY DEF SubnetInv
<1>t. /\ subnet \in {"parse", "list", "done", "failed"}
      /\ prefix.net \in Addresses /\ prefix.bits \in 0..Bits
      /\ ip \in Addresses /\ ips \in Seq(Addresses) /\ Bits \in Nat
      /\ Len(ips) \in Nat
  BY <1>0, BitsAreEnough DEF SubnetTypeOK
<1>1. CASE UNCHANGED subnetVars
  BY <1>1, <1>0 DEF subnetVars, SubnetInv, SubnetTypeOK, HostsAreTheSubnet
<1>2. CASE ParseCIDR
  <2>1. CASE subnet' = "failed" /\ UNCHANGED <<prefix, ip>>
    BY <1>0, <1>2, <2>1 DEF ParseCIDR, SubnetInv, SubnetTypeOK
  <2>2. CASE subnet' = "list"
    <3>1. PICK net \in Addresses, bits \in 0..Bits :
            /\ ValueOf(net) % Size(bits) = 0
            /\ prefix' = [net |-> net, bits |-> bits]
            /\ ip' = net
      BY <1>2, <2>2 DEF ParseCIDR
    <3>2. ips = <<>> /\ ips' = <<>> /\ prefix'.net = net /\ prefix'.bits = bits
      BY <1>0, <1>2, <3>1 DEF ParseCIDR
    <3>3. SubnetTypeOK'
      BY <1>t, <2>2, <3>1, <3>2 DEF SubnetTypeOK
    <3>4. Counting(net, bits, <<>>, net)
      <4> DEFINE f == ValueOf(net)
                 z == Size(bits)
                 W == PowerOfTwo[Bits]
                 none == <<>>
      <4>1. z \in Nat /\ z >= 1 /\ f \in Nat /\ f + z <= W /\ W \in Nat
        <5>1. Bits \in 0..Bits
          BY <1>t
        <5> QED BY <3>1, <5>1, PrefixIsInterval, PowersOfTwo
      <4>2. Len(none) = 0
        OBVIOUS
      <4> HIDE DEF f, z, W, none
      <4>3. f = IF f + Len(none) = W THEN 0 ELSE f + Len(none)
        BY <4>1, <4>2
      <4>4. Len(none) <= z /\ 1..Len(none) = {}
        BY <4>1, <4>2
      <4>5. Counting(net, bits, none, net)
        BY <4>3, <4>4 DEF Counting, f, z, W
      <4> QED BY <4>5 DEF none
    <3> QED BY <2>2, <3>1, <3>2, <3>3, <3>4 DEF SubnetInv
  <2> QED BY <1>2, <2>1, <2>2 DEF ParseCIDR
<1>3. CASE ListIP
  <2>1. /\ subnet = "list" /\ subnet' = "list" /\ prefix' = prefix
        /\ Block(ip, prefix.bits) = Block(prefix.net, prefix.bits)
        /\ ips' = Append(ips, ip) /\ ip' = IncIP(ip)
    BY <1>3 DEF ListIP, InPrefix
  <2>2. ips' \in Seq(Addresses) /\ ip' \in Addresses
    BY <2>1, <1>t, IncIPCounts
  <2>3. SubnetTypeOK'
    BY <2>1, <2>2, <1>t DEF SubnetTypeOK
  <2>4. ASSUME prefix.bits > 0
        PROVE  Counting(prefix.net, prefix.bits, ips', ip')
    <3>1. prefix.bits \in 1..Bits
      BY <1>t, <2>4
    <3> QED BY <3>1, <2>1, <2>4, <1>0, <1>t, CountingGoesOn
  <2> QED BY <2>1, <2>3, <2>4, <1>0 DEF SubnetInv
<1>4. CASE Listed
  <2>1. /\ subnet = "list" /\ subnet' = "done" /\ UNCHANGED <<prefix, ip>>
        /\ Block(ip, prefix.bits) # Block(prefix.net, prefix.bits)
        /\ ips' = IF Len(ips) > 2 THEN SubSeq(ips, 2, Len(ips) - 1) ELSE ips
    BY <1>4 DEF Listed, InPrefix
  <2>2. prefix.bits # 0
    <3> SUFFICES ASSUME prefix.bits = 0 PROVE FALSE
      OBVIOUS
    <3>1. ValueOf(prefix.net) % Size(prefix.bits) = 0
      BY <2>1, <1>0
    <3>2. ValueOf(ip) \in Nat /\ ValueOf(ip) < PowerOfTwo[Bits]
      BY <1>t, IncIPCounts
    <3>3. ValueOf(prefix.net) = 0 /\ Size(prefix.bits) = PowerOfTwo[Bits]
          /\ Size(prefix.bits) \in Nat
      BY <3>1, <1>t, PrefixIsInterval
    <3>4. ValueOf(prefix.net) <= ValueOf(ip)
          /\ ValueOf(ip) < ValueOf(prefix.net) + Size(prefix.bits)
      BY <3>2, <3>3
    <3>5. Block(ip, prefix.bits) = Block(prefix.net, prefix.bits)
      BY <3>1, <3>4, <1>t, PrefixIsInterval
    <3> QED BY <3>5, <2>1
  <2>3. prefix.bits \in 1..Bits /\ prefix.bits > 0
    BY <2>2, <1>t
  <2>4. /\ Counting(prefix.net, prefix.bits, ips, ip)
        /\ ValueOf(prefix.net) % Size(prefix.bits) = 0
    BY <2>1, <2>3, <1>0
  <2>5. Len(ips) = Size(prefix.bits)
    BY <2>1, <2>3, <2>4, <1>t, CountingGoesOn
  <2>6. \A k \in 1..Len(ips) : ValueOf(ips[k]) = ValueOf(prefix.net) + k - 1
    BY <2>4 DEF Counting
  <2>7. ips' \in Seq(Addresses) /\ AreHosts(prefix.net, prefix.bits, ips')
    BY <2>1, <2>3, <2>4, <2>5, <2>6, <1>t, HostsOfList
  <2>8. HostsAreTheSubnet'
    BY <2>1, <2>3, <2>7 DEF HostsAreTheSubnet, AreHosts
  <2>9. SubnetTypeOK'
    BY <2>1, <2>7, <1>t DEF SubnetTypeOK
  <2> QED BY <2>1, <2>4, <2>8, <2>9 DEF SubnetInv
<1> QED BY <1>1, <1>2, <1>3, <1>4 DEF SubnetStep

(* It is an invariant of the enumeration. *)
LEMMA SubnetInvariant == SubnetSpec => []SubnetInv
<1>1. [SubnetStep \/ (Cancel /\ UNCHANGED subnetVars)]_<<subnetVars, ctxDone>>
        => SubnetStep \/ UNCHANGED subnetVars
  OBVIOUS
<1> QED BY <1>1, SubnetStarts, SubnetSteps, PTL DEF SubnetSpec

(* The addresses that discovery probes are the hosts of the prefix, all of   *)
(* them and in order, whatever the width of an address and the prefix: a     *)
(* carry of incIP, the wrap at the last address and the two ends that are cut*)
(* off included (discover.go:139-163).                                       *)
THEOREM HostsAreAlwaysTheSubnet == SubnetSpec => []HostsAreTheSubnet
<1>1. SubnetInv => HostsAreTheSubnet
  <2> SUFFICES ASSUME SubnetInv PROVE HostsAreTheSubnet
    OBVIOUS
  <2>1. /\ prefix.net \in Addresses /\ prefix.bits \in 0..Bits
        /\ subnet \in {"parse", "list", "done", "failed"}
    BY DEF SubnetInv, SubnetTypeOK
  <2>2. CASE subnet = "done"
    BY <2>2 DEF SubnetInv
  <2>3. CASE subnet = "list"
    BY <2>3 DEF SubnetInv, HostsAreTheSubnet, Counting
  <2>4. CASE subnet \in {"parse", "failed"}
    <3>1. ips = <<>> /\ Len(ips) = 0
      BY <2>4 DEF SubnetInv
    <3>2. Size(prefix.bits) \in Nat
      <4>1. Bits - prefix.bits \in 0..Bits
        BY <2>1, BitsAreEnough
      <4> QED BY <4>1, PowersOfTwo DEF Size
    <3> QED BY <2>4, <3>1, <3>2 DEF HostsAreTheSubnet
  <2> QED BY <2>1, <2>2, <2>3, <2>4
<1> QED BY <1>1, SubnetInvariant, PTL

------------------------------------------------------------------------------
(* The TLS check. *)

(* What is left in whole days, for a certificate that expired less than a day*)
(* ago or has not: 30 days or less are 30 days, 31 days or more are not.     *)
LEMMA DaysOfHours ==
  ASSUME NEW h \in Int, h > -DayHours
  PROVE  /\ Days(h) \in Nat
         /\ h <= 30 * DayHours => Days(h) <= 30
         /\ Days(h) <= 30 => h < 31 * DayHours
<1> USE DEF DayHours
<1>1. CASE h >= 0
  BY <1>1, SMT DEF Days
<1>2. CASE h < 0
  <2>1. -h \in 0..23
    BY <1>2
  <2>2. (-h) \div DayHours = 0
    BY <2>1, SMT
  <2> QED BY <1>2, <2>2 DEF Days
<1> QED BY <1>1, <1>2

TlsInv ==
  /\ TlsTypeOK
  /\ tls \in {"dial", "handshake", "measure"} => tlsResult = TlsNoResult
  /\ tls = "measure" => certLeft \in Nat
  /\ tls \in {"report", "done"} =>
       /\ ~tlsResult.expired
       /\ tlsResult.error => ~tlsResult.soon
       /\ ~tlsResult.error => /\ certLeft > -DayHours
                              /\ tlsResult.soon <=> Days(certLeft) <= 30
  /\ tls = "done" => (warned <=> tlsResult.soon)

LEMMA TlsSteps == TlsInv /\ TlsStep => TlsInv'
<1> SUFFICES ASSUME TlsInv, TlsStep PROVE TlsInv'
  OBVIOUS
<1>f. ASSUME tlsResult = TlsNoResult, TlsFails,
             certLeft' = certLeft, certGauge' = certGauge, warned' = warned
      PROVE  TlsInv'
  <2>1. tlsResult' = [error |-> TRUE, days |-> 0, expired |-> FALSE,
                      soon |-> FALSE]
    BY <1>f DEF TlsFails, TlsNoResult
  <2>2. /\ tlsResult' \in [error : BOOLEAN, days : Int, expired : BOOLEAN,
                           soon : BOOLEAN]
        /\ tlsResult'.error /\ ~tlsResult'.expired /\ ~tlsResult'.soon
    BY <2>1
  <2>3. tls' = "report"
    BY <1>f DEF TlsFails
  <2>4. TlsTypeOK'
    BY <1>f, <2>2, <2>3 DEF TlsInv, TlsTypeOK
  <2> QED BY <2>2, <2>3, <2>4 DEF TlsInv
<1>1. CASE TlsDial
  <2>1. tlsResult = TlsNoResult
    BY <1>1 DEF TlsDial, TlsInv
  <2>2. CASE TlsFails
    BY <1>1, <2>1, <2>2, <1>f DEF TlsDial
  <2>3. CASE tls' = "handshake" /\ UNCHANGED tlsResult
    BY <1>1, <2>1, <2>3 DEF TlsDial, TlsInv, TlsTypeOK
  <2> QED BY <1>1, <2>2, <2>3 DEF TlsDial
<1>2. CASE TlsHandshake
  <2>1. tlsResult = TlsNoResult
    BY <1>2 DEF TlsHandshake, TlsInv
  <2>2. CASE TlsFails /\ UNCHANGED certLeft
    BY <1>2, <2>1, <2>2, <1>f DEF TlsHandshake
  <2>3. CASE /\ certLeft' \in HoursLeft
             /\ tls' = "measure" /\ UNCHANGED tlsResult
    BY <1>2, <2>1, <2>3, TlsAssumption
       DEF TlsHandshake, TlsInv, TlsTypeOK
  <2> QED BY <1>2, <2>2, <2>3 DEF TlsHandshake
<1>3. CASE TlsMeasure
  <2>1. PICK delay \in 0..MaxDelay :
          /\ certLeft' = certLeft - delay
          /\ tlsResult' = [error |-> FALSE, days |-> Days(certLeft - delay),
                           expired |-> Days(certLeft - delay) < 0,
                           soon |-> Days(certLeft - delay) \in 0..30]
    BY <1>3 DEF TlsMeasure
  <2>2. certLeft' \in Int /\ certLeft' > -DayHours
    BY <1>3, <2>1, TlsAssumption DEF TlsMeasure, TlsInv, DayHours
  <2>3. Days(certLeft') \in Nat
    BY <2>2, DaysOfHours
  <2>4. /\ tlsResult' \in [error : BOOLEAN, days : Int, expired : BOOLEAN,
                           soon : BOOLEAN]
        /\ ~tlsResult'.error /\ ~tlsResult'.expired
        /\ tlsResult'.soon <=> Days(certLeft') <= 30
    <3>1. /\ ~(Days(certLeft') < 0)
          /\ Days(certLeft') \in 0..30 <=> Days(certLeft') <= 30
      BY <2>3
    <3>2. Days(certLeft') \in Int
      BY <2>3
    <3>3. /\ (Days(certLeft') < 0) \in BOOLEAN
          /\ (Days(certLeft') \in 0..30) \in BOOLEAN
      OBVIOUS
    <3>4. tlsResult' = [error |-> FALSE, days |-> Days(certLeft'),
                        expired |-> Days(certLeft') < 0,
                        soon |-> Days(certLeft') \in 0..30]
      BY <2>1
    <3> QED BY <3>1, <3>2, <3>3, <3>4, Zenon
  <2>5. tls' = "report" /\ UNCHANGED <<certGauge, warned>>
    BY <1>3 DEF TlsMeasure
  <2>6. TlsTypeOK'
    BY <2>2, <2>4, <2>5 DEF TlsInv, TlsTypeOK
  <2>7. (Days(certLeft) <= 30)' <=> Days(certLeft') <= 30
    BY DEF Days, DayHours
  <2>8. (certLeft > -DayHours)' <=> certLeft' > -DayHours
    BY DEF DayHours
  <2> QED BY <2>2, <2>4, <2>5, <2>6, <2>7, <2>8 DEF TlsInv
<1>4. CASE TlsReport
  BY <1>4 DEF TlsReport, TlsInv, TlsTypeOK, Days, DayHours
<1> QED BY <1>1, <1>2, <1>3, <1>4 DEF TlsStep, TlsProceeds

LEMMA TlsInvariant == TlsSpec => []TlsInv
<1>1. TlsInit => TlsInv
  <2> SUFFICES ASSUME TlsInit PROVE TlsInv
    OBVIOUS
  <2>1. tlsResult \in [error : BOOLEAN, days : Int, expired : BOOLEAN,
                       soon : BOOLEAN]
    BY DEF TlsInit, TlsNoResult
  <2>2. tls = "dial" /\ tlsResult = TlsNoResult /\ ~warned
    BY DEF TlsInit
  <2>3. certLeft \in Int /\ certGauge \in Int
    BY DEF TlsInit
  <2>4. warned \in BOOLEAN
    BY Zenon DEF TlsInit
  <2>5. TlsTypeOK
    BY <2>1, <2>2, <2>3, <2>4 DEF TlsTypeOK
  <2> QED BY <2>2, <2>5 DEF TlsInv
<1>2. TlsInv /\ UNCHANGED tlsVars => TlsInv'
  BY DEF TlsInv, TlsTypeOK, tlsVars, Days, DayHours
<1>3. /\ TlsInv
      /\ [TlsStep \/ (Cancel /\ UNCHANGED tlsVars)]_<<tlsVars, ctxDone>>
      => TlsInv'
  BY <1>2, TlsSteps
<1> QED BY <1>1, <1>3, PTL DEF TlsSpec

(* Whatever the certificates and whenever they are measured, one that the    *)
(* check has accepted is warned of at 30 days or less and not at 31 or more, *)
(* and none is called expired (Checker.Run and runTLSCheck).                 *)
THEOREM WarningsAreInTime == TlsSpec => []WarnsInTime
<1>1. TlsInv => WarnsInTime
  <2> SUFFICES ASSUME TlsInv, tls = "done" PROVE WarnsInTime
    BY DEF WarnsInTime
  <2>1. CASE tlsResult.error
    BY <2>1 DEF TlsInv, WarnsInTime
  <2>2. CASE ~tlsResult.error
    <3>1. certLeft \in Int /\ certLeft > -DayHours
      BY <2>2 DEF TlsInv, TlsTypeOK
    <3>2. /\ certLeft <= 30 * DayHours => Days(certLeft) <= 30
          /\ Days(certLeft) <= 30 => certLeft < 31 * DayHours
      BY <3>1, DaysOfHours
    <3> QED BY <2>2, <3>2 DEF TlsInv, WarnsInTime
  <2> QED BY <2>1, <2>2
<1> QED BY TlsInvariant, <1>1, PTL

------------------------------------------------------------------------------
(* The HTTP check. *)

(* A dial inside phase p has called the start of it and not yet the end.     *)
InPhase(r, p) == dialPos[r] = 2 * p - 1

(* What the callbacks of all dials together have made of the two times of a  *)
(* phase: unless a dial is inside it, the last end came after the last start.*)
PhaseInv(p) ==
  /\ \A r \in Requests : dialPos[r] >= 2 * p - 1 => phaseStart[p] > 0
  /\ \/ \E r \in Requests : InPhase(r, p)
     \/ phaseStart[p] = 0 /\ phaseEnd[p] = 0
     \/ 0 < phaseStart[p] /\ phaseStart[p] < phaseEnd[p]

DialTyped ==
  /\ dialPos \in [Requests -> -2..(2 * PhaseCount)]
  /\ stamps \in Nat
  /\ phaseStart \in [Phases -> 0..stamps] /\ phaseEnd \in [Phases -> 0..stamps]

DialInv == DialTyped /\ \A p \in Phases : PhaseInv(p)

(* Only the first request cannot have a connection that it did not dial.     *)
Connected == dialPos[0] = 2 * PhaseCount

HttpInv ==
  /\ DialInv
  /\ http \in {"start", "connect", "answer", "read", "body", "done"}
  /\ via \in 0..(RedirectLimit - 1)
  /\ via > 0 \/ http \in {"answer", "read"} => Connected
  /\ FollowRedirects /\ ~httpResult.error => httpResult.redirects = via
  /\ http \in {"body", "done"} /\ ~httpResult.error /\ ~overlapped =>
       \A p \in Phases : httpResult.times[p] > 0
  /\ DOMAIN httpResult = {"redirects", "error", "times", "body"}

LEMMA PhaseOfCall ==
  ASSUME DialTyped, NEW r \in Requests, DialOut(r)
  PROVE  /\ PhaseOf(r) \in Phases
         /\ PhaseBegins(r) => dialPos[r] = 2 * PhaseOf(r) - 2
         /\ ~PhaseBegins(r) => dialPos[r] = 2 * PhaseOf(r) - 1
<1>1. /\ dialPos[r] \in Int /\ dialPos[r] >= 0
      /\ dialPos[r] <= 2 * PhaseCount - 1 /\ PhaseCount \in Nat
  BY HttpAssumption DEF DialTyped, DialOut
<1> QED BY <1>1, SMT DEF PhaseOf, PhaseBegins, Phases

LEMMA DialStarts == HttpInit => DialInv
<1> SUFFICES ASSUME HttpInit PROVE DialInv
  OBVIOUS
<1>1. DialTyped
  BY HttpAssumption DEF HttpInit, DialTyped, NotDialled
<1>2. ASSUME NEW p \in Phases PROVE PhaseInv(p)
  BY <1>2, HttpAssumption DEF HttpInit, PhaseInv, NotDialled, Phases
<1> QED BY <1>1, <1>2 DEF DialInv

LEMMA CallStarts ==
  ASSUME DialInv, NEW r \in Requests, CallStart(r)
  PROVE  DialInv'
<1> DEFINE q == PhaseOf(r)
<1>1. /\ q \in Phases /\ dialPos[r] = 2 * q - 2
      /\ dialPos[r] \in 0..(2 * PhaseCount - 1)
  BY PhaseOfCall DEF DialInv, CallStart, DialOut
<1>2. /\ stamps' = stamps + 1 /\ phaseEnd' = phaseEnd
      /\ phaseStart' = [phaseStart EXCEPT ![q] = stamps + 1]
      /\ dialPos' = [dialPos EXCEPT ![r] = dialPos[r] + 1]
  BY DEF CallStart, DialInv, DialTyped
<1> HIDE DEF q
<1>3. PhaseCount \in Nat /\ Phases \subseteq Nat
  BY HttpAssumption DEF Phases
<1>4. DialTyped'
  BY <1>1, <1>2, <1>3 DEF DialInv, DialTyped
<1>5. ASSUME NEW p \in Phases PROVE PhaseInv(p)'
  <2>1. CASE p = q
    <3>1. phaseStart'[p] > 0
      BY <1>1, <1>2, <2>1 DEF DialInv, DialTyped
    <3>2. dialPos'[r] = 2 * p - 1
      BY <1>1, <1>2, <1>3, <2>1 DEF DialInv, DialTyped
    <3> QED BY <3>1, <3>2 DEF PhaseInv, InPhase
  <2>2. CASE p # q
    <3>1. phaseStart'[p] = phaseStart[p] /\ phaseEnd'[p] = phaseEnd[p]
      BY <1>1, <1>2, <2>2 DEF DialInv, DialTyped
    <3>2. \A s \in Requests :
            /\ s # r => dialPos'[s] = dialPos[s]
            /\ s = r => /\ dialPos[s] = 2 * q - 2
                        /\ dialPos'[s] = 2 * q - 1
      BY <1>1, <1>2, <1>3 DEF DialInv, DialTyped
    <3>3. PhaseInv(p)
      BY DEF DialInv
    <3>4. \A s \in Requests :
            /\ dialPos'[s] >= 2 * p - 1 => dialPos[s] >= 2 * p - 1
            /\ InPhase(s, p) => dialPos'[s] = 2 * p - 1
      BY <1>1, <1>3, <2>2, <3>2 DEF InPhase, DialInv, DialTyped
    <3> QED BY <3>1, <3>3, <3>4 DEF PhaseInv, InPhase
  <2> QED BY <2>1, <2>2
<1> QED BY <1>4, <1>5 DEF DialInv

LEMMA CallEnds ==
  ASSUME DialInv, NEW r \in Requests, CallEnd(r)
  PROVE  DialInv'
<1> DEFINE q == PhaseOf(r)
<1>1. /\ q \in Phases /\ dialPos[r] = 2 * q - 1
      /\ dialPos[r] \in 0..(2 * PhaseCount - 1)
  BY PhaseOfCall DEF DialInv, CallEnd, DialOut
<1>2. /\ stamps' = stamps + 1 /\ phaseStart' = phaseStart
      /\ phaseEnd' = [phaseEnd EXCEPT ![q] = stamps + 1]
      /\ \E next \in {dialPos[r] + 1, -2} :
           dialPos' = [dialPos EXCEPT ![r] = next]
  BY DEF CallEnd, DialDead
<1> HIDE DEF q
<1>3. PhaseCount \in Nat /\ Phases \subseteq Nat
  BY HttpAssumption DEF Phases
<1>4. DialTyped'
  <2>1. dialPos' \in [Requests -> -2..(2 * PhaseCount)]
    BY <1>1, <1>2, <1>3 DEF DialInv, DialTyped
  <2> QED BY <1>1, <1>2, <2>1 DEF DialInv, DialTyped
<1>5. \A s \in Requests :
        /\ s # r => dialPos'[s] = dialPos[s]
        /\ s = r => /\ dialPos[s] = 2 * q - 1
                    /\ dialPos'[s] \in {2 * q, -2}
  BY <1>1, <1>2, <1>3 DEF DialInv, DialTyped
<1>6. ASSUME NEW p \in Phases PROVE PhaseInv(p)'
  <2>0. PhaseInv(p)
    BY DEF DialInv
  <2>1. \A s \in Requests :
          dialPos'[s] >= 2 * p - 1 => dialPos[s] >= 2 * p - 1
    BY <1>1, <1>3, <1>5 DEF DialInv, DialTyped
  <2>2. CASE p = q
    <3>1. phaseStart'[p] = phaseStart[p] /\ phaseStart[p] > 0
      BY <1>1, <1>2, <2>0, <2>2 DEF PhaseInv
    <3>2. phaseStart[p] < phaseEnd'[p]
      BY <1>1, <1>2, <2>2 DEF DialInv, DialTyped
    <3> QED BY <3>1, <3>2 DEF PhaseInv
  <2>3. CASE p # q
    <3>1. phaseStart'[p] = phaseStart[p] /\ phaseEnd'[p] = phaseEnd[p]
      BY <1>1, <1>2, <2>3 DEF DialInv, DialTyped
    <3>2. \A s \in Requests : InPhase(s, p) => dialPos'[s] = 2 * p - 1
      BY <1>1, <1>3, <1>5, <2>3 DEF InPhase
    <3> QED BY <2>0, <2>1, <3>1, <3>2 DEF PhaseInv, InPhase
  <2> QED BY <2>2, <2>3
<1> QED BY <1>4, <1>6 DEF DialInv

LEMMA DialsStand == DialInv /\ UNCHANGED dialVars => DialInv'
BY DEF DialInv, DialTyped, PhaseInv, InPhase, dialVars

(* The times read when no dial is out are those of phases that have ended.   *)
LEMMA TimesArePositive ==
  ASSUME DialInv, Connected, \A r \in Requests : ~DialOut(r),
         NEW p \in Phases
  PROVE  Elapsed(p) > 0
<1>1. PhaseCount \in Nat /\ p \in 1..PhaseCount /\ 0 \in Requests
  BY HttpAssumption DEF Phases, Requests
<1>2. PhaseInv(p)
  BY DEF DialInv
<1>3. phaseStart[p] > 0
  BY <1>1, <1>2 DEF PhaseInv, Connected
<1>4. \A r \in Requests : ~InPhase(r, p)
  BY <1>1 DEF InPhase, DialOut
<1>5. 0 < phaseStart[p] /\ phaseStart[p] < phaseEnd[p]
  BY <1>2, <1>3, <1>4 DEF PhaseInv
<1>6. phaseStart[p] \in Nat /\ phaseEnd[p] \in Nat
  BY DEF DialInv, DialTyped
<1> QED BY <1>5, <1>6 DEF Elapsed

LEMMA HttpSteps == HttpInv /\ HttpStep => HttpInv'
<1> SUFFICES ASSUME HttpInv, HttpStep PROVE HttpInv'
  OBVIOUS
<1>a. /\ RedirectLimit \in Nat /\ RedirectLimit >= 1
      /\ FollowRedirects \in BOOLEAN /\ 0 \in Requests
      /\ PhaseCount \in Nat /\ PhaseCount >= 1
  BY HttpAssumption DEF Requests
<1>u. UNCHANGED dialVars => DialInv' /\ (Connected => Connected')
  BY DialsStand DEF HttpInv, Connected, dialVars
<1>e. HttpError => /\ http' = "done" /\ httpResult'.error
                   /\ DOMAIN httpResult' = DOMAIN httpResult
  BY DEF HttpError, HttpInv
<1>1. CASE HttpStart
  BY <1>1, <1>a, <1>u, <1>e DEF HttpStart, HttpInv
<1>2. CASE HttpDials
  <2>1. /\ dialPos' = [dialPos EXCEPT ![via] = 0] /\ dialPos[via] = -1
        /\ UNCHANGED <<http, via, stamps, phaseStart, phaseEnd, httpResult,
                       overlapped>>
    BY <1>2 DEF HttpDials, NotDialled
  <2>2. via \in Requests
    BY <1>a DEF HttpInv, Requests
  <2>3. \A s \in Requests :
          /\ s # via => dialPos'[s] = dialPos[s]
          /\ s = via => dialPos[s] = -1 /\ dialPos'[s] = 0
    BY <2>1, <2>2 DEF HttpInv, DialInv, DialTyped
  <2>4. DialTyped'
    BY <2>1, <2>2, <1>a DEF HttpInv, DialInv, DialTyped
  <2>5. ASSUME NEW p \in Phases PROVE PhaseInv(p)'
    <3>1. p \in Nat /\ p >= 1
      BY <1>a DEF Phases
    <3>2. \A s \in Requests :
            /\ dialPos'[s] >= 2 * p - 1 => dialPos[s] >= 2 * p - 1
            /\ InPhase(s, p) => dialPos'[s] = 2 * p - 1
      BY <2>3, <3>1 DEF InPhase
    <3> QED BY <2>1, <3>2 DEF HttpInv, DialInv, PhaseInv, InPhase
  <2>6. Connected => Connected'
    BY <2>3, <1>a DEF Connected
  <2> QED BY <2>1, <2>4, <2>5, <2>6 DEF HttpInv, DialInv
<1>3. CASE HttpConnected
  <2>1. Connected
    BY <1>3 DEF HttpConnected, HttpInv, Connected
  <2> QED BY <1>3, <1>u, <2>1 DEF HttpConnected, HttpInv
<1>4. CASE HttpDialling
  <2>1. PICK r \in Requests : CallStart(r) \/ CallEnd(r)
    BY <1>4 DEF HttpDialling
  <2>2. DialInv'
    BY <2>1, CallStarts, CallEnds DEF HttpInv
  <2>3. Connected => Connected'
    BY <2>1, <1>a DEF CallStart, CallEnd, DialOut, Connected, HttpInv, DialInv,
                     DialTyped
  <2>4. UNCHANGED <<http, via, httpResult, overlapped>>
    BY <2>1 DEF CallStart, CallEnd
  <2> QED BY <2>2, <2>3, <2>4 DEF HttpInv
<1>5. CASE HttpFails
  BY <1>5, <1>u, <1>e DEF HttpFails, HttpInv
<1>6. CASE HttpRedirected
  <2> DEFINE error == CheckRedirect(via + 1) = "error"
  <2>1. /\ httpResult' = [httpResult EXCEPT
             !.redirects = via + 1, !.error = error]
        /\ http = "answer" /\ UNCHANGED dialVars
    BY <1>6 DEF HttpRedirected
  <2>2. /\ httpResult'.redirects = via + 1 /\ httpResult'.error <=> error
        /\ DOMAIN httpResult' = DOMAIN httpResult
    BY <2>1 DEF HttpInv
  <2>3. CASE CheckRedirect(via + 1) = "follow"
    <3>1. via + 1 < RedirectLimit /\ http' = "connect" /\ via' = via + 1
      BY <1>6, <1>a, <2>3 DEF HttpRedirected, CheckRedirect, HttpInv
    <3> QED BY <2>1, <2>2, <3>1, <1>a, <1>u DEF HttpInv
  <2>4. CASE CheckRedirect(via + 1) = "last"
    <3>1. ~FollowRedirects /\ http' = "read" /\ via' = via
      BY <1>6, <2>4 DEF HttpRedirected, CheckRedirect
    <3> QED BY <2>1, <2>2, <3>1, <1>u DEF HttpInv
  <2>5. CASE CheckRedirect(via + 1) = "error"
    <3>1. http' = "done" /\ via' = via
      BY <1>6, <2>5 DEF HttpRedirected
    <3> QED BY <2>1, <2>2, <2>5, <3>1, <1>u DEF HttpInv
  <2> QED BY <2>3, <2>4, <2>5 DEF CheckRedirect
<1>7. CASE HttpAnswered
  BY <1>7, <1>u DEF HttpAnswered, HttpInv
<1>8. CASE HttpTimes
  <2>1. /\ httpResult' = [httpResult EXCEPT
             !.times = [p \in Phases |-> Elapsed(p)]]
        /\ http = "read" /\ http' = "body" /\ UNCHANGED <<via, dialVars>>
        /\ overlapped' <=> \E r \in Requests : DialOut(r)
    BY <1>8 DEF HttpTimes
  <2>2. /\ httpResult'.redirects = httpResult.redirects
        /\ httpResult'.error = httpResult.error
        /\ httpResult'.times = [p \in Phases |-> Elapsed(p)]
        /\ DOMAIN httpResult' = DOMAIN httpResult
    BY <2>1 DEF HttpInv
  <2>3. ~overlapped' => \A p \in Phases : httpResult'.times[p] > 0
    BY <2>1, <2>2, TimesArePositive DEF HttpInv
  <2> QED BY <2>1, <2>2, <2>3, <1>u DEF HttpInv
<1>9. CASE HttpBody
  <2>1. /\ http = "body" /\ http' = "done"
        /\ UNCHANGED <<via, dialVars, overlapped>>
        /\ \E b \in {"part", "whole"} :
             httpResult' = [httpResult EXCEPT !.body = b]
    BY <1>9 DEF HttpBody
  <2>2. /\ httpResult'.redirects = httpResult.redirects
        /\ httpResult'.error = httpResult.error
        /\ httpResult'.times = httpResult.times
        /\ DOMAIN httpResult' = DOMAIN httpResult
    BY <2>1 DEF HttpInv
  <2> QED BY <2>1, <2>2, <1>u DEF HttpInv
<1> QED
  BY <1>1, <1>2, <1>3, <1>4, <1>5, <1>6, <1>7, <1>8, <1>9 DEF HttpStep

(* HttpInv holds in every state of a check.                                  *)
LEMMA HttpInvariant == HttpSpec => []HttpInv
<1>1. HttpInit => HttpInv
  <2> SUFFICES ASSUME HttpInit PROVE HttpInv
    OBVIOUS
  <2>1. DialInv
    BY DialStarts
  <2>2. /\ http = "start" /\ via = 0 /\ httpResult.redirects = 0
        /\ DOMAIN httpResult = {"redirects", "error", "times", "body"}
    BY DEF HttpInit, HttpNoResult
  <2>3. via \in 0..(RedirectLimit - 1)
    BY <2>2, HttpAssumption
  <2> QED BY <2>1, <2>2, <2>3 DEF HttpInv
<1>2. HttpInv /\ UNCHANGED httpVars => HttpInv'
  BY DialsStand DEF HttpInv, httpVars, dialVars, Connected
<1>3. /\ HttpInv
      /\ [HttpStep \/ (Cancel /\ UNCHANGED httpVars)]_<<httpVars, ctxDone>>
      => HttpInv'
  BY <1>2, HttpSteps
<1> QED BY <1>1, <1>3, PTL DEF HttpSpec

(* Whatever the limit, the redirects and the phases: a check without an error*)
(* has followed fewer redirects than the limit and counted them, and unless a*)
(* dial was left behind its times are positive (Checker.Run of httpcheck).   *)
THEOREM HttpReportsAreSane == HttpSpec => []HttpReportIsSane
<1>1. HttpInv => HttpReportIsSane
  BY HttpAssumption DEF HttpInv, HttpReportIsSane
<1> QED BY HttpInvariant, <1>1, PTL

(* The values that a result can have. *)
HttpTypeInv ==
  /\ httpResult.redirects \in Requests /\ httpResult.error \in BOOLEAN
  /\ httpResult.times \in [Phases -> Int]
  /\ httpResult.body \in {"none", "part", "whole"}
  /\ overlapped \in BOOLEAN

(* Each step of the check keeps the values of its result. *)
LEMMA HttpTypesStep ==
  ASSUME HttpTypeInv, HttpInv, HttpStep \/ UNCHANGED httpVars
  PROVE  HttpTypeInv'
<1>t. /\ httpResult.redirects \in Requests /\ httpResult.error \in BOOLEAN
      /\ httpResult.times \in [Phases -> Int]
      /\ httpResult.body \in {"none", "part", "whole"}
      /\ overlapped \in BOOLEAN
      /\ DOMAIN httpResult = {"redirects", "error", "times", "body"}
      /\ via \in 0..(RedirectLimit - 1) /\ RedirectLimit \in Nat
      /\ phaseStart \in [Phases -> Nat] /\ phaseEnd \in [Phases -> Nat]
  <2>1. /\ stamps \in Nat /\ phaseStart \in [Phases -> 0..stamps]
        /\ phaseEnd \in [Phases -> 0..stamps]
    BY DEF HttpInv, DialInv, DialTyped
  <2>2. phaseStart \in [Phases -> Nat] /\ phaseEnd \in [Phases -> Nat]
    BY <2>1
  <2> QED BY <2>2, HttpAssumption DEF HttpTypeInv, HttpInv
<1>1. CASE UNCHANGED <<httpResult, overlapped>>
  BY <1>1 DEF HttpTypeInv
<1>2. CASE HttpError /\ overlapped' = overlapped
  BY <1>t, <1>2 DEF HttpError, HttpTypeInv
<1>3. CASE HttpRedirected
  <2>1. via + 1 \in Requests
    BY <1>t DEF Requests
  <2>2. (CheckRedirect(via + 1) = "error") \in BOOLEAN
    OBVIOUS
  <2> DEFINE e == CheckRedirect(via + 1) = "error"
  <2>3. httpResult' = [httpResult EXCEPT !.redirects = via + 1, !.error = e]
        /\ overlapped' = overlapped
    BY <1>3 DEF HttpRedirected
  <2> HIDE DEF e
  <2> QED BY <1>t, <2>1, <2>2, <2>3 DEF HttpTypeInv, e
<1>4. CASE HttpTimes
  <2>1. \A p \in Phases : Elapsed(p) \in Int
    BY <1>t DEF Elapsed
  <2>2. [p \in Phases |-> Elapsed(p)] \in [Phases -> Int]
    BY <2>1
  <2>3. /\ httpResult' =
             [httpResult EXCEPT !.times = [p \in Phases |-> Elapsed(p)]]
        /\ overlapped' \in BOOLEAN
    BY <1>4 DEF HttpTimes
  <2> QED BY <1>t, <2>2, <2>3 DEF HttpTypeInv
<1>5. CASE HttpBody
  BY <1>t, <1>5 DEF HttpBody, HttpTypeInv
<1>6. CASE HttpDials \/ HttpConnected \/ HttpDialling \/ HttpAnswered
           \/ UNCHANGED httpVars
  BY <1>1, <1>6 DEF HttpDials, HttpConnected, HttpDialling, HttpAnswered,
     CallStart, CallEnd, dialVars, httpVars
<1>7. CASE HttpStart \/ HttpFails
  BY <1>1, <1>2, <1>7 DEF HttpStart, HttpFails
<1> QED BY <1>3, <1>4, <1>5, <1>6, <1>7 DEF HttpStep

(* The values of an HTTP check stay in their ranges. *)
LEMMA HttpTypesHold == HttpSpec => []HttpTypeOK
<1>1. HttpInit => HttpTypeInv
  <2> SUFFICES ASSUME HttpInit PROVE HttpTypeInv
    OBVIOUS
  <2>1. 0 \in Requests /\ [p \in Phases |-> 0] \in [Phases -> Int]
    BY HttpAssumption DEF Requests
  <2>2. httpResult = HttpNoResult /\ overlapped \in BOOLEAN
    BY DEF HttpInit
  <2> QED BY <2>1, <2>2 DEF HttpNoResult, HttpTypeInv
<1>2. /\ HttpTypeInv /\ HttpInv
      /\ [HttpStep \/ (Cancel /\ UNCHANGED httpVars)]_<<httpVars, ctxDone>>
      => HttpTypeInv'
  BY HttpTypesStep
<1>3. HttpTypeInv /\ HttpInv => HttpTypeOK
  <2> SUFFICES ASSUME HttpTypeInv, HttpInv PROVE HttpTypeOK
    OBVIOUS
  <2>1. via \in Requests
    BY HttpAssumption DEF HttpInv, Requests
  <2>2. /\ dialPos \in [Requests -> -2..(2 * PhaseCount)] /\ stamps \in Nat
        /\ phaseStart \in [Phases -> 0..stamps]
        /\ phaseEnd \in [Phases -> 0..stamps]
    BY DEF HttpInv, DialInv, DialTyped
  <2>3. http \in {"start", "connect", "answer", "read", "body", "done"}
    BY DEF HttpInv
  <2> QED BY <2>1, <2>2, <2>3 DEF HttpTypeInv, HttpTypeOK
<1> QED BY <1>1, <1>2, <1>3, HttpInvariant, PTL DEF HttpSpec

------------------------------------------------------------------------------
(* Alerts. *)

(* Send, the goroutine of its mail and what they keep have the values that   *)
(* AlertTypeOK names: in particular the channel done holds one at most       *)
(* (Notifier.Send and sendEmail).                                            *)
THEOREM AlertTypesHold == AlertSpec => []AlertTypeOK
<1>1. AlertInit => AlertTypeOK
  <2> SUFFICES ASSUME AlertInit PROVE AlertTypeOK
    OBVIOUS
  <2>1. mailDone \in Seq(BOOLEAN) /\ Len(mailDone) <= 1
    BY DEF AlertInit
  <2> QED BY <2>1 DEF AlertInit, AlertTypeOK
<1>2. AlertTypeOK /\ [AlertNext]_<<alertVars, ctxDone>> => AlertTypeOK'
  <2> SUFFICES ASSUME AlertTypeOK, [AlertNext]_<<alertVars, ctxDone>>
               PROVE  AlertTypeOK'
    OBVIOUS
  <2> USE DEF AlertTypeOK, mailVars
  <2>1. CASE Start
    BY <2>1 DEF Start
  <2>2. ASSUME NEW s \in {"telegram", "discord"}, Post(s)
        PROVE  AlertTypeOK'
    BY <2>2 DEF Post, Posting, After
  <2>3. ASSUME NEW s \in {"telegram", "discord"},
               NEW took \in BOOLEAN, NEW ok \in BOOLEAN, PostEnds(s, took, ok)
        PROVE  AlertTypeOK'
    <3>1. After[s] \in {"discord", "email"} /\ s \in Services
      BY DEF After, Services
    <3>2. taken' \subseteq Services /\ failures' \subseteq Services
      BY <2>3, <3>1 DEF PostEnds, Called
    <3>3. lastErr' \in BOOLEAN
      BY <2>3 DEF PostEnds, Called
    <3> QED BY <2>3, <3>1, <3>2, <3>3 DEF PostEnds
  <2>4. CASE MailStart
    BY <2>4 DEF MailStart
  <2>5. CASE MailEnds
    BY <2>5 DEF MailEnds, Services
  <2>6. CASE MailOffers
    BY <2>6 DEF MailOffers
  <2>7. CASE SelectMail
    <3>1. mailDone' = <<>>
      BY <2>7 DEF SelectMail
    <3>2. failures' \subseteq Services
      BY <2>7 DEF SelectMail, Called, Services
    <3>3. lastErr' \in BOOLEAN
      BY <2>7 DEF SelectMail, Called
    <3> QED BY <2>7, <3>1, <3>2, <3>3 DEF SelectMail
  <2>8. CASE SelectCancel
    BY <2>8 DEF SelectCancel, Called, Services
  <2>9. CASE UNCHANGED alertVars
    BY <2>9 DEF alertVars
  <2> QED
    BY <2>1, <2>2, <2>3, <2>4, <2>5, <2>6, <2>7, <2>8, <2>9
       DEF AlertNext, Proceed, PostCancelled, PostBreaks, PostAnswered
<1> QED BY <1>1, <1>2, PTL DEF AlertSpec

AlertInv ==
  /\ lastErr \in BOOLEAN /\ (lastErr <=> failures # {})
  /\ failures \subseteq Services /\ \A s \in failures : Configured(s)
  /\ send = "postTelegram" => Configured("telegram")
  /\ send = "postDiscord" => Configured("discord")
  /\ send = "waiting" => Configured("email")
  /\ send \in {"start", "telegram", "postTelegram", "discord",
               "postDiscord", "email", "waiting", "skipped", "done"}
  /\ send \notin {"waiting", "done"} => mailer = "unborn"
  /\ mailSent \in BOOLEAN
  /\ mailDone = <<>> \/ (mailDone = <<mailSent>> /\ mailer = "over")
  /\ mailer \in {"offering", "over"} /\ mailSent => "email" \in taken
  /\ ~lastErr =>
       /\ send \in {"discord", "postDiscord", "email", "waiting", "done"}
            /\ Configured("telegram") => "telegram" \in taken
       /\ send \in {"email", "waiting", "done"}
            /\ Configured("discord") => "discord" \in taken
       /\ send = "done" /\ Configured("email") => "email" \in taken

(* Whichever services are configured and whatever each of them does, Send    *)
(* reports success only of an alert that every configured service has taken, *)
(* and an error only when one of their calls failed (Notifier.Send).         *)
THEOREM OutcomeIsAlwaysTrue == AlertSpec => []OutcomeIsTrue
<1>p. /\ Posting["telegram"] = "postTelegram"
      /\ After["telegram"] = "discord"
      /\ Posting["discord"] = "postDiscord" /\ After["discord"] = "email"
  BY DEF Posting, After
<1>1. AlertInit => AlertInv
  BY DEF AlertInit, AlertInv
<1>2. AlertInv /\ [AlertNext]_<<alertVars, ctxDone>> => AlertInv'
  <2> SUFFICES ASSUME AlertInv, [AlertNext]_<<alertVars, ctxDone>>
               PROVE  AlertInv'
    OBVIOUS
  <2>0. /\ given' = given
        /\ \A s \in Services : Configured(s)' <=> Configured(s)
    <3>1. given' = given
      BY DEF AlertNext, Proceed, Start, MailStart, MailOffers, SelectMail,
         SelectCancel, Post, PostCancelled, PostBreaks, PostAnswered, PostEnds,
         MailEnds, alertVars
    <3> QED BY <3>1 DEF Configured
  <2>s. {"telegram", "discord", "email"} = Services
    BY DEF Services
  <2> USE DEF AlertInv, mailVars
  <2>1. CASE Start
    BY <2>1, <2>0, <2>s DEF Start
  <2>2. CASE Post("telegram")
    BY <2>2, <2>0, <2>s, <1>p DEF Post
  <2>3. CASE Post("discord")
    BY <2>3, <2>0, <2>s, <1>p DEF Post
  <2>4. ASSUME NEW took \in BOOLEAN, NEW ok \in BOOLEAN, ok => took,
               PostEnds("telegram", took, ok)
        PROVE  AlertInv'
    BY <2>4, <2>0, <2>s, <1>p DEF PostEnds, Called
  <2>5. ASSUME NEW took \in BOOLEAN, NEW ok \in BOOLEAN, ok => took,
               PostEnds("discord", took, ok)
        PROVE  AlertInv'
    BY <2>5, <2>0, <2>s, <1>p DEF PostEnds, Called
  <2>6. CASE MailStart
    BY <2>6, <2>0, <2>s DEF MailStart
  <2>7. CASE MailEnds
    <3>1. PICK ok \in BOOLEAN :
            /\ mailSent' = ok
            /\ taken' = taken \union {"email"} \/ (~ok /\ taken' = taken)
      BY <2>7 DEF MailEnds
    <3>2. /\ mailer = "sending" /\ mailer' = "offering" /\ mailDone = <<>>
          /\ UNCHANGED <<send, lastErr, mailDone, failures>>
      BY <2>7 DEF MailEnds
    <3>3. \A s \in Services : s \in taken => s \in taken'
      BY <3>1
    <3> QED BY <3>1, <3>2, <3>3, <2>0, <2>s
  <2>8. CASE MailOffers
    BY <2>8, <2>0, <2>s DEF MailOffers
  <2>9. CASE SelectMail
    <3>1. mailDone = <<mailSent>> /\ mailer = "over" /\ send = "waiting"
      BY <2>9 DEF SelectMail
    <3>2. Head(mailDone) = mailSent /\ Tail(mailDone) = <<>>
      BY <3>1
    <3>3. /\ lastErr' = (lastErr \/ ~mailSent) /\ mailDone' = <<>>
          /\ failures' = IF mailSent THEN failures
                         ELSE failures \union {"email"}
          /\ send' = "done" /\ UNCHANGED <<mailer, mailSent, taken>>
      BY <2>9, <3>2 DEF SelectMail, Called
    <3>4. CASE mailSent
      BY <3>1, <3>3, <3>4, <2>0, <2>s
    <3>5. CASE ~mailSent
      BY <3>1, <3>3, <3>5, <2>0, <2>s
    <3> QED BY <3>4, <3>5
  <2>10. CASE SelectCancel
    BY <2>10, <2>0, <2>s DEF SelectCancel, Called
  <2>11. CASE UNCHANGED alertVars
    BY <2>11, <2>0, <2>s DEF alertVars
  <2>12. CASE \E s \in {"telegram", "discord"} :
                Post(s) \/ PostCancelled(s) \/ PostAnswered(s) \/ PostBreaks(s)
    <3>1. PICK s \in {"telegram", "discord"} :
            Post(s) \/ PostCancelled(s) \/ PostAnswered(s) \/ PostBreaks(s)
      BY <2>12
    <3>2. Post(s) \/ \E took, ok \in BOOLEAN :
                       (ok => took) /\ PostEnds(s, took, ok)
      BY <3>1 DEF PostCancelled, PostBreaks, PostAnswered
    <3> QED BY <3>1, <3>2, <2>2, <2>3, <2>4, <2>5
  <2> QED
    BY <2>1, <2>6, <2>7, <2>8, <2>9, <2>10, <2>11, <2>12
       DEF AlertNext, Proceed, alertVars
<1>3. AlertInv => OutcomeIsTrue
  BY DEF AlertInv, OutcomeIsTrue, Services
<1> QED BY <1>1, <1>2, <1>3, PTL DEF AlertSpec

------------------------------------------------------------------------------
(* The program of RunRoot, which runs one of the commands. *)

(* A command looks at ctx and does not end it. *)
LEMMA TraceLeavesCtx == TraceStep => ctxDone' = ctxDone
BY DEF TraceStep, TraceResolve, TraceListen, TraceSeeCancel, TraceSend,
       TraceSendFails, TraceReadReply, TraceReadStray, TraceTimesOut,
       TraceEnds, TraceHop

LEMMA DnsLeavesCtx == DnsStep => ctxDone' = ctxDone
BY DEF DnsStep, SpawnLookups, LookupsEnd, JudgeRecords, LookUp, AnswerComes,
       LookupFails, LockRecords, StoreValue, UnlockRecords

LEMMA MtrLeavesCtx == MtrStep => ctxDone' = ctxDone
BY DEF MtrStep, MtrResolve, MtrFinish, MtrSeeCancel, MtrFinalize, MtrOpen,
       MtrOpenFails, MtrSend, MtrRead, MtrEndHops, MtrShow, MtrWake

LEMMA TlsLeavesCtx == TlsStep => ctxDone' = ctxDone
BY DEF TlsStep, TlsProceeds, TlsDial, TlsHandshake, TlsMeasure, TlsReport

LEMMA HttpLeavesCtx == HttpStep => ctxDone' = ctxDone
BY DEF HttpStep, HttpStart, HttpDials, HttpConnected, HttpDialling, CallStart,
       CallEnd, HttpFails, HttpRedirected, HttpAnswered, HttpTimes, HttpBody

LEMMA OthersLeaveCtx ==
  TcpStep \/ SubnetStep \/ TcPingStep => ctxDone' = ctxDone
BY DEF TcpStep, TcpRun, TcpGiveUp, TcpDial, TcpWaited, TcpJudge, TcpDialling,
       TcpDialEnds, SubnetStep, ParseCIDR, ListIP, Listed, TcPingStep,
       CloseDone, TcPingGoesOn, Tick, SelectTick, DialEnds, DialFails,
       DialSucceeds, SelectDone, stopVars

(* What a step of the program can be to the commands: a cancel is no step of *)
(* theirs, and a command moves by its own steps only.                        *)
RootMove ==
  /\ ctxDone' = ctxDone \/ (Cancel /\ UNCHANGED subVars)
  /\ TraceStep \/ UNCHANGED traceVars
  /\ DnsStep \/ UNCHANGED dnsVars
  /\ MtrStep \/ UNCHANGED mtrVars
  /\ TlsStep \/ UNCHANGED tlsVars
  /\ HttpStep \/ UNCHANGED httpVars
  /\ TcpStep \/ UNCHANGED tcpVars
  /\ TcPingStep \/ UNCHANGED tcPingVars
  /\ SubnetStep \/ UNCHANGED subnetVars

LEMMA RootSteps == [RootNext]_vars => RootMove
<1> SUFFICES ASSUME [RootNext]_vars PROVE RootMove
  OBVIOUS
<1>1. CASE UNCHANGED <<subVars, ctxDone>>
  BY <1>1 DEF RootMove, subVars
<1>2. CASE RunDns
  BY <1>2, DnsLeavesCtx DEF RunDns, Alone, RootMove
<1>3. CASE RunTraceroute
  BY <1>3, TraceLeavesCtx DEF RunTraceroute, Alone, RootMove
<1>4. CASE RunMTR
  BY <1>4, MtrLeavesCtx DEF RunMTR, Alone, RootMove
<1>5. CASE RunTLSCheck \/ ServerHandshakes
  BY <1>5, TlsLeavesCtx
     DEF RunTLSCheck, ServerHandshakes, TlsStep, Alone, RootMove
<1>6. CASE RunHTTPCheck
  BY <1>6, HttpLeavesCtx DEF RunHTTPCheck, Alone, RootMove
<1>7. CASE RunTCPCheck
  BY <1>7, OthersLeaveCtx DEF RunTCPCheck, Alone, RootMove
<1>8. CASE RunDiscover
  BY <1>8, OthersLeaveCtx DEF RunDiscover, Alone, RootMove
<1>9. CASE TcPingProbes \/ TcPingNotices \/ TcPingStops
  BY <1>9, OthersLeaveCtx
     DEF TcPingProbes, TcPingNotices, TcPingStops, TcPingStep, Alone, RootMove
<1>10. CASE Interrupt
  BY <1>10 DEF Interrupt, RootMove, subVars
<1>11. CASE UNCHANGED vars
  BY <1>11, <1>1 DEF vars
<1>12. CASE \/ ShowVersion \/ LoadConfig \/ Dispatch \/ CommandReturns
            \/ WatchCrashes \/ WriteExport \/ ExportsDone
  <2>1. UNCHANGED <<subVars, ctxDone>>
    BY <1>12 DEF ShowVersion, LoadConfig, Dispatch, CommandReturns,
                 WatchCrashes, WriteExport, ExportsDone
  <2> QED BY <2>1, <1>1
<1> QED
  BY <1>2, <1>3, <1>4, <1>5, <1>6, <1>7, <1>8, <1>9, <1>10, <1>11, <1>12
     DEF RootNext, Program

(* In the program every command behaves as in a run of its own, whichever    *)
(* the others are (runRoot): what is proved of these runs holds of it.       *)
THEOREM CommandsRunAlone ==
  RootSpec => /\ TraceSpec /\ DnsSpec /\ MtrSpec /\ TlsSpec /\ HttpSpec
              /\ TcpSpec /\ TcPingSpec /\ SubnetSpec
<1>1. RootInit => /\ ContextInit /\ TraceInit /\ DnsInit /\ MtrInit /\ TlsInit
                  /\ HttpInit /\ TcpInit /\ TcPingInit /\ SubnetInit
  BY DEF RootInit
<1>2. [RootNext]_vars =>
        /\ [TraceStep \/ (Cancel /\ UNCHANGED traceVars)]_<<traceVars,
                                                              ctxDone>>
        /\ [DnsStep \/ (Cancel /\ UNCHANGED dnsVars)]_<<dnsVars, ctxDone>>
        /\ [MtrStep \/ (Cancel /\ UNCHANGED mtrVars)]_<<mtrVars, ctxDone>>
        /\ [TlsStep \/ (Cancel /\ UNCHANGED tlsVars)]_<<tlsVars, ctxDone>>
        /\ [HttpStep \/ (Cancel /\ UNCHANGED httpVars)]_<<httpVars, ctxDone>>
        /\ [TcpStep \/ (Cancel /\ UNCHANGED tcpVars)]_<<tcpVars, ctxDone>>
        /\ [TcPingStep \/ (Cancel /\ UNCHANGED tcPingVars)]_<<tcPingVars,
                                                                ctxDone>>
        /\ [SubnetStep \/ (Cancel /\ UNCHANGED subnetVars)]_<<subnetVars,
                                                                ctxDone>>
  BY RootSteps DEF RootMove, subVars
<1> QED BY <1>1, <1>2, PTL
        DEF RootSpec, TraceSpec, DnsSpec, MtrSpec, TlsSpec, HttpSpec, TcpSpec,
            TcPingSpec, SubnetSpec

(* The program keeps what its commands are proved to keep.                   *)
THEOREM ProgramKeepsThem ==
  RootSpec => /\ []RouteEndsAtTarget /\ []RouteIsNotTooShort
              /\ []RecordsAreWhole /\ LookupsAreABatch
              /\ []MtrStopsPromptly /\ []HopsAreProbedAlike
              /\ []ReportCoversSamples
              /\ []WarnsInTime /\ []HttpReportIsSane
              /\ []VerdictIsWhole /\ []SummaryIsTrue /\ []HostsAreTheSubnet
BY CommandsRunAlone, RoutesEndAtTarget, RoutesAreNotTooShort,
   RecordsAreAlwaysWhole, LookupsAreAlwaysABatch, MtrStops,
   HopsAreAlwaysProbedAlike, ReportsAlwaysCover, WarningsAreInTime,
   HttpReportsAreSane, VerdictIsAlwaysWhole, SummaryIsAlwaysTrue,
   HostsAreAlwaysTheSubnet, PTL

(* The variables of runRoot itself. *)
RootVarsOK ==
  /\ stage \in {"start", "config", "dispatch", "run", "export", "exit"}
  /\ line.flags \subseteq Flags /\ line.host \in Hosts /\ line.port \in Ports
  /\ command \in Commands
  /\ outputs \in Seq(ToSet(Formats)) /\ Len(outputs) <= Len(Formats)
  /\ exitCode \in -1..2
  /\ failed \in BOOLEAN
  /\ ctxDone \in BOOLEAN

(* One of the cases is taken, the last one at the latest. *)
LEMMA CommandIsOne == CommandOf \in Commands
<1> DEFINE C == Cases
           I == {i \in 1..Len(C) : C[i][1]}
<1>1. Len(C) = 14 /\ C[14][1] /\ \A i \in 1..14 : C[i][2] \in Commands
  BY DEF Cases, Commands
<1>2. CommandOf = C[IF I # {} THEN Min(I) ELSE 0][2]
  BY DEF CommandOf, SelectInSeq
<1> HIDE DEF C
<1>3. 14 \in I /\ I \in SUBSET Nat /\ I \subseteq 1..14
  BY <1>1
<1> HIDE DEF I
<1>4. Min(I) \in I
  BY <1>3, MinIsLeast
<1> QED BY <1>1, <1>2, <1>3, <1>4

(* The formats, as writeExport goes through them. *)
LEMMA FormatsAreSequence ==
  /\ Formats \in Seq(ToSet(Formats))
  /\ Len(Formats) = 3
BY DEF Formats, ToSet

(* A command returns nil or an error, or it panics. *)
LEMMA EndingsAre == Endings \subseteq {"nil", "error", "panic"}
BY DEF Endings

(* Every command line is a start. *)
LEMMA RootVarsStart == RootInit => RootVarsOK
<1> SUFFICES ASSUME RootInit PROVE RootVarsOK
  OBVIOUS
<1>1. line \in CommandLines
  BY DEF RootInit
<1>2. line.host \in Hosts /\ line.port \in Ports
      /\ line.flags \in UNION {kSubset(n, Flags) : n \in 0..MaxFlags}
  BY <1>1 DEF CommandLines
<1>3. line.flags \subseteq Flags
  BY <1>2 DEF kSubset
<1>4. stage = "start" /\ command = "none" /\ outputs = <<>> /\ exitCode = -1
      /\ ~failed /\ failed \in BOOLEAN /\ ctxDone \in BOOLEAN
  BY DEF RootInit, ContextInit
<1>5. command \in Commands
  BY <1>4 DEF Commands
<1>6. outputs \in Seq(ToSet(Formats)) /\ Len(outputs) <= Len(Formats)
  BY <1>4, FormatsAreSequence
<1> QED BY <1>2, <1>3, <1>4, <1>5, <1>6 DEF RootVarsOK

(* Each step of runRoot keeps them. *)
LEMMA RootVarsSteps == RootVarsOK /\ [RootNext]_vars => RootVarsOK'
<1> SUFFICES ASSUME RootVarsOK, [RootNext]_vars PROVE RootVarsOK'
  OBVIOUS
<1>t. /\ stage \in {"start", "config", "dispatch", "run", "export", "exit"}
      /\ line.flags \subseteq Flags /\ line.host \in Hosts
      /\ line.port \in Ports /\ command \in Commands
      /\ outputs \in Seq(ToSet(Formats)) /\ Len(outputs) <= Len(Formats)
      /\ exitCode \in -1..2 /\ failed \in BOOLEAN /\ ctxDone \in BOOLEAN
  BY DEF RootVarsOK
<1>1. CASE UNCHANGED <<rootVars, ctxDone>>
  BY <1>1, <1>t DEF rootVars, RootVarsOK
<1>2. CASE ShowVersion \/ WatchCrashes \/ ExportsDone
  <2>1. /\ stage' = "exit" /\ exitCode' \in 0..2
        /\ UNCHANGED <<line, command, outputs, failed, ctxDone>>
    BY <1>2 DEF ShowVersion, WatchCrashes, ExportsDone, Leave
  <2> QED BY <2>1, <1>t DEF RootVarsOK
<1>3. CASE LoadConfig
  <2>1. /\ stage' = "dispatch" /\ failed' \in BOOLEAN
        /\ UNCHANGED <<line, command, outputs, exitCode, ctxDone>>
    BY <1>3 DEF LoadConfig
  <2> QED BY <2>1, <1>t DEF RootVarsOK
<1>4. CASE Dispatch
  <2>1. /\ stage' = "run" /\ line' = NoLine /\ command' = CommandOf
        /\ outputs' \in {Keep(Formats, line.flags), <<>>}
        /\ UNCHANGED <<exitCode, failed, ctxDone>>
    BY <1>4 DEF Dispatch
  <2>2. line'.flags \subseteq Flags /\ line'.host \in Hosts
        /\ line'.port \in Ports
    BY <2>1 DEF NoLine, Hosts, Ports
  <2>3. outputs' \in Seq(ToSet(Formats)) /\ Len(outputs') <= Len(Formats)
    <3> DEFINE F == ToSet(Formats)
               S == line.flags
               f == Formats
               k == Keep(f, S)
    <3>1. f \in Seq(F) /\ Len(f) = 3
      BY FormatsAreSequence
    <3> HIDE DEF F, S, f
    <3>2. k \in Seq(F \cap S) /\ Len(k) <= Len(f)
      BY <3>1, KeepKeeps
    <3> HIDE DEF k
    <3>3. k \in Seq(F)
      BY <3>2, SeqMonotonic
    <3>4. <<>> \in Seq(F) /\ Len(<<>>) <= Len(f)
      BY <3>1
    <3>5. outputs' = k \/ outputs' = <<>>
      BY <2>1 DEF k, f, S
    <3>6. outputs' \in Seq(F) /\ Len(outputs') <= Len(f)
      BY <3>2, <3>3, <3>4, <3>5
    <3> QED BY <3>6 DEF F, f
  <2> QED BY <2>1, <2>2, <2>3, <1>t, CommandIsOne DEF RootVarsOK
<1>5. CASE CommandReturns
  <2>1. /\ stage' \in {"export", "exit"} /\ exitCode' \in {exitCode, 0, 1, 2}
        /\ UNCHANGED <<line, command, outputs, ctxDone>>
    <3>1. PICK ending \in Endings :
            CASE ending = "nil" /\ command \in Exports ->
                   stage' = "export" /\ UNCHANGED exitCode
              [] ending = "nil" /\ command \notin Exports -> Leave(0)
              [] ending = "error" -> Leave(1)
              [] ending = "panic" -> Leave(2)
      BY <1>5 DEF CommandReturns
    <3>2. ending \in {"nil", "error", "panic"}
      BY EndingsAre
    <3> QED BY <1>5, <3>1, <3>2 DEF CommandReturns, Leave
  <2>2. failed' \in BOOLEAN
    BY <1>5 DEF CommandReturns
  <2> QED BY <2>1, <2>2, <1>t DEF RootVarsOK
<1>6. CASE WriteExport
  <2>1. /\ failed' \in BOOLEAN /\ outputs # <<>> /\ outputs' = Tail(outputs)
        /\ UNCHANGED <<stage, line, command, exitCode, ctxDone>>
    BY <1>6, <1>t DEF WriteExport
  <2>2. outputs' \in Seq(ToSet(Formats)) /\ Len(outputs') <= Len(Formats)
    BY <2>1, <1>t, FormatsAreSequence
  <2> QED BY <2>1, <2>2, <1>t DEF RootVarsOK
<1>7. CASE Interrupt
  <2>1. UNCHANGED rootVars /\ ctxDone' = TRUE
    BY <1>7 DEF Interrupt, Cancel
  <2> QED BY <2>1, <1>t DEF rootVars, RootVarsOK
<1>8. CASE \/ RunDns \/ RunTraceroute \/ RunMTR \/ RunTLSCheck
           \/ RunHTTPCheck \/ RunTCPCheck \/ RunDiscover \/ TcPingProbes
           \/ TcPingNotices \/ TcPingStops \/ ServerHandshakes
  <2>1. UNCHANGED rootVars
    BY <1>8 DEF RunDns, RunTraceroute, RunMTR, RunTLSCheck, RunHTTPCheck,
       RunTCPCheck, RunDiscover, TcPingProbes, TcPingNotices, TcPingStops,
       ServerHandshakes, Alone
  <2>2. ctxDone' \in BOOLEAN
    BY <1>8, <1>t, DnsLeavesCtx, TraceLeavesCtx, MtrLeavesCtx, TlsLeavesCtx,
       HttpLeavesCtx, OthersLeaveCtx
       DEF RunDns, RunTraceroute, RunMTR, RunTLSCheck, RunHTTPCheck,
           RunTCPCheck, RunDiscover, TcPingProbes, TcPingNotices,
           TcPingStops, TcPingStep, ServerHandshakes, TlsStep
  <2> QED BY <2>1, <2>2, <1>t DEF rootVars, RootVarsOK
<1>9. CASE UNCHANGED vars
  BY <1>1, <1>9 DEF vars
<1> QED
  BY <1>2, <1>3, <1>4, <1>5, <1>6, <1>7, <1>8, <1>9 DEF RootNext, Program

(* The program and the commands in it keep the values that their variables   *)
(* are declared with, for any command line: among others, one command runs,  *)
(* and its exit code is 0, 1 or 2 (runRoot and main).                        *)
THEOREM RootTypesHold == RootSpec => []RootTypeOK
<1>1. /\ TcpInv => TcpTypeOK
      /\ TcPingInv => TcPingTypeOK
      /\ TraceInv => TraceTypeOK
      /\ TlsInv => TlsTypeOK
      /\ SubnetInv => SubnetTypeOK
  BY DEF TcpInv, TcPingInv, TraceInv, TlsInv, SubnetInv
<1>2. /\ RootVarsOK /\ TcpTypeOK /\ TcPingTypeOK /\ MtrTypeOK /\ DnsTypeOK
      /\ TraceTypeOK /\ HttpTypeOK /\ TlsTypeOK /\ SubnetTypeOK
      => RootTypeOK
  BY DEF RootVarsOK, RootTypeOK
<1>3. RootSpec => []RootVarsOK
  BY RootVarsStart, RootVarsSteps, PTL DEF RootSpec
<1>4. TcpSpec => []TcpInv
  BY TcpStarts, TcpSteps, PTL DEF TcpSpec
<1>5. TcPingSpec => []TcPingInv
  BY TcPingStarts, TcPingSteps, PTL DEF TcPingSpec
<1> QED
  BY <1>1, <1>2, <1>3, <1>4, <1>5, CommandsRunAlone, MtrTypesHold,
     DnsTypesHold, TraceInvariant, HttpTypesHold, TlsInvariant,
     SubnetInvariant, PTL

=============================================================================
