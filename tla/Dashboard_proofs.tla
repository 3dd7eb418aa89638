--------------------------- MODULE Dashboard_proofs ---------------------------
(***************************************************************************)
(* The bounded list of results and the pages read from it, for any number  *)
(* of requests and readers and any size of the list and of a page.         *)
(***************************************************************************)
EXTENDS Dashboard, TLAPS

(* The places of the code that hold the write lock. *)
HoldsLock(r) == pc[r] \in {"append", "trim"}

(* The results kept are the last ones stored, and as many as fit; one more   *)
(* between the append and the trim.                                          *)
ListInv ==
  /\ pc \in [Requests -> {"new", "check", "lock", "append", "trim", "respond",
                          "done"}]
  /\ type \in [Requests -> Types \union {"none"}]
  /\ writer \subseteq Requests /\ alive \in BOOLEAN
  /\ results \in Seq(Requests) /\ stored \in Seq(Requests)
  /\ \A r \in Requests : HoldsLock(r) <=> r \in writer
  /\ \A r, q \in writer : r = q
  /\ Len(results) <= Len(stored)
  /\ \A k \in 1..Len(results) :
       results[k] = stored[Len(stored) - Len(results) + k]
  /\ Len(stored) > Len(results) => Len(results) >= MaxResults
  /\ (\A r \in Requests : pc[r] # "trim") => Len(results) <= MaxResults
  /\ Len(results) <= MaxResults + 1

(* The newest k results, newest first. *)
Rows(p, n) == \A k \in 1..Len(p) : p[k] = stored[n - k + 1]

PagesInv ==
  /\ rc \in [Readers -> {"new", "lock", "read", "done"}]
  /\ page \in [Readers -> Seq(Requests)]
  /\ seenFrom \in [Readers -> Nat] /\ readers \subseteq Readers
  /\ writer # {} => readers = {}
  /\ \A h \in Readers :
       /\ Len(page[h]) <= PageSize
       /\ seenFrom[h] <= Len(stored)
       /\ rc[h] \in {"new", "lock"} => page[h] = <<>>
       /\ rc[h] = "read" =>
            /\ h \in readers
            /\ Len(page[h]) <= Len(results)
            /\ Rows(page[h], Len(stored))
       /\ rc[h] = "done" =>
            \E n \in seenFrom[h]..Len(stored) :
              /\ Rows(page[h], n)
              /\ Len(page[h]) <= n /\ Len(page[h]) <= MaxResults
              /\ Len(page[h]) \in {n, PageSize, MaxResults}

DashboardInv == ListInv /\ PagesInv

LEMMA DashboardStart == Init => DashboardInv
<1> SUFFICES ASSUME Init PROVE DashboardInv
  OBVIOUS
<1>1. /\ results \in Seq(Requests) /\ stored \in Seq(Requests)
      /\ Len(results) = 0 /\ Len(stored) = 0
      /\ MaxResults \in Nat /\ PageSize \in Nat /\ 1..0 = {}
  BY DashboardAssumption DEF Init
<1>2. ListInv
  BY <1>1 DEF Init, ListInv, HoldsLock
<1>3. \A h \in Readers : page[h] = <<>> /\ rc[h] = "new" /\ seenFrom[h] = 0
                         /\ Len(page[h]) = 0
  BY DEF Init
<1>4. /\ page \in [Readers -> Seq(Requests)] /\ seenFrom \in [Readers -> Nat]
      /\ rc \in [Readers -> {"new", "lock", "read", "done"}]
      /\ writer = {} /\ readers = {}
  BY DEF Init
<1>5. PagesInv
  BY <1>1, <1>3, <1>4 DEF PagesInv
<1> QED BY <1>2, <1>5 DEF DashboardInv

(* A step of a request that leaves the lock and the lists alone.             *)
LEMMA ListStands ==
  ASSUME ListInv, UNCHANGED <<results, writer, stored, alive>>,
         type' \in [Requests -> Types \union {"none"}],
         NEW r \in Requests, ~HoldsLock(r),
         NEW c \in {"check", "lock", "respond", "done"},
         pc' = [pc EXCEPT ![r] = c]
  PROVE  ListInv'
<1>1. /\ pc' \in [Requests -> {"new", "check", "lock", "append", "trim",
                               "respond", "done"}]
      /\ \A q \in Requests : HoldsLock(q)' <=> HoldsLock(q)
      /\ \A q \in Requests : pc'[q] = "trim" <=> pc[q] = "trim"
  BY DEF ListInv, HoldsLock
<1> QED BY <1>1 DEF ListInv

LEMMA ListSteps == ASSUME ListInv, [Next]_vars PROVE ListInv'
<1>n. /\ Len(results) \in Nat /\ Len(stored) \in Nat /\ MaxResults \in Nat
      /\ MaxResults > 0
  BY DashboardAssumption DEF ListInv
<1>t. type \in [Requests -> Types \union {"none"}]
  BY DEF ListInv
<1>1. ASSUME NEW r \in Requests, Refuse(r) \/ RunCheck(r) \/ Respond(r)
      PROVE  ListInv'
  BY <1>1, <1>t, ListStands DEF Refuse, RunCheck, Respond, HoldsLock
<1>2. ASSUME NEW r \in Requests, Arrive(r) PROVE ListInv'
  <2>1. type' \in [Requests -> Types \union {"none"}]
    BY <1>2, <1>t DEF Arrive
  <2> QED BY <1>2, <2>1, ListStands DEF Arrive, HoldsLock
<1>3. ASSUME NEW r \in Requests, Lock(r) PROVE ListInv'
  <2>1. /\ pc' \in [Requests -> {"new", "check", "lock", "append", "trim",
                                 "respond", "done"}]
        /\ writer = {} /\ writer' = {r} /\ pc[r] = "lock"
        /\ UNCHANGED <<type, results, stored, alive>>
        /\ \A q \in Requests : pc'[q] = IF q = r THEN "append" ELSE pc[q]
    BY <1>3 DEF Lock, CanLock, ListInv
  <2>2. \A q \in Requests : HoldsLock(q)' <=> q \in writer'
    BY <2>1 DEF HoldsLock, ListInv
  <2>3. \A q \in Requests : pc[q] # "trim" /\ pc'[q] # "trim"
    BY <2>1 DEF HoldsLock, ListInv
  <2> QED BY <2>1, <2>2, <2>3 DEF ListInv
<1>4. ASSUME NEW r \in Requests, AppendResult(r) PROVE ListInv'
  <2>1. /\ pc' \in [Requests -> {"new", "check", "lock", "append", "trim",
                                 "respond", "done"}]
        /\ pc[r] = "append" /\ UNCHANGED <<type, writer, alive>>
        /\ results' = Append(results, r) /\ stored' = Append(stored, r)
        /\ \A q \in Requests : pc'[q] = IF q = r THEN "trim" ELSE pc[q]
    BY <1>4 DEF AppendResult, ListInv
  <2>2. \A q \in Requests : HoldsLock(q)' <=> q \in writer'
    BY <2>1 DEF HoldsLock, ListInv
  <2>3. \A q \in Requests : pc[q] # "trim"
    BY <2>1 DEF HoldsLock, ListInv
  <2>4. /\ results' \in Seq(Requests) /\ stored' \in Seq(Requests)
        /\ Len(results') = Len(results) + 1 /\ Len(stored') = Len(stored) + 1
        /\ \A k \in 1..Len(results) : results'[k] = results[k]
        /\ \A k \in 1..Len(stored) : stored'[k] = stored[k]
        /\ results'[Len(results) + 1] = r /\ stored'[Len(stored) + 1] = r
    BY <2>1 DEF ListInv
  <2>5. ASSUME NEW k \in 1..Len(results')
        PROVE  results'[k] = stored'[Len(stored') - Len(results') + k]
    <3>1. CASE k \in 1..Len(results)
      <4>1. /\ Len(stored') - Len(results') + k
                = Len(stored) - Len(results) + k
            /\ Len(stored) - Len(results) + k \in 1..Len(stored)
        BY <3>1, <2>4, <1>n DEF ListInv
      <4> QED BY <4>1, <3>1, <2>4 DEF ListInv
    <3>2. CASE k = Len(results) + 1
      <4>1. Len(stored') - Len(results') + k = Len(stored) + 1
        BY <3>2, <2>4, <1>n
      <4> QED BY <4>1, <3>2, <2>4
    <3> QED BY <3>1, <3>2, <2>4, <1>n
  <2>6. /\ Len(results') <= Len(stored') /\ Len(results') <= MaxResults + 1
        /\ Len(stored') > Len(results') => Len(results') >= MaxResults
    BY <2>3, <2>4, <1>n DEF ListInv
  <2>7. ~ \A q \in Requests : pc'[q] # "trim"
    BY <2>1
  <2> QED BY <2>1, <2>2, <2>4, <2>5, <2>6, <2>7 DEF ListInv
<1>5. ASSUME NEW r \in Requests, Trim(r) PROVE ListInv'
  <2>1. /\ pc' \in [Requests -> {"new", "check", "lock", "append", "trim",
                                 "respond", "done"}]
        /\ pc[r] = "trim" /\ writer' = {} /\ results' = Trimmed
        /\ UNCHANGED <<type, stored, alive>>
        /\ \A q \in Requests : pc'[q] = IF q = r THEN "respond" ELSE pc[q]
    BY <1>5 DEF Trim, ListInv
  <2>2. \A q \in Requests : ~HoldsLock(q)'
    BY <2>1 DEF HoldsLock, ListInv
  <2>3. /\ results' \in Seq(Requests) /\ Len(results') <= MaxResults
        /\ Len(results') <= Len(stored)
        /\ Len(stored) > Len(results') => Len(results') >= MaxResults
        /\ \A k \in 1..Len(results') :
             results'[k] = stored[Len(stored) - Len(results') + k]
    <3>1. CASE Len(results) <= MaxResults
      <4>1. results' = results
        BY <3>1, <2>1, <1>n DEF Trimmed
      <4> QED BY <4>1, <3>1, <2>1 DEF ListInv
    <3>2. CASE Len(results) = MaxResults + 1
      <4>1. results' = SubSeq(results, 2, MaxResults + 1)
        <5>1. Len(results) > MaxResults /\ Len(results) - MaxResults + 1 = 2
          BY <3>2, <1>n
        <5> QED BY <5>1, <3>2, <2>1 DEF Trimmed
      <4>2. /\ results' \in Seq(Requests) /\ Len(results') = MaxResults
            /\ \A k \in 1..MaxResults : results'[k] = results[k + 1]
        BY <4>1, <3>2, <1>n DEF ListInv
      <4>3. ASSUME NEW k \in 1..MaxResults
            PROVE  results'[k] = stored[Len(stored) - MaxResults + k]
        <5>1. /\ k + 1 \in 1..Len(results)
              /\ Len(stored) - Len(results) + (k + 1)
                   = Len(stored) - MaxResults + k
          BY <3>2, <1>n
        <5>2. results[k + 1] = stored[Len(stored) - Len(results) + (k + 1)]
          BY <5>1 DEF ListInv
        <5> QED BY <5>1, <5>2, <4>2
      <4>4. MaxResults <= Len(stored) /\ Len(results') >= MaxResults
        BY <3>2, <4>2, <1>n DEF ListInv
      <4>5. \A k \in 1..Len(results') :
              results'[k] = stored[Len(stored) - Len(results') + k]
        BY <4>2, <4>3
      <4> QED BY <4>2, <4>4, <4>5, <1>n
    <3> QED BY <3>1, <3>2, <1>n DEF ListInv
  <2>4. Len(results') <= MaxResults + 1
    BY <2>3, <1>n
  <2> QED BY <2>1, <2>2, <2>3, <2>4 DEF ListInv
<1>6. CASE Crash
  <2>1. UNCHANGED <<pc, type, results, writer, stored>> /\ alive' \in BOOLEAN
    BY <1>6 DEF Crash, reqVars
  <2> QED BY <2>1 DEF ListInv, HoldsLock
<1>7. CASE UNCHANGED <<reqVars, alive>>
  <2>1. UNCHANGED <<pc, type, results, writer, stored, alive>>
    BY <1>7 DEF reqVars
  <2> QED BY <2>1 DEF ListInv, HoldsLock
<1>8. ASSUME NEW h \in Readers, ArriveHistory(h) \/ History(h) PROVE ListInv'
  BY <1>7, <1>8 DEF ArriveHistory, History, RLock, Row, Finish
<1> QED
  BY <1>1, <1>2, <1>3, <1>4, <1>5, <1>6, <1>7, <1>8
     DEF Next, Request, Quiet, vars

(* A page that was true of the results stored stays so while more are stored.*)
LEMMA PagesStand ==
  ASSUME DashboardInv, NEW r \in Requests,
         UNCHANGED histVars,
         \/ UNCHANGED stored
         \/ readers = {} /\ stored' = Append(stored, r),
         readers # {} => UNCHANGED results,
         writer' # {} => readers = {}
  PROVE  PagesInv'
<1>1. UNCHANGED <<rc, page, readers, seenFrom>>
  BY DEF histVars
<1>2. /\ Len(stored) \in Nat /\ Len(stored') \in Nat
      /\ Len(stored) <= Len(stored')
      /\ \A k \in 1..Len(stored) : stored'[k] = stored[k]
      /\ readers # {} => stored' = stored
  BY DEF DashboardInv, ListInv
<1>3. \A h \in Readers : Len(page[h]) \in Nat
  BY DEF DashboardInv, PagesInv
<1>4. ASSUME NEW h \in Readers, NEW n \in seenFrom[h]..Len(stored),
             Rows(page[h], n), Len(page[h]) <= n
      PROVE  n \in seenFrom'[h]..Len(stored') /\ Rows(page[h], n)'
  <2>1. n \in Nat /\ n <= Len(stored) /\ n \in seenFrom'[h]..Len(stored')
    BY <1>1, <1>2, <1>4 DEF DashboardInv, PagesInv
  <2>2. \A k \in 1..Len(page[h]) : n - k + 1 \in 1..Len(stored)
    BY <2>1, <1>2, <1>3, <1>4
  <2> QED BY <2>1, <2>2, <1>1, <1>2, <1>4 DEF Rows
<1>5. ASSUME NEW h \in Readers, rc[h] = "read"
      PROVE  /\ h \in readers' /\ Len(page'[h]) <= Len(results')
             /\ Rows(page[h], Len(stored))'
  <2>1. h \in readers /\ readers # {}
    BY <1>5 DEF DashboardInv, PagesInv
  <2>2. UNCHANGED <<results, stored>>
    BY <2>1, <1>2
  <2> QED BY <1>1, <1>5, <2>1, <2>2 DEF DashboardInv, PagesInv, Rows
<1>6. \A h \in Readers : seenFrom'[h] <= Len(stored')
  BY <1>1, <1>2 DEF DashboardInv, PagesInv
<1>7. ASSUME NEW h \in Readers, rc[h] = "done"
      PROVE  \E n \in seenFrom'[h]..Len(stored') :
              /\ Rows(page[h], n)'
              /\ Len(page'[h]) <= n /\ Len(page'[h]) <= MaxResults
              /\ Len(page'[h]) \in {n, PageSize, MaxResults}
  <2>1. PICK n \in seenFrom[h]..Len(stored) :
              /\ Rows(page[h], n)
              /\ Len(page[h]) <= n /\ Len(page[h]) <= MaxResults
              /\ Len(page[h]) \in {n, PageSize, MaxResults}
    BY <1>7 DEF DashboardInv, PagesInv
  <2> QED BY <2>1, <1>1, <1>4
<1> QED
  BY <1>1, <1>5, <1>6, <1>7 DEF DashboardInv, PagesInv

LEMMA PageSteps == ASSUME DashboardInv, [Next]_vars PROVE PagesInv'
<1>n. /\ Len(results) \in Nat /\ Len(stored) \in Nat /\ MaxResults \in Nat
      /\ PageSize \in Nat /\ \A h \in Readers : Len(page[h]) \in Nat
  BY DashboardAssumption DEF DashboardInv, ListInv, PagesInv
<1>w. \A r \in Requests : HoldsLock(r) => readers = {}
  BY DEF DashboardInv, ListInv, PagesInv
<1>1. ASSUME NEW r \in Requests, Refuse(r) \/ Request(r) PROVE PagesInv'
  <2>1. UNCHANGED histVars
    BY <1>1 DEF Refuse, Request, Arrive, RunCheck, Lock, AppendResult, Trim,
       Respond
  <2>2. CASE Lock(r)
    <3>1. readers = {} /\ UNCHANGED <<results, stored>>
      BY <2>2 DEF Lock, CanLock
    <3> QED BY <2>1, <3>1, PagesStand
  <2>3. CASE AppendResult(r) \/ Trim(r)
    <3>1. readers = {}
      BY <2>3, <1>w DEF AppendResult, Trim, HoldsLock
    <3>2. UNCHANGED stored \/ stored' = Append(stored, r)
      BY <2>3 DEF AppendResult, Trim
    <3> QED BY <2>1, <3>1, <3>2, PagesStand
  <2>4. CASE Refuse(r) \/ Arrive(r) \/ RunCheck(r) \/ Respond(r)
    <3>1. UNCHANGED <<results, stored, writer>>
      BY <2>4 DEF Refuse, Arrive, RunCheck, Respond
    <3>2. writer' # {} => readers = {}
      BY <3>1 DEF DashboardInv, PagesInv
    <3> QED BY <2>1, <3>1, <3>2, PagesStand
  <2> QED BY <1>1, <2>2, <2>3, <2>4 DEF Request
<1>2. CASE UNCHANGED <<reqVars, histVars>>
  <2>1. UNCHANGED <<results, writer, stored, rc, page, readers, seenFrom>>
    BY <1>2 DEF reqVars, histVars
  <2> QED BY <2>1 DEF DashboardInv, PagesInv, Rows
<1>3. ASSUME NEW h \in Readers, ArriveHistory(h) PROVE PagesInv'
  <2>1. UNCHANGED <<results, writer, stored, page, readers>> /\ rc[h] = "new"
        /\ rc' = [rc EXCEPT ![h] = "lock"]
        /\ seenFrom' = [seenFrom EXCEPT ![h] = Len(stored)]
    BY <1>3 DEF ArriveHistory, reqVars
  <2> QED BY <2>1, <1>n DEF DashboardInv, PagesInv, Rows
<1>4. ASSUME NEW h \in Readers, RLock(h) PROVE PagesInv'
  <2>1. UNCHANGED <<results, writer, stored, page, seenFrom>> /\ rc[h] = "lock"
        /\ rc' = [rc EXCEPT ![h] = "read"] /\ readers' = readers \union {h}
        /\ writer = {}
    BY <1>4 DEF RLock, CanRLock, reqVars
  <2>2. Len(page[h]) = 0 /\ 1..Len(page[h]) = {}
    BY <2>1 DEF DashboardInv, PagesInv
  <2> QED BY <2>1, <2>2, <1>n DEF DashboardInv, PagesInv, Rows
<1>5. ASSUME NEW h \in Readers, Row(h) PROVE PagesInv'
  <2>1. /\ UNCHANGED <<results, writer, stored, rc, readers, seenFrom>>
        /\ rc[h] = "read" /\ Len(page[h]) < PageSize
        /\ Len(page[h]) < Len(results)
        /\ page' = [page EXCEPT
                      ![h] = Append(@, results[Len(results) - Len(@)])]
    BY <1>5 DEF Row, MoreRows, reqVars
  <2> DEFINE next == results[Len(results) - Len(page[h])]
  <2>2. /\ next \in Requests
        /\ next = stored[Len(stored) - Len(page[h])]
    <3>1. Len(results) - Len(page[h]) \in 1..Len(results)
      BY <2>1, <1>n
    <3>2. Len(stored) - Len(results) + (Len(results) - Len(page[h]))
            = Len(stored) - Len(page[h])
      BY <1>n
    <3>3. /\ next \in Requests
          /\ next = stored[Len(stored) - Len(results)
                             + (Len(results) - Len(page[h]))]
      <4>1. PICK k \in 1..Len(results) : k = Len(results) - Len(page[h])
        BY <3>1
      <4>2. results[k] \in Requests
            /\ results[k] = stored[Len(stored) - Len(results) + k]
        <5>1. /\ results \in Seq(Requests)
              /\ \A j \in 1..Len(results) :
                   results[j] = stored[Len(stored) - Len(results) + j]
          BY DEF DashboardInv, ListInv
        <5>2. k \in 1..Len(results)
          BY <4>1
        <5>3. results[k] \in Requests
          BY <5>1, <5>2
        <5>4. results[k] = stored[Len(stored) - Len(results) + k]
          BY <5>1, <5>2
        <5> QED BY <5>3, <5>4
      <4>3. next = results[k]
        BY <4>1
      <4> HIDE DEF next
      <4> QED BY <4>1, <4>2, <4>3, <1>n
    <3> QED BY <3>2, <3>3
  <2>3. /\ page' \in [Readers -> Seq(Requests)]
        /\ page'[h] = Append(page[h], next)
        /\ \A g \in Readers \ {h} : page'[g] = page[g]
    BY <2>1, <2>2 DEF DashboardInv, PagesInv
  <2> HIDE DEF next
  <2>4. /\ Len(page'[h]) = Len(page[h]) + 1
        /\ \A k \in 1..Len(page[h]) : page'[h][k] = page[h][k]
        /\ page'[h][Len(page[h]) + 1] = next
    BY <2>2, <2>3 DEF DashboardInv, PagesInv
  <2>5. \A k \in 1..Len(page'[h]) : page'[h][k] = stored[Len(stored) - k + 1]
    <3>1. \A k \in 1..Len(page[h]) : page[h][k] = stored[Len(stored) - k + 1]
      BY <2>1 DEF DashboardInv, PagesInv, Rows
    <3>2. Len(stored) - (Len(page[h]) + 1) + 1 = Len(stored) - Len(page[h])
      BY <1>n
    <3>3. ASSUME NEW k \in 1..Len(page'[h])
          PROVE  page'[h][k] = stored[Len(stored) - k + 1]
      <4>1. k \in 1..Len(page[h]) \/ k = Len(page[h]) + 1
        BY <2>4, <1>n
      <4> QED BY <4>1, <3>1, <3>2, <2>2, <2>4
    <3> QED BY <3>3
  <2>6. Len(page'[h]) <= PageSize /\ Len(page'[h]) <= Len(results)
    BY <2>1, <2>4, <1>n
  <2>7. Rows(page[h], Len(stored))'
    BY <2>1, <2>5 DEF Rows
  <2>8. \A g \in Readers \ {h}, n \in Nat :
          Rows(page[g], n)' <=> Rows(page[g], n)
    BY <2>1, <2>3 DEF Rows
  <2> QED BY <2>1, <2>3, <2>6, <2>7, <2>8, <1>n
             DEF DashboardInv, PagesInv, Rows
<1>6. ASSUME NEW h \in Readers, Finish(h) PROVE PagesInv'
  <2>1. /\ UNCHANGED <<results, writer, stored, page, seenFrom>>
        /\ rc[h] = "read" /\ ~MoreRows(h)
        /\ rc' = [rc EXCEPT ![h] = "done"] /\ readers' = readers \ {h}
    BY <1>6 DEF Finish, reqVars
  <2>2. h \in readers /\ writer = {}
    BY <2>1 DEF DashboardInv, PagesInv
  <2>3. \A r \in Requests : pc[r] # "trim"
    BY <2>2 DEF DashboardInv, ListInv, HoldsLock
  <2>4. /\ Len(results) <= MaxResults /\ Len(results) <= Len(stored)
        /\ Len(results) \in {Len(stored), MaxResults}
    BY <2>3, <1>n DEF DashboardInv, ListInv
  <2>5. /\ Rows(page[h], Len(stored)) /\ Len(page[h]) <= Len(results)
        /\ Len(page[h]) <= PageSize
    BY <2>1 DEF DashboardInv, PagesInv
  <2>6. Len(page[h]) \in {Len(stored), PageSize, MaxResults}
    BY <2>1, <2>4, <2>5, <1>n DEF MoreRows
  <2>7. Len(stored) \in seenFrom[h]..Len(stored)
    BY <1>n DEF DashboardInv, PagesInv
  <2>8. Len(page[h]) <= Len(stored) /\ Len(page[h]) <= MaxResults
    BY <2>4, <2>5, <1>n
  <2>9. \E n \in seenFrom[h]..Len(stored) :
          /\ Rows(page[h], n)
          /\ Len(page[h]) <= n /\ Len(page[h]) <= MaxResults
          /\ Len(page[h]) \in {n, PageSize, MaxResults}
    BY <2>5, <2>6, <2>7, <2>8
  <2>10. \A g \in Readers, n \in Nat : Rows(page[g], n)' <=> Rows(page[g], n)
    BY <2>1 DEF Rows
  <2>11. \A g \in Readers : \A n \in seenFrom[g]..Len(stored) : n \in Nat
    BY <1>n DEF DashboardInv, PagesInv
  <2>12. \A g \in Readers : rc'[g] = IF g = h THEN "done" ELSE rc[g]
    BY <2>1 DEF DashboardInv, PagesInv
  <2> QED
    BY <2>1, <2>2, <2>9, <2>10, <2>11, <2>12, <1>n DEF DashboardInv, PagesInv
<1> QED
  BY <1>1, <1>2, <1>3, <1>4, <1>5, <1>6
     DEF Next, History, Crash, Quiet, vars

LEMMA DashboardInvariant == Spec => []DashboardInv
<1>1. DashboardInv /\ [Next]_vars => DashboardInv'
  BY ListSteps, PageSteps DEF DashboardInv
<1> QED BY <1>1, DashboardStart, PTL DEF Spec

(* The state of the dashboard stays well typed (handleCheck, handleHistory). *)
THEOREM TypesHold == Spec => []TypeOK
<1>1. DashboardInv => TypeOK
  <2> SUFFICES ASSUME DashboardInv PROVE TypeOK
    OBVIOUS
  <2>1. Len(results) <= IF writer = {} THEN MaxResults ELSE MaxResults + 1
    BY DEF DashboardInv, ListInv, HoldsLock
  <2> QED BY <2>1 DEF DashboardInv, ListInv, PagesInv, TypeOK
<1> QED BY <1>1, DashboardInvariant, PTL

(* Whatever the number of requests: without the write lock the list is what  *)
(* was stored last, in order, and as much of it as fits (handleCheck).       *)
THEOREM TheNewestAreKept == Spec => []KeepsTheNewest
<1>1. DashboardInv => KeepsTheNewest
  <2> SUFFICES ASSUME DashboardInv, writer = {}
        PROVE  /\ results = SubSeq(stored, Len(stored) - Len(results) + 1,
                                   Len(stored))
               /\ Len(stored) > Len(results) => Len(results) = MaxResults
    BY DEF KeepsTheNewest
  <2>1. /\ Len(results) \in Nat /\ Len(stored) \in Nat /\ MaxResults \in Nat
        /\ Len(results) <= Len(stored)
    BY DashboardAssumption DEF DashboardInv, ListInv
  <2>2. Len(results) <= MaxResults
    BY DEF DashboardInv, ListInv, HoldsLock
  <2>3. Len(stored) > Len(results) => Len(results) = MaxResults
    BY <2>1, <2>2 DEF DashboardInv, ListInv
  <2> DEFINE newest == SubSeq(stored, Len(stored) - Len(results) + 1,
                              Len(stored))
  <2>4. /\ newest \in Seq(Requests) /\ Len(newest) = Len(results)
        /\ \A k \in 1..Len(results) :
             newest[k] = stored[Len(stored) - Len(results) + k]
    BY <2>1 DEF DashboardInv, ListInv
  <2>5. results \in Seq(Requests)
        /\ \A k \in 1..Len(results) :
             results[k] = stored[Len(stored) - Len(results) + k]
    BY DEF DashboardInv, ListInv
  <2> HIDE DEF newest
  <2>6. results = newest
    BY <2>4, <2>5
  <2>7. newest = SubSeq(stored, Len(stored) - Len(results) + 1, Len(stored))
    BY DEF newest
  <2> QED BY <2>3, <2>6, <2>7
<1> QED BY <1>1, DashboardInvariant, PTL

(* A history page shows the list as it was at one moment after the request   *)
(* came, however many results are stored meanwhile (handleHistory).          *)
THEOREM PagesAreMoments == Spec => []PageIsAMoment
<1>1. DashboardInv => PageIsAMoment
  <2> SUFFICES ASSUME DashboardInv, NEW h \in Readers, rc[h] = "done"
               PROVE  \E n \in seenFrom[h]..Len(stored) :
                        /\ Len(page[h]) = Min({n, PageSize, MaxResults})
                        /\ \A k \in 1..Len(page[h]) :
                             page[h][k] = stored[n - k + 1]
    BY DEF PageIsAMoment
  <2>1. PICK n \in seenFrom[h]..Len(stored) :
          /\ Rows(page[h], n)
          /\ Len(page[h]) <= n /\ Len(page[h]) <= MaxResults
          /\ Len(page[h]) \in {n, PageSize, MaxResults}
    BY DEF DashboardInv, PagesInv
  <2>2. /\ n \in Int /\ PageSize \in Int /\ MaxResults \in Int
        /\ Len(page[h]) <= PageSize /\ Len(page[h]) \in Int
    BY DashboardAssumption DEF DashboardInv, ListInv, PagesInv
  <2>3. Len(page[h]) = Min({n, PageSize, MaxResults})
    <3> DEFINE S == {n, PageSize, MaxResults}
    <3>1. Len(page[h]) \in S /\ \A y \in S : Len(page[h]) <= y
      BY <2>1, <2>2
    <3>2. \A x \in S : (\A y \in S : x <= y) => x = Len(page[h])
      BY <3>1, <2>2
    <3> QED BY <3>1, <3>2 DEF Min
  <2> QED BY <2>1, <2>3 DEF Rows
<1> QED BY <1>1, DashboardInvariant, PTL
===============================================================================
