------------------------------ MODULE Dashboard ------------------------------
(***************************************************************************)
(* The web dashboard, internal/web: handleCheck runs a check and stores    *)
(* its result in a bounded list, handleHistory shows the newest of them.   *)
(* net/http runs every request in a goroutine of its own; the list is      *)
(* guarded by an RWMutex.  The check itself is one step: its outcome.      *)
(*                                                                         *)
(* A ping check takes the process with it: the deferred cancel of its      *)
(* context makes ping's receiver close receiveDone a second time (module   *)
(* Ping), and a panic in a goroutine ends the program.                     *)
(***************************************************************************)
EXTENDS Integers, Sequences, SequencesExt, FiniteSetsExt

CONSTANTS
  Requests,    \* POSTs to /api/check
  Readers,     \* GETs of /api/history
  Types,       \* the check types submitted
  MaxResults,  \* results kept: 100 in the code
  PageSize     \* rows of the history: 10 in the code

ASSUME DashboardAssumption ==
  MaxResults \in Nat \ {0} /\ PageSize \in Nat \ {0}

VARIABLES
  pc,       \* where each request is
  type,     \* the type of its check
  results,  \* d.results: the requests whose results are kept, oldest first
  rc,       \* where each history request is
  page,     \* the rows it has written
  writer,   \* who holds the write lock
  readers,  \* who holds the read lock
  alive,    \* the process is running
  stored,   \* history: every request in the order it was stored
  seenFrom  \* history: Len(stored) when a history request arrived

reqVars == <<pc, type, results, writer, stored>>
histVars == <<rc, page, readers, seenFrom>>
vars == <<reqVars, histVars, alive>>

TypeOK ==
  /\ pc \in [Requests -> {"new", "check", "lock", "append", "trim", "respond",
                          "done"}]
  /\ type \in [Requests -> Types \union {"none"}]
  /\ results \in Seq(Requests)
  /\ Len(results) <= IF writer = {} THEN MaxResults ELSE MaxResults + 1
  /\ rc \in [Readers -> {"new", "lock", "read", "done"}]
  /\ \A h \in Readers : page[h] \in Seq(Requests) /\ Len(page[h]) <= PageSize
  /\ writer \subseteq Requests /\ readers \subseteq Readers
  /\ alive \in BOOLEAN
  /\ seenFrom \in [Readers -> Nat]

Init ==
  /\ pc = [r \in Requests |-> "new"]
  /\ type = [r \in Requests |-> "none"]
  /\ results = <<>> /\ stored = <<>>
  /\ rc = [h \in Readers |-> "new"]
  /\ page = [h \in Readers |-> <<>>]
  /\ seenFrom = [h \in Readers |-> 0]
  /\ writer = {} /\ readers = {}
  /\ alive = TRUE

(* d.mu *)
CanLock == writer = {} /\ readers = {}
CanRLock == writer = {}

------------------------------------------------------------------------------
(* handleCheck *)

(* Anything but a POST is turned away. *)
Refuse(r) ==
  /\ pc[r] = "new"
  /\ pc' = [pc EXCEPT ![r] = "done"]
  /\ UNCHANGED <<type, results, writer, stored, histVars, alive>>

Arrive(r) ==
  /\ pc[r] = "new"
  /\ \E t \in Types : type' = [type EXCEPT ![r] = t]
  /\ pc' = [pc EXCEPT ![r] = "check"]
  /\ UNCHANGED <<results, writer, stored, histVars, alive>>

(* The check ends.  Whatever its outcome, an error or a type the switch     *)
(* does not know included, it makes a result.                               *)
RunCheck(r) ==
  /\ pc[r] = "check"
  /\ pc' = [pc EXCEPT ![r] = "lock"]
  /\ UNCHANGED <<type, results, writer, stored, histVars, alive>>

Lock(r) ==
  /\ pc[r] = "lock"
  /\ CanLock
  /\ writer' = {r}
  /\ pc' = [pc EXCEPT ![r] = "append"]
  /\ UNCHANGED <<type, results, stored, histVars, alive>>

AppendResult(r) ==
  /\ pc[r] = "append"
  /\ results' = Append(results, r)
  /\ stored' = Append(stored, r)
  /\ pc' = [pc EXCEPT ![r] = "trim"]
  /\ UNCHANGED <<type, writer, histVars, alive>>

(* Mutant: the oldest results stay. *)
Trimmed_KeepsOldest ==
  IF Len(results) > MaxResults THEN SubSeq(results, 1, MaxResults) ELSE results

Trimmed ==
  IF Len(results) > MaxResults
  THEN SubSeq(results, Len(results) - MaxResults + 1, Len(results))
  ELSE results

(* Mutant: the lock is kept. *)
Trim_NoUnlock(r) ==
  /\ pc[r] = "trim"
  /\ results' = Trimmed
  /\ pc' = [pc EXCEPT ![r] = "respond"]
  /\ UNCHANGED <<type, writer, stored, histVars, alive>>

(* Trim, then Unlock. *)
Trim(r) ==
  /\ pc[r] = "trim"
  /\ results' = Trimmed
  /\ writer' = {}
  /\ pc' = [pc EXCEPT ![r] = "respond"]
  /\ UNCHANGED <<type, stored, histVars, alive>>

(* The response is written without the lock.  There is no WriteTimeout: a    *)
(* client that does not read it may hold up its handler for ever.            *)
Respond(r) ==
  /\ pc[r] = "respond"
  /\ pc' = [pc EXCEPT ![r] = "done"]
  /\ UNCHANGED <<type, results, writer, stored, histVars, alive>>

------------------------------------------------------------------------------
(* handleHistory *)

ArriveHistory(h) ==
  /\ rc[h] = "new"
  /\ rc' = [rc EXCEPT ![h] = "lock"]
  /\ seenFrom' = [seenFrom EXCEPT ![h] = Len(stored)]
  /\ UNCHANGED <<reqVars, page, readers, alive>>

(* Mutant: the list is read without the lock. *)
RLock_None(h) ==
  /\ rc[h] = "lock"
  /\ rc' = [rc EXCEPT ![h] = "read"]
  /\ UNCHANGED <<reqVars, page, readers, seenFrom, alive>>

RLock(h) ==
  /\ rc[h] = "lock"
  /\ CanRLock
  /\ readers' = readers \union {h}
  /\ rc' = [rc EXCEPT ![h] = "read"]
  /\ UNCHANGED <<reqVars, page, seenFrom, alive>>

(* One row: the loop goes down from the newest result. *)
MoreRows(h) == Len(page[h]) < PageSize /\ Len(page[h]) < Len(results)

Row(h) ==
  /\ rc[h] = "read"
  /\ MoreRows(h)
  /\ page' = [page EXCEPT ![h] = Append(@, results[Len(results) - Len(@)])]
  /\ UNCHANGED <<reqVars, rc, readers, seenFrom, alive>>

(* The page is written while the lock is held, which a client that does not  *)
(* read a page too large for the socket may delay for ever.                  *)
Finish(h) ==
  /\ rc[h] = "read"
  /\ ~MoreRows(h)
  /\ readers' = readers \ {h}
  /\ rc' = [rc EXCEPT ![h] = "done"]
  /\ UNCHANGED <<reqVars, page, seenFrom, alive>>

------------------------------------------------------------------------------
(* The panic in ping's receiver, during the check or after it. *)
Crash ==
  /\ \E r \in Requests : type[r] = "ping"
  /\ alive' = FALSE
  /\ UNCHANGED <<reqVars, histVars>>

Request(r) == Arrive(r) \/ RunCheck(r) \/ Lock(r) \/ AppendResult(r) \/ Trim(r)
              \/ Respond(r)
History(h) == RLock(h) \/ Row(h) \/ Finish(h)

Quiet ==
  /\ \/ ~alive
     \/ /\ \A r \in Requests : pc[r] = "done"
        /\ \A h \in Readers : rc[h] = "done"
  /\ UNCHANGED vars

Next ==
  \/ /\ alive
     /\ \/ \E r \in Requests : Refuse(r) \/ Request(r)
        \/ \E h \in Readers : ArriveHistory(h) \/ History(h)
        \/ Crash
  \/ Quiet

(* A TLS handshake has no deadline and does not look at ctx. *)
MayHang(r) == pc[r] = "check" /\ type[r] = "tls"

(* Goroutines run, other checks end within their 30 seconds, and            *)
(* sync.RWMutex starves neither side.  Nobody need read a response.         *)
Fairness ==
  /\ \A r \in Requests :
       SF_vars(alive /\ pc[r] \notin {"new", "respond"} /\ ~MayHang(r)
               /\ Request(r))
  /\ \A h \in Readers : SF_vars(alive /\ (RLock(h) \/ Row(h)))

(* The clients that ask for the history read what they are sent.            *)
PagesAreRead == \A h \in Readers : WF_vars(alive /\ Finish(h))

Spec == Init /\ [][Next]_vars /\ Fairness

------------------------------------------------------------------------------
(* Properties. *)

(* Whoever may look at the list finds the newest results in it, in the order *)
(* they were stored, and none is dropped before the list is full:            *)
(* web.go:277-282.                                                           *)
KeepsTheNewest ==
  writer = {} =>
    /\ results = SubSeq(stored, Len(stored) - Len(results) + 1, Len(stored))
    /\ Len(stored) > Len(results) => Len(results) = MaxResults

(* A history page is one moment's view: consecutive results, newest first,   *)
(* and none stored before the request came is passed over: web.go:305-331.   *)
PageIsAMoment ==
  \A h \in Readers : rc[h] = "done" =>
    \E n \in seenFrom[h]..Len(stored) :
      /\ Len(page[h]) = Min({n, PageSize, MaxResults})
      /\ \A k \in 1..Len(page[h]) : page[h][k] = stored[n - k + 1]

(* As long as the history pages are read, every history request is answered  *)
(* and every check comes to its response, unless the process dies or its own *)
(* handshake hangs: a check that hangs and a client that does not read the   *)
(* response to its check hold up nobody else (web.go:206-302, 305-307).  A   *)
(* client that does not read its history page may hold up everybody.         *)
RequestsAreAnswered ==
  PagesAreRead =>
    /\ \A r \in Requests : (pc[r] # "new" /\ ~MayHang(r)) ~>
                            (pc[r] \in {"respond", "done"} \/ ~alive)
    /\ \A h \in Readers : (rc[h] = "lock") ~> (rc[h] = "done" \/ ~alive)
=============================================================================
