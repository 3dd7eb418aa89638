----------------------------- MODULE DnsLookup -----------------------------
(***************************************************************************)
(* internal/dns Resolver.Run: one goroutine per record type, each asking   *)
(* the resolver and appending its values to one list under a mutex, and a  *)
(* WaitGroup that Run waits for.                                           *)
(*                                                                         *)
(* A value is its number within its type.  What the domain has is found    *)
(* when the lookups start; whether one fails is the environment's.  The    *)
(* nameserver that Run reports is the word "system" whatever was asked, and*)
(* is left out.                                                            *)
(***************************************************************************)
EXTENDS Context, Naturals, Sequences

CONSTANTS
  Types,      \* the record types looked up
  MaxValues   \* bound: values of one type

(* RecordType *)
RecordTypes == {"A", "AAAA", "MX", "TXT", "NS", "CNAME"}

ASSUME DnsAssumption == Types \subseteq RecordTypes /\ MaxValues \in Nat

VARIABLES
  dns,       \* where Run is
  zone,      \* how many values of each type the domain has
  lookup,    \* where the goroutine of each type is
  mu,        \* who holds the mutex
  stored,    \* the values each goroutine has appended
  records,   \* result.Records
  dnsError,  \* result.Error is "no DNS records found"
  ended      \* history: the lookups that are over, as a batch reports them

lookupVars == <<lookup, mu, stored, records, ended>>
dnsVars == <<dns, zone, lookupVars, dnsError>>

Nobody == "nobody"

DnsTypeOK ==
  /\ dns \in {"start", "wait", "judge", "done"}
  /\ zone \in [Types -> 0..MaxValues]
  /\ lookup \in [Types -> {"unborn", "asking", "locking", "storing", "over"}]
  /\ mu \in Types \union {Nobody}
  /\ stored \in [Types -> 0..MaxValues]
  /\ records \in Seq([type : Types, value : 1..MaxValues])
  /\ dnsError \in BOOLEAN
  /\ ended \in Seq([job : Types, state : {"PROBED", "CANCELLED"}])

DnsInit ==
  /\ dns = "start"
  /\ zone = [t \in Types |-> 0]
  /\ lookup = [t \in Types |-> "unborn"]
  /\ mu = Nobody
  /\ stored = [t \in Types |-> 0]
  /\ records = <<>>
  /\ dnsError = FALSE
  /\ ended = <<>>

------------------------------------------------------------------------------
(* The loop over the lookups, each wg.Add before its go statement. *)
SpawnLookups ==
  /\ dns = "start"
  /\ zone' \in [Types -> 0..MaxValues]
  /\ \A t \in Types \intersect {"CNAME"} : zone'[t] <= 1
  /\ lookup' = [t \in Types |-> "asking"]
  /\ dns' = "wait"
  /\ UNCHANGED <<mu, stored, records, dnsError, ended, ctxDone>>

(* wg.Done: the goroutine of type t is over. *)
Over(t, state) ==
  /\ lookup' = [lookup EXCEPT ![t] = "over"]
  /\ ended' = Append(ended, [job |-> t, state |-> state])

(* Addresses of the other family only, and a canonical name that is the      *)
(* domain itself, are errors; an empty list of the other types is none.      *)
MissingIsError(t) == t \in {"A", "AAAA", "CNAME"}

AnswerComes(t) ==
  /\ lookup[t] = "asking"
  /\ MissingIsError(t) => zone[t] > 0
  /\ lookup' = [lookup EXCEPT ![t] = "locking"]
  /\ UNCHANGED <<dns, zone, mu, stored, records, dnsError, ended, ctxDone>>

(* The resolver fails, ctx ends the query, or there is nothing of type t.    *)
LookupFails(t) ==
  /\ lookup[t] = "asking"
  /\ Over(t, IF ctxDone THEN "CANCELLED" ELSE "PROBED")
  /\ UNCHANGED <<dns, zone, mu, stored, records, dnsError, ctxDone>>

(* Mutant: the goroutines append without the mutex. *)
LockRecords_None(t) ==
  /\ lookup[t] = "locking"
  /\ mu' = t
  /\ lookup' = [lookup EXCEPT ![t] = "storing"]
  /\ UNCHANGED <<dns, zone, stored, records, dnsError, ended, ctxDone>>

LockRecords(t) ==
  /\ lookup[t] = "locking" /\ mu = Nobody
  /\ mu' = t
  /\ lookup' = [lookup EXCEPT ![t] = "storing"]
  /\ UNCHANGED <<dns, zone, stored, records, dnsError, ended, ctxDone>>

StoreValue(t) ==
  /\ lookup[t] = "storing" /\ stored[t] < zone[t]
  /\ stored' = [stored EXCEPT ![t] = @ + 1]
  /\ records' = Append(records, [type |-> t, value |-> stored'[t]])
  /\ UNCHANGED <<dns, zone, lookup, mu, dnsError, ended, ctxDone>>

UnlockRecords(t) ==
  /\ lookup[t] = "storing" /\ stored[t] = zone[t]
  /\ mu' = Nobody
  /\ Over(t, "PROBED")
  /\ UNCHANGED <<dns, zone, stored, records, dnsError, ctxDone>>

(* Mutant: the first lookup that ends is enough. *)
LookupsEnd_First ==
  /\ dns = "wait" /\ \E t \in Types : lookup[t] = "over"
  /\ dns' = "judge"
  /\ UNCHANGED <<zone, lookupVars, dnsError, ctxDone>>

(* wg.Wait() *)
LookupsEnd ==
  /\ dns = "wait" /\ \A t \in Types : lookup[t] = "over"
  /\ dns' = "judge"
  /\ UNCHANGED <<zone, lookupVars, dnsError, ctxDone>>

JudgeRecords ==
  /\ dns = "judge"
  /\ dnsError' = (records = <<>>)
  /\ dns' = "done"
  /\ UNCHANGED <<zone, lookupVars, ctxDone>>

LookUp(t) ==
  AnswerComes(t) \/ LookupFails(t) \/ LockRecords(t) \/ StoreValue(t)
    \/ UnlockRecords(t)

DnsStep ==
  SpawnLookups \/ LookupsEnd \/ JudgeRecords \/ \E t \in Types : LookUp(t)

(* A run of its own, for what is proved of it. *)
DnsSpec ==
  /\ DnsInit /\ ContextInit
  /\ [][DnsStep \/ (Cancel /\ UNCHANGED dnsVars)]_<<dnsVars, ctxDone>>

------------------------------------------------------------------------------
(* Properties. *)

Lookups == INSTANCE Batch WITH
  Jobs <- Types, Staffed <- TRUE, log <- ended,
  pending <- {t \in Types : lookup[t] # "over"},
  cancelled <- ctxDone, finished <- dns \in {"judge", "done"}

(* The six lookups are a batch like those of the port scanner, except that a *)
(* cancel makes it no shorter: every lookup ends once, and Run goes on only  *)
(* when all have (dns.go:152-169).                                           *)
LookupsAreABatch ==
  /\ Lookups!BatchSafety
  /\ [](dns \in {"judge", "done"} => \A t \in Types : lookup[t] = "over")

(* The records of type t are its first n values, in the places after s. *)
StandsAfter(t, s, n) ==
  \A k \in 1..Len(records) :
    /\ records[k].type = t <=> k \in (s + 1)..(s + n)
    /\ records[k].type = t => records[k].value = k - s

(* Whatever the order in which the lookups end, the values of one type stand *)
(* together and in order, all of them or, if its lookup failed, none; and an *)
(* error is reported for no records at all (dns.go:156-174).                 *)
RecordsAreWhole ==
  /\ \A t \in Types : lookup[t] = "over" =>
       \E n \in {0, zone[t]}, s \in 0..Len(records) :
         s + n <= Len(records) /\ StandsAfter(t, s, n)
  /\ dns = "done" => (dnsError <=> records = <<>>)
=============================================================================
