--------------------------------- MODULE Mtr ---------------------------------
(***************************************************************************)
(* MTR, internal/mtr: cycles of one probe per hop, each cycle over a socket*)
(* of its own, the round trips collected per hop and summed up when Run    *)
(* returns.  The list of hops is made in the first cycle only.             *)
(*                                                                         *)
(* A round trip is a number of units; a probe without an answer counts as  *)
(* one of Timeout, and so does every sample that is not below it.  Any ICMP*)
(* packet is taken for the answer, so a sample is simply some latency.     *)
(***************************************************************************)
EXTENDS Context, Samples

CONSTANTS
  Cycles,        \* m.cycles
  MaxHops,       \* m.maxHops
  MtrTimeout,    \* m.timeout
  MtrLatencies   \* bound: of the packets read; one that comes right before
                 \* the deadline has taken Timeout or more

ASSUME MtrAssumption ==
  /\ Cycles \in Nat /\ MaxHops \in Nat
  /\ MtrTimeout \in Nat \ {0} /\ MtrLatencies \subseteq Nat

VARIABLES
  mtr,       \* where Run is
  cycle,     \* the loop variable
  ttl,       \* the loop variable of the inner loop
  hopData,   \* the round trips of each hop, in order
  hops,      \* result.Hops, with the statistics of finalize
  progress,  \* result.Cycles and result.Running
  mtrErr,    \* "none" until Run returns
  opened,    \* history: the cycles that had a socket
  mtrAfter   \* history: the samples recorded since ctx was done

mtrLoopVars == <<mtr, cycle, ttl>>
mtrResultVars == <<hopData, hops, progress, mtrErr>>
mtrHistoryVars == <<opened, mtrAfter>>
mtrVars == <<mtrLoopVars, mtrResultVars, mtrHistoryVars>>

TTLs == 1..MaxHops
Sample == MtrLatencies \union {MtrTimeout}
Answered(samples) == Keep(samples, 0..(MtrTimeout - 1))

(* Mutant: the average is over all probes, the lost ones too. *)
Average_OverSent(ok, samples) == Total(ok) \div Len(samples)

Average(ok, samples) == Mean(ok)

NoStats == [sent |-> 0, lost |-> 0, last |-> 0, min |-> 0, max |-> 0,
            avg |-> 0]

(* calculateStats, the jitter left out and the loss as a count. *)
Stats(samples) ==
  LET ok == Answered(samples)
      final == samples[Len(samples)]
      common == [NoStats EXCEPT
                   !.sent = Len(samples), !.lost = Len(samples) - Len(ok),
                   !.last = IF final < MtrTimeout THEN final ELSE 0]
  IN  IF ok = <<>> THEN common
      ELSE [common EXCEPT !.min = Min(ToSet(ok)), !.max = Max(ToSet(ok)),
                          !.avg = Average(ok, samples)]

MtrTypeOK ==
  /\ mtr \in {"resolve", "cycle", "hop", "read", "show", "sleep", "returned"}
  /\ cycle \in 0..Cycles /\ ttl \in 1..(MaxHops + 1)
  /\ hopData \in [TTLs -> Seq(Sample)]
  /\ \A k \in 1..Len(hops) : hops[k].number \in TTLs
  /\ progress.cycles \in 0..Cycles /\ progress.running \in BOOLEAN
  /\ mtrErr \in {"none", "nil", "resolve", "ctx"}
  /\ opened \subseteq 0..(Cycles - 1) /\ mtrAfter \in Nat

MtrInit ==
  /\ mtr = "resolve" /\ cycle = 0 /\ ttl = 1
  /\ hopData = [t \in TTLs |-> <<>>]
  /\ hops = <<>>
  /\ progress = [cycles |-> 0, running |-> FALSE]
  /\ mtrErr = "none"
  /\ opened = {} /\ mtrAfter = 0

------------------------------------------------------------------------------
MtrResolve ==
  /\ mtr = "resolve"
  /\ \/ mtr' = "cycle" /\ UNCHANGED mtrErr
     \/ mtr' = "returned" /\ mtrErr' = "resolve"
  /\ UNCHANGED <<cycle, ttl, hopData, hops, progress, ctxDone, mtrHistoryVars>>

(* A hop without samples keeps the statistics it has. *)
WithStats(hop) ==
  IF hopData[hop.number] = <<>> THEN hop
  ELSE [hop EXCEPT !.stats = Stats(hopData[hop.number])]

(* finalize: the cycles reported are those asked for. *)
MtrFinalize(e) ==
  /\ hops' = [k \in DOMAIN hops |-> WithStats(hops[k])]
  /\ progress' = [cycles |-> Cycles, running |-> FALSE]
  /\ mtrErr' = e
  /\ mtr' = "returned"
  /\ UNCHANGED <<cycle, ttl, hopData, ctxDone, mtrHistoryVars>>

MtrFinish == mtr = "cycle" /\ cycle = Cycles /\ MtrFinalize("nil")

MtrSeeCancel ==
  /\ \/ mtr = "cycle" /\ cycle < Cycles
     \/ mtr = "hop" /\ ttl <= MaxHops
  /\ ctxDone
  /\ MtrFinalize("ctx")

MtrOpen ==
  /\ mtr = "cycle" /\ cycle < Cycles /\ ~ctxDone
  /\ opened' = opened \union {cycle}
  /\ ttl' = 1
  /\ mtr' = "hop"
  /\ UNCHANGED <<cycle, mtrResultVars, ctxDone, mtrAfter>>

(* The next cycle begins at once. *)
MtrOpenFails ==
  /\ mtr = "cycle" /\ cycle < Cycles /\ ~ctxDone
  /\ cycle' = cycle + 1
  /\ UNCHANGED <<mtr, ttl, mtrResultVars, ctxDone, mtrHistoryVars>>

(* Mutant: ctx is looked at between cycles only. *)
MtrSend_IgnoresCtx ==
  /\ mtr = "hop" /\ ttl <= MaxHops
  /\ mtr' = "read"
  /\ UNCHANGED <<cycle, ttl, mtrResultVars, ctxDone, mtrHistoryVars>>

MtrSend ==
  /\ mtr = "hop" /\ ttl <= MaxHops /\ ~ctxDone
  /\ mtr' = "read"
  /\ UNCHANGED <<cycle, ttl, mtrResultVars, ctxDone, mtrHistoryVars>>

(* Mutant: a probe without an answer leaves no sample. *)
MtrRead_DropsLost ==
  /\ mtr = "read"
  /\ \E r \in Sample :
       hopData' = IF r < MtrTimeout
                  THEN [hopData EXCEPT ![ttl] = Append(@, r)] ELSE hopData
  /\ hops' = IF cycle = 0
             THEN Append(hops, [number |-> ttl, stats |-> NoStats]) ELSE hops
  /\ mtrAfter' = IF ctxDone THEN mtrAfter + 1 ELSE mtrAfter
  /\ ttl' = ttl + 1
  /\ mtr' = "hop"
  /\ UNCHANGED <<cycle, progress, mtrErr, ctxDone, opened>>

(* An answer or the deadline; ctx does not interrupt it. *)
MtrRead ==
  /\ mtr = "read"
  /\ \E r \in Sample : hopData' = [hopData EXCEPT ![ttl] = Append(@, r)]
  /\ hops' = IF cycle = 0
             THEN Append(hops, [number |-> ttl, stats |-> NoStats]) ELSE hops
  /\ mtrAfter' = IF ctxDone THEN mtrAfter + 1 ELSE mtrAfter
  /\ ttl' = ttl + 1
  /\ mtr' = "hop"
  /\ UNCHANGED <<cycle, progress, mtrErr, ctxDone, opened>>

MtrEndHops ==
  /\ mtr = "hop" /\ ttl > MaxHops
  /\ mtr' = IF Cycles > 1 THEN "show" ELSE "sleep"
  /\ UNCHANGED <<cycle, ttl, mtrResultVars, ctxDone, mtrHistoryVars>>

MtrShow ==
  /\ mtr = "show"
  /\ progress' = [cycles |-> cycle + 1, running |-> TRUE]
  /\ mtr' = "sleep"
  /\ UNCHANGED <<cycle, ttl, hopData, hops, mtrErr, ctxDone, mtrHistoryVars>>

MtrWake ==
  /\ mtr = "sleep"
  /\ cycle' = cycle + 1
  /\ mtr' = "cycle"
  /\ UNCHANGED <<ttl, mtrResultVars, ctxDone, mtrHistoryVars>>

MtrStep ==
  \/ MtrResolve \/ MtrFinish \/ MtrSeeCancel \/ MtrOpen \/ MtrOpenFails
  \/ MtrSend \/ MtrRead \/ MtrEndHops \/ MtrShow \/ MtrWake

(* A run of its own, for what is proved of it. *)
MtrSpec ==
  /\ MtrInit /\ ContextInit
  /\ [][MtrStep \/ (Cancel /\ UNCHANGED mtrVars)]_<<mtrVars, ctxDone>>

------------------------------------------------------------------------------
(* Properties. *)

Sent(t) == Len(hopData[t])

(* The hops of a report can be compared: each has been probed once in every  *)
(* cycle that had a socket, but for the hops that an interrupted cycle did   *)
(* not reach, which are the last ones (mtr.go:71-135).                       *)
HopsAreProbedAlike ==
  /\ \A t \in TTLs : Sent(t) \in Cardinality(opened) - 1..Cardinality(opened)
  /\ \A t, u \in TTLs : t < u => Sent(t) >= Sent(u)
  /\ mtrErr = "nil" => \A t \in TTLs : Sent(t) = Cardinality(opened)

(* A report covers what was measured: its hops are those that were probed,   *)
(* in order, each with statistics over all of its probes that are in order.  *)
(* It holds if the first cycle had a socket, the only one that makes hops;   *)
(* otherwise the report is empty, whatever the later cycles measured         *)
(* (mtr.go:121-134, 155-236).                                                *)
ReportCoversSamples ==
  mtrErr \in {"nil", "ctx"} =>
    IF 0 \in opened
    THEN /\ Len(hops) = Cardinality({t \in TTLs : Sent(t) > 0})
         /\ \A k \in 1..Len(hops) :
              LET s == hops[k].stats
              IN  /\ hops[k].number = k
                  /\ s.sent = Sent(k) /\ s.lost \in 0..s.sent
                  /\ s.lost < s.sent =>
                       /\ s.min <= s.avg /\ s.avg <= s.max
                       /\ s.last \in {0} \union s.min..s.max
    ELSE hops = <<>>

(* A cancel lets at most the probe that is out finish (mtr.go:72-90).        *)
MtrStopsPromptly == mtrAfter <= 1
=============================================================================
