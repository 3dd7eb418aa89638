------------------------------- MODULE TlsCheck -------------------------------
(***************************************************************************)
(* internal/tlscheck Checker.Run and runTLSCheck: dial, handshake, and a   *)
(* verdict over the time that the certificate has left, in whole days cut  *)
(* towards zero.                                                           *)
(*                                                                         *)
(* Time is in hours.  crypto/tls verifies the certificate in the handshake,*)
(* so one that has expired fails it; some time passes before Run measures  *)
(* what is left.  A verified server has shown a certificate: the branch for*)
(* none is not modelled, nor are the names of the certificate.             *)
(***************************************************************************)
EXTENDS Context, Integers

CONSTANTS
  HoursLeft,  \* bound: of the certificates that a handshake accepts
  MaxDelay    \* bound: the hours between verification and measurement

DayHours == 24

ASSUME TlsAssumption ==
  HoursLeft \subseteq Nat /\ MaxDelay \in 0..(DayHours - 1)

VARIABLES
  tls,        \* where the check is
  certLeft,   \* the hours left when last looked at
  tlsResult,
  certGauge,  \* the gauge for the days left, as runTLSCheck sets it
  warned      \* runTLSCheck has logged its warning

tlsVars == <<tls, certLeft, tlsResult, certGauge, warned>>

TlsNoResult == [error |-> FALSE, days |-> 0, expired |-> FALSE, soon |-> FALSE]

TlsTypeOK ==
  /\ tls \in {"dial", "handshake", "measure", "report", "done"}
  /\ certLeft \in Int
  /\ tlsResult \in [error : BOOLEAN, days : Int, expired : BOOLEAN,
                    soon : BOOLEAN]
  /\ certGauge \in Int
  /\ warned \in BOOLEAN

TlsInit ==
  /\ tls = "dial" /\ certLeft = 0
  /\ tlsResult = TlsNoResult
  /\ certGauge = 0 /\ warned = FALSE

------------------------------------------------------------------------------
TlsFails ==
  /\ tlsResult' = [tlsResult EXCEPT !.error = TRUE]
  /\ tls' = "report"

(* DialContext: its timeout and ctx are among the failures. *)
TlsDial ==
  /\ tls = "dial"
  /\ \/ tls' = "handshake" /\ UNCHANGED tlsResult
     \/ TlsFails
  /\ UNCHANGED <<certLeft, certGauge, warned, ctxDone>>

(* Neither a deadline nor ctx ends the handshake: the server may never.      *)
TlsHandshake ==
  /\ tls = "handshake"
  /\ \/ TlsFails /\ UNCHANGED certLeft
     \/ /\ \E h \in HoursLeft : certLeft' = h
        /\ tls' = "measure"
        /\ UNCHANGED tlsResult
  /\ UNCHANGED <<certGauge, warned, ctxDone>>

(* Mutant: the days are rounded down. *)
Days_Floor(h) == h \div DayHours

(* int() of a float cuts towards zero. *)
Days(h) == IF h >= 0 THEN h \div DayHours ELSE -((-h) \div DayHours)

TlsMeasure ==
  /\ tls = "measure"
  /\ \E delay \in 0..MaxDelay :
       LET days == Days(certLeft - delay)
       IN  /\ certLeft' = certLeft - delay
           /\ tlsResult' = [error |-> FALSE, days |-> days,
                            expired |-> days < 0, soon |-> days \in 0..30]
  /\ tls' = "report"
  /\ UNCHANGED <<certGauge, warned, ctxDone>>

(* runTLSCheck: a failed check sets the gauge too, to no days.               *)
TlsReport ==
  /\ tls = "report"
  /\ certGauge' = tlsResult.days
  /\ warned' = (tlsResult.soon /\ ~tlsResult.expired)
  /\ tls' = "done"
  /\ UNCHANGED <<certLeft, tlsResult, ctxDone>>

(* What the program can do by itself. *)
TlsProceeds == TlsDial \/ TlsMeasure \/ TlsReport

TlsStep == TlsProceeds \/ TlsHandshake

(* A run of its own, for what is proved of it. *)
TlsSpec ==
  /\ TlsInit /\ ContextInit
  /\ [][TlsStep \/ (Cancel /\ UNCHANGED tlsVars)]_<<tlsVars, ctxDone>>

------------------------------------------------------------------------------
(* Properties. *)

(* A certificate that the check has accepted and that has 30 days or less to *)
(* live is warned of, also when it expires between the handshake and the     *)
(* measurement; one that has 31 days or more is not.  The check never says   *)
(* Expired: an expired certificate fails the handshake (tlscheck.go:57-92,   *)
(* main.go:406-415).                                                         *)
WarnsInTime ==
  tls = "done" =>
    /\ ~tlsResult.error /\ certLeft <= 30 * DayHours => warned
    /\ warned => ~tlsResult.error /\ certLeft < 31 * DayHours
    /\ ~tlsResult.expired
=============================================================================
