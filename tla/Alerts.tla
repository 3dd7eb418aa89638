-------------------------------- MODULE Alerts --------------------------------
(***************************************************************************)
(* internal/alerts Notifier.Send: the services that are configured, one    *)
(* after the other, each failure logged and the last one returned.  A mail *)
(* is sent by a goroutine that ctx does not reach, only the wait for it.   *)
(*                                                                         *)
(* No other package calls Send yet: its context is the caller's.  Whether a*)
(* service takes the alert, and whether its answer comes back, is the      *)
(* environment's.                                                          *)
(***************************************************************************)
EXTENDS Context, Naturals, Sequences

(* The fields of a Notifier that Send looks at. *)
Fields == {"telegramToken", "telegramChat", "discordWebhook", "smtpServer",
           "emailTo"}
Services == {"telegram", "discord", "email"}

VARIABLES
  send,        \* where Send is
  given,       \* the fields that are not empty
  lastErr,     \* a call has failed
  mailer,      \* where the goroutine of sendEmail is
  mailSent,    \* what smtp.SendMail has returned to it
  mailDone,    \* the channel done
  taken,       \* history: the services that took the alert
  failures     \* history: the services whose call failed

mailVars == <<mailer, mailSent, mailDone>>
alertVars == <<send, given, lastErr, mailVars, taken, failures>>

enabled ==
  given \intersect {"telegramToken", "discordWebhook", "smtpServer"} # {}

Needs == [telegram |-> {"telegramToken", "telegramChat"},
          discord |-> {"discordWebhook"}, email |-> {"smtpServer", "emailTo"}]

Configured(s) == Needs[s] \subseteq given

AlertTypeOK ==
  /\ send \in {"start", "telegram", "postTelegram", "discord",
               "postDiscord", "email", "waiting", "skipped", "done"}
  /\ given \subseteq Fields
  /\ lastErr \in BOOLEAN
  /\ mailer \in {"unborn", "sending", "offering", "over"}
  /\ mailSent \in BOOLEAN
  /\ mailDone \in Seq(BOOLEAN) /\ Len(mailDone) <= 1
  /\ taken \subseteq Services /\ failures \subseteq Services

AlertInit ==
  /\ send = "start"
  /\ given \in SUBSET Fields
  /\ lastErr = FALSE
  /\ mailer = "unborn" /\ mailSent = FALSE /\ mailDone = <<>>
  /\ taken = {} /\ failures = {}
  /\ ContextInit

------------------------------------------------------------------------------
(* A notifier that is not enabled skips the alert. *)
Start ==
  /\ send = "start"
  /\ send' = IF enabled THEN "telegram" ELSE "skipped"
  /\ UNCHANGED <<given, lastErr, mailVars, taken, failures, ctxDone>>

(* sendTelegram and sendDiscord: http.DefaultClient has no timeout, only ctx *)
(* ends a request that is never answered.                                    *)
Posting == [telegram |-> "postTelegram", discord |-> "postDiscord"]
After == [telegram |-> "discord", discord |-> "email", email |-> "done"]

Post(s) ==
  /\ send = s
  /\ send' = IF Configured(s) THEN Posting[s] ELSE After[s]
  /\ UNCHANGED <<given, lastErr, mailVars, taken, failures, ctxDone>>

(* Mutant: the outcome of the last service is returned, not the last error.  *)
Called_Last(s, ok) ==
  /\ lastErr' = ~ok
  /\ failures' = IF ok THEN failures ELSE failures \union {s}

(* What Send keeps of the call to a service. *)
Called(s, ok) ==
  /\ lastErr' = (lastErr \/ ~ok)
  /\ failures' = IF ok THEN failures ELSE failures \union {s}

PostEnds(s, took, ok) ==
  /\ send = Posting[s]
  /\ taken' = IF took THEN taken \union {s} ELSE taken
  /\ Called(s, ok)
  /\ send' = After[s]
  /\ UNCHANGED <<given, mailVars, ctxDone>>

(* An answer: the service took the alert, or its status says that it did not.*)
PostAnswered(s) == \E took \in BOOLEAN : PostEnds(s, took, took)

(* No answer: the connection fails or ctx is done, and the service may have  *)
(* taken the alert nevertheless.                                             *)
PostBreaks(s) == \E took \in BOOLEAN : PostEnds(s, took, FALSE)
PostCancelled(s) == ctxDone /\ PostBreaks(s)

MailStart ==
  /\ send = "email"
  /\ IF Configured("email") THEN send' = "waiting" /\ mailer' = "sending"
     ELSE send' = "done" /\ UNCHANGED mailer
  /\ UNCHANGED <<given, lastErr, mailSent, mailDone, taken, failures, ctxDone>>

(* The goroutine: smtp.SendMail returns, if ever. *)
MailEnds ==
  /\ mailer = "sending"
  /\ \E ok \in BOOLEAN :
       /\ mailSent' = ok
       /\ \/ taken' = taken \union {"email"}
          \/ ~ok /\ UNCHANGED taken
  /\ mailer' = "offering"
  /\ UNCHANGED <<send, given, lastErr, mailDone, failures, ctxDone>>

(* Mutant: done has no buffer.                                               *)
MailOffers_Unbuffered ==
  /\ mailer = "offering" /\ mailDone = <<>> /\ send = "waiting"
  /\ mailDone' = <<mailSent>>
  /\ mailer' = "over"
  /\ UNCHANGED <<send, given, lastErr, mailSent, taken, failures, ctxDone>>

(* The buffer of one takes the outcome, whether anybody waits for it or not. *)
MailOffers ==
  /\ mailer = "offering" /\ mailDone = <<>>
  /\ mailDone' = <<mailSent>>
  /\ mailer' = "over"
  /\ UNCHANGED <<send, given, lastErr, mailSent, taken, failures, ctxDone>>

(* The two cases of the select. *)
SelectMail ==
  /\ send = "waiting" /\ mailDone # <<>>
  /\ Called("email", Head(mailDone))
  /\ mailDone' = Tail(mailDone)
  /\ send' = "done"
  /\ UNCHANGED <<given, mailer, mailSent, taken, ctxDone>>

(* Mutant: the wait for a mail does not look at ctx.                         *)
SelectCancel_Never ==
  /\ send = "waiting" /\ ctxDone /\ mailDone # <<>>
  /\ Called("email", FALSE)
  /\ send' = "done"
  /\ UNCHANGED <<given, mailVars, taken, ctxDone>>

SelectCancel ==
  /\ send = "waiting" /\ ctxDone
  /\ Called("email", FALSE)
  /\ send' = "done"
  /\ UNCHANGED <<given, mailVars, taken, ctxDone>>

(* What the code does by itself, the rest being the services'. *)
Proceed ==
  \/ Start \/ MailStart \/ MailOffers \/ SelectMail \/ SelectCancel
  \/ \E s \in {"telegram", "discord"} : Post(s) \/ PostCancelled(s)

AlertNext ==
  \/ Proceed
  \/ \E s \in {"telegram", "discord"} : PostAnswered(s) \/ PostBreaks(s)
  \/ MailEnds
  \/ Cancel /\ UNCHANGED alertVars

AlertSpec ==
  /\ AlertInit /\ [][AlertNext]_<<alertVars, ctxDone>>
  /\ WF_<<alertVars, ctxDone>>(Proceed)

------------------------------------------------------------------------------
(* Properties. *)

(* No error means that every service that is completely configured has taken *)
(* the alert, and an error that a call to one of them failed, whichever came *)
(* last; the converse does not hold: an alert reported as failed may have    *)
(* been taken (alerts.go:60-92, 165-188).                                    *)
OutcomeIsTrue ==
  send = "done" =>
    /\ ~lastErr => {s \in Services : Configured(s)} \subseteq taken
    /\ lastErr <=> failures # {}
    /\ failures \subseteq {s \in Services : Configured(s)}

(* A cancel ends Send, whatever the services and the mail server do          *)
(* (alerts.go:105, 147, 182-187).                                            *)
CancelEndsSend == ctxDone ~> send \in {"done", "skipped"}

(* The goroutine of a mail outlives Send at most until smtp.SendMail returns *)
(* (alerts.go:177-180).                                                      *)
MailerEnds == mailer = "offering" ~> mailer = "over"
=============================================================================
