SPECIFICATION AlertSpec
INVARIANTS
  OutcomeIsTrue
PROPERTIES
  CancelEndsSend
  MailerEnds
CHECK_DEADLOCK FALSE
