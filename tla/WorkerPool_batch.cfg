SPECIFICATION Spec
CONSTANTS
  Workers = {w1,w2,w3}
  NumJobs = 4
INVARIANTS
  AtMostOnce
  SendSafe
  CompleteUnlessCancelled
  PromptStop
PROPERTIES
  NoLeak
  ImplementsBatch
