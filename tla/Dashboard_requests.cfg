SPECIFICATION Spec
CONSTANTS
  Requests = {r1, r2, r3}
  Readers = {h1}
  Types = {"ping", "tls"}
  MaxResults = 2
  PageSize = 2
INVARIANTS
  KeepsTheNewest
  PageIsAMoment
PROPERTY RequestsAreAnswered
