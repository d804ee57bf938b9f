SPECIFICATION Spec
CONSTANTS
  r1 = r1
  r2 = r2
  r3 = r3
  q1 = q1
  q2 = q2
  Reference <- MCReference
  Request <- MCRequest
  Result = {ok, failed}
  IssuedAt <- MCIssuedAt
  Timestamp <- MCTimestamp
  RetryValidity = 2
  FutureSkew = 1
  Capacities = {1, 2}
  NoFence = NoFence
INVARIANTS
    AdmittedAtMostOnce
    IndexesAgree
    AnswersAgree
    WithinCapacity
PROPERTIES
    ImplementsLedger
