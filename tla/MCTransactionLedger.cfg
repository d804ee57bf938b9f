SPECIFICATION Spec
CONSTANTS
  t1 = t1
  t2 = t2
  c1 = c1
  d1 = d1
  near = near
  far = far
  m0 = m0
  k0 = k0
  p1 = p1
  g1 = g1
  Txn <- MCTxn
  Command = {}
  Domain = {d1}
  DomainOf <- MCDomainOf
  OwnerOf <- MCOwnerOf
  Statement <- MCStatement
  Kind <- MCKind
  PositionOf <- MCPositionOf
  Live = {near, far}
  Width <- MCWidth
  MaxStatements = 2
  MaxOpen = 2
  MaxGrants = 2
  MaxOther = 1
  None = None
INVARIANTS
    Reachable
    EffectsMatchResults
PROPERTIES
    ImplementsContract
CHECK_DEADLOCK FALSE
