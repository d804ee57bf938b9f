SPECIFICATION CommitSpec
CONSTANTS
  t1 = t1
  t2 = t2
  c1 = c1
  d1 = d1
  d2 = d2
  near = near
  m0 = m0
  g1 = g1
  Txn <- MCTxn
  Command = {c1}
  Domain = {d1, d2}
  DomainOf <- MCDomainOf
  OwnerOf <- MCOwnerOf
  Statement <- MCStatement
  Kind <- MCKind
  PositionOf <- MCPositionOf
  Live = {near}
  Width <- MCWidth
  MaxStatements = 2
  MaxOpen = 2
  MaxGrants = 1
  MaxOther = 1
  None = None
  Node = {n1, n2}
  LiveIdentities = {near}
  Plannable = {near}
  Steps = 2
  MaxTerm = 3
  MaxDrift = 0
  MaxRestarts = 1
  Absent = Absent
INVARIANTS
    TransactionLeases
    CommandLeases
    CommitsOnce

    
CHECK_DEADLOCK FALSE
