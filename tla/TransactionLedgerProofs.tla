---------------------- MODULE TransactionLedgerProofs ----------------------
(* For any transactions, commands, domains, statements and bounds: the       *)
(* mutation leases that transactions and commands rely on are held.  For any *)
(* nodes that coordinate one COMMIT: its steps apply once and in order, and  *)
(* every answer to it says what became of it.                                *)
EXTENDS TransactionLedger, CommitCoordinator, TLAPS

\* A transaction is a record with the fields it is opened with.
IsTransaction(r) ==
  r = [state |-> r.state, statements |-> r.statements, latest |-> r.latest,
       plan |-> r.plan, lease |-> r.lease, next |-> r.next, results |-> r.results,
       applying |-> r.applying, outcome |-> r.outcome, accepted |-> r.accepted]

Shape ==
  /\ grants \in Nat
  /\ lease \in [Domain -> Lease \cup {None}]
  /\ txn = [t \in Txn |-> txn[t]]
  /\ \A t \in Txn : IsTransaction(txn[t])
  /\ command \in [Command -> [state : {"absent", "applying", "finished"},
                              bound : [Domain -> Lease \cup {None}]]]

\* The lease of a transaction belongs to its mutation owner, and only a commit with
\* statements has one.
OwnedByOwner ==
  \A t \in Txn : txn[t].lease # None =>
    /\ txn[t].lease \in Lease
    /\ txn[t].lease.owner = OwnerOf[t]
    /\ txn[t].state = "committing"
    /\ txn[t].statements # <<>>

\* A lease bound to a command belongs to it.
BoundToOwner ==
  \A c \in Command, d \in Domain :
    command[c].bound[d] # None => command[c].bound[d].owner = c

\* The inductive invariant of the leases.
LeaseInv ==
  /\ Shape
  /\ OwnedByOwner
  /\ BoundToOwner
  /\ TransactionLeases
  /\ CommandLeases

\* An entry that changes one transaction and keeps or lacks its lease changes no fact
\* about leases.
LEMMA QuietStep ==
  ASSUME LeaseInv, NEW t \in Txn, NEW r, IsTransaction(r),
         txn' = [txn EXCEPT ![t] = r],
         r.lease = txn[t].lease,
         r.lease # None => r.state = "committing" /\ r.statements = txn[t].statements,
         UNCHANGED <<grants, lease, command>>
  PROVE  LeaseInv'
<1>1. \A u \in Txn : txn'[u] = IF u = t THEN r ELSE txn[u]
  BY DEF LeaseInv, Shape
<1>2. txn' = [u \in Txn |-> txn'[u]]
  BY DEF LeaseInv, Shape
<1>3. Shape'
  BY <1>1, <1>2 DEF LeaseInv, Shape, IsTransaction
<1>4. OwnedByOwner'
  BY <1>1 DEF LeaseInv, OwnedByOwner
<1>5. BoundToOwner'
  BY DEF LeaseInv, BoundToOwner
<1>6. TransactionLeases'
  BY <1>1 DEF LeaseInv, TransactionLeases
<1>7. CommandLeases'
  BY DEF LeaseInv, CommandLeases
<1> QED
  BY <1>3, <1>4, <1>5, <1>6, <1>7 DEF LeaseInv

\* The records the entries of a transaction store.
LEMMA Records ==
  ASSUME LeaseInv, NEW t \in Txn
  PROVE  /\ IsTransaction(NoTransaction)
         /\ NoTransaction.lease = None
         /\ \A outcome, results :
              /\ IsTransaction(Finish(t, outcome, results))
              /\ Finish(t, outcome, results).lease = None
              /\ Finish(t, outcome, results).state = "finished"
         /\ \A identity, held :
              LET r == StartedTransaction(t, identity, held)
              IN  /\ IsTransaction(r)
                  /\ r.lease = held
                  /\ r.state = "committing"
                  /\ r.statements = txn[t].statements
<1>1. IsTransaction(txn[t])
  BY DEF LeaseInv, Shape
<1>2. IsTransaction(NoTransaction) /\ NoTransaction.lease = None
  BY DEF IsTransaction, NoTransaction
<1>3. ASSUME NEW outcome, NEW results
      PROVE  /\ IsTransaction(Finish(t, outcome, results))
             /\ Finish(t, outcome, results).lease = None
             /\ Finish(t, outcome, results).state = "finished"
  <2> DEFINE n == Len(txn[t].statements)
  <2>1. Finish(t, outcome, results) =
          [NoTransaction EXCEPT !.state = "finished", !.outcome = outcome,
                                !.results = results, !.accepted = n]
    BY DEF Finish
  <2> HIDE DEF n
  <2> QED
    BY <1>2, <2>1 DEF IsTransaction
<1>4. ASSUME NEW identity, NEW held
      PROVE  LET r == StartedTransaction(t, identity, held)
             IN  /\ IsTransaction(r)
                 /\ r.lease = held
                 /\ r.state = "committing"
                 /\ r.statements = txn[t].statements
  <2> DEFINE p == Plan(t, txn[t].statements, inputs[DomainOf[t]], identity)
  <2>1. StartedTransaction(t, identity, held) =
          [txn[t] EXCEPT !.state = "committing", !.latest = identity, !.lease = held,
                         !.plan = p]
    BY DEF StartedTransaction
  <2> HIDE DEF p
  <2> QED
    BY <1>1, <2>1 DEF IsTransaction
<1> QED
  BY <1>2, <1>3, <1>4

LEMMA InitLeases ==
  Init => LeaseInv
<1> SUFFICES ASSUME Init PROVE LeaseInv
  OBVIOUS
<1>1. \A t \in Txn : txn[t] = NoTransaction
  BY DEF Init
<1>2. IsTransaction(NoTransaction) /\ NoTransaction.lease = None
  BY DEF IsTransaction, NoTransaction
<1>3. Shape
  BY <1>1, <1>2 DEF Init, Shape, NoBinding
<1>4. OwnedByOwner /\ BoundToOwner /\ TransactionLeases /\ CommandLeases
  BY <1>1, <1>2 DEF Init, OwnedByOwner, BoundToOwner, TransactionLeases, CommandLeases,
                    NoBinding
<1> QED
  BY <1>3, <1>4 DEF LeaseInv

-----------------------------------------------------------------------------
(* Entries that leave the leases alone.                                    *)

LEMMA OpenStep ==
  ASSUME LeaseInv, NEW t \in Txn, OpenTransaction(t)
  PROVE  LeaseInv'
<1> DEFINE r == [txn[t] EXCEPT !.state = "open"]
<1>1. txn' = [txn EXCEPT ![t] = r]
  BY DEF OpenTransaction
<1>2. IsTransaction(txn[t]) /\ txn[t].lease = None
  BY DEF LeaseInv, Shape, OwnedByOwner, OpenTransaction
<1>3. IsTransaction(r) /\ r.lease = None
  BY <1>2 DEF IsTransaction
<1>4. UNCHANGED <<grants, lease, command>>
  BY DEF OpenTransaction
<1> HIDE DEF r
<1> QED
  BY <1>1, <1>2, <1>3, <1>4, QuietStep

\* Finishing a transaction that is not committing, or that has no statements.
LEMMA FinishStep ==
  ASSUME LeaseInv, NEW t \in Txn, NEW outcome, NEW results,
         txn[t].state # "committing" \/ txn[t].statements = <<>>,
         txn' = [txn EXCEPT ![t] = Finish(t, outcome, results)],
         UNCHANGED <<grants, lease, command>>
  PROVE  LeaseInv'
<1>1. txn[t].lease = None
  BY DEF LeaseInv, OwnedByOwner
<1>2. /\ IsTransaction(Finish(t, outcome, results))
      /\ Finish(t, outcome, results).lease = None
  BY Records
<1> QED
  BY <1>1, <1>2, QuietStep

LEMMA QueueStep ==
  ASSUME LeaseInv, NEW t \in Txn, NEW s, QueueTransactionStatement(t, s)
  PROVE  LeaseInv'
<1> DEFINE q == Append(txn[t].statements, s)
           r == [txn[t] EXCEPT !.statements = q]
<1>1. txn' = [txn EXCEPT ![t] = r]
  BY DEF QueueTransactionStatement
<1>2. IsTransaction(txn[t]) /\ txn[t].lease = None
  BY DEF LeaseInv, Shape, OwnedByOwner, QueueTransactionStatement, QueueAdmission
<1> HIDE DEF q
<1>3. IsTransaction(r) /\ r.lease = None
  BY <1>2 DEF IsTransaction
<1>4. UNCHANGED <<grants, lease, command>>
  BY DEF QueueTransactionStatement
<1> HIDE DEF r
<1> QED
  BY <1>1, <1>2, <1>3, <1>4, QuietStep

LEMMA StaleStep ==
  ASSUME LeaseInv, NEW t \in Txn, NEW identity, StalePreview(t, identity)
  PROVE  LeaseInv'
<1> DEFINE r == [txn[t] EXCEPT !.latest = identity]
<1>1. txn' = [txn EXCEPT ![t] = r]
  BY DEF StalePreview
<1>2. IsTransaction(txn[t]) /\ txn[t].state = "committing"
  BY DEF LeaseInv, Shape, StalePreview
<1>3. /\ IsTransaction(r)
      /\ r.lease = txn[t].lease
      /\ r.state = "committing"
      /\ r.statements = txn[t].statements
  BY <1>2 DEF IsTransaction
<1>4. UNCHANGED <<grants, lease, command>>
  BY DEF StalePreview
<1> HIDE DEF r
<1> QED
  BY <1>1, <1>3, <1>4, QuietStep

LEMMA AdvanceStep ==
  ASSUME LeaseInv, NEW t \in Txn, NEW success, AdvanceTransactionCommit(t, success)
  PROVE  LeaseInv'
<1> DEFINE a == ApplyingStep(t, CurrentStep(t), success)
           r == [txn[t] EXCEPT !.applying = a]
<1>1. txn' = [txn EXCEPT ![t] = r]
  BY DEF AdvanceTransactionCommit
<1>2. IsTransaction(txn[t]) /\ txn[t].state = "committing"
  BY DEF LeaseInv, Shape, AdvanceTransactionCommit
<1> HIDE DEF a
<1>3. /\ IsTransaction(r)
      /\ r.lease = txn[t].lease
      /\ r.state = "committing"
      /\ r.statements = txn[t].statements
  BY <1>2 DEF IsTransaction
<1>4. UNCHANGED <<grants, lease, command>>
  BY DEF AdvanceTransactionCommit
<1> HIDE DEF r
<1> QED
  BY <1>1, <1>3, <1>4, QuietStep

LEMMA RemoveStep ==
  ASSUME LeaseInv, NEW t \in Txn, RemoveFinishedTransaction(t)
  PROVE  LeaseInv'
<1> DEFINE r == [NoTransaction EXCEPT !.state = "removed"]
<1>1. txn' = [txn EXCEPT ![t] = r]
  BY DEF RemoveFinishedTransaction
<1>2. txn[t].lease = None
  BY DEF LeaseInv, OwnedByOwner, RemoveFinishedTransaction
<1>3. IsTransaction(r) /\ r.lease = None
  BY DEF IsTransaction, NoTransaction
<1>4. UNCHANGED <<grants, lease, command>>
  BY DEF RemoveFinishedTransaction
<1> HIDE DEF r
<1> QED
  BY <1>1, <1>2, <1>3, <1>4, QuietStep

-----------------------------------------------------------------------------
(* Entries that acquire leases.                                            *)

\* Joining returns the lease that is held; a lease that is granted is new.
LEMMA Admission ==
  ASSUME LeaseInv, NEW d \in Domain, NEW owner \in Owner, Admitted(d, owner)
  PROVE  /\ AdmittedLease(d, owner) \in Lease
         /\ AdmittedLease(d, owner) # None
         /\ AdmittedLease(d, owner).owner = owner
         /\ lease[d] # None => AdmittedLease(d, owner) = lease[d]
BY LedgerAssumption DEF LeaseInv, Shape, Admitted, AdmittedLease, NextLease, Lease, Owner

LEMMA StartStep ==
  ASSUME LeaseInv, NEW t \in Txn, NEW identity, StartTransactionCommit(t, identity)
  PROVE  LeaseInv'
<1> DEFINE d == DomainOf[t]
           L == AdmittedLease(d, OwnerOf[t])
<1>0. txn[t].lease = None /\ d \in Domain /\ OwnerOf[t] \in Owner
  BY LedgerAssumption DEF LeaseInv, OwnedByOwner, StartTransactionCommit, Owner
<1>1. CASE ~RequiresDomainMutation(t)
  <2> DEFINE r == StartedTransaction(t, identity, None)
  <2>1. txn' = [txn EXCEPT ![t] = r]
    BY <1>1 DEF StartTransactionCommit
  <2>2. IsTransaction(r) /\ r.lease = None
    BY Records
  <2>3. UNCHANGED <<grants, lease, command>>
    BY <1>1 DEF StartTransactionCommit
  <2> HIDE DEF r
  <2> QED
    BY <1>0, <2>1, <2>2, <2>3, QuietStep
<1>2. CASE RequiresDomainMutation(t)
  <2> DEFINE r == StartedTransaction(t, identity, L)
  <2>1. /\ Admitted(d, OwnerOf[t])
        /\ txn' = [txn EXCEPT ![t] = r]
        /\ lease' = [lease EXCEPT ![d] = L]
        /\ grants' \in {grants, grants + 1}
        /\ UNCHANGED command
    BY <1>2 DEF StartTransactionCommit
  <2>2. /\ L \in Lease /\ L # None /\ L.owner = OwnerOf[t]
        /\ lease[d] # None => L = lease[d]
    BY <1>0, <2>1, Admission
  <2>3. /\ IsTransaction(r)
        /\ r.lease = L
        /\ r.state = "committing"
        /\ r.statements = txn[t].statements
    BY Records
  <2>4. txn[t].statements # <<>>
    BY <1>2 DEF RequiresDomainMutation
  <2>5. Admitted(d, OwnerOf[t]) => lease[d] = None \/ lease[d].owner = OwnerOf[t]
    BY DEF Admitted
  <2> HIDE DEF r, L, d
  <2>6. \A u \in Txn : txn'[u] = IF u = t THEN r ELSE txn[u]
    BY <2>1 DEF LeaseInv, Shape
  <2>7. \A e \in Domain : lease'[e] = IF e = d THEN L ELSE lease[e]
    BY <2>1 DEF LeaseInv, Shape
  <2>8. Shape'
    <3>1. txn' = [u \in Txn |-> txn'[u]]
      BY <2>1 DEF LeaseInv, Shape
    <3>2. \A u \in Txn : IsTransaction(txn'[u])
      BY <2>3, <2>6 DEF LeaseInv, Shape
    <3>3. lease' \in [Domain -> Lease \cup {None}] /\ grants' \in Nat
      BY <1>0, <2>1, <2>2 DEF LeaseInv, Shape
    <3> QED
      BY <2>1, <3>1, <3>2, <3>3 DEF LeaseInv, Shape, IsTransaction
  <2>9. OwnedByOwner'
    BY <2>2, <2>3, <2>4, <2>6 DEF LeaseInv, OwnedByOwner
  <2>10. BoundToOwner'
    BY <2>1 DEF LeaseInv, BoundToOwner
  <2>11. TransactionLeases'
    <3> SUFFICES ASSUME NEW u \in Txn, OwnerOf[u] = u
                 PROVE  /\ txn'[u].lease # None => lease'[DomainOf[u]] = txn'[u].lease
                        /\ \A e \in Domain : lease'[e] # None /\ lease'[e].owner = u =>
                             e = DomainOf[u] /\ txn'[u].lease = lease'[e]
      BY DEF TransactionLeases
    <3>1. OwnerOf[t] = u => u = t
      BY LedgerAssumption
    <3>2. DomainOf[u] \in Domain
      BY LedgerAssumption
    <3>3. /\ txn[u].lease # None => lease[DomainOf[u]] = txn[u].lease
          /\ txn[u].lease # None => txn[u].lease.owner = u
          /\ \A e \in Domain : lease[e] # None /\ lease[e].owner = u =>
               e = DomainOf[u] /\ txn[u].lease = lease[e]
      BY DEF LeaseInv, TransactionLeases, OwnedByOwner
    <3>4. CASE u = t
      BY <2>2, <2>3, <2>6, <2>7, <3>2, <3>3, <3>4 DEF d
    <3>5. CASE u # t
      <4>1. txn'[u] = txn[u]
        BY <2>6, <3>5
      <4>2. L.owner # u
        BY <2>2, <3>1, <3>5
      <4>3. ~(lease[d] # None /\ lease[d].owner = u)
        BY <2>1, <2>5, <3>1, <3>5
      <4> QED
        BY <2>7, <3>2, <3>3, <4>1, <4>2, <4>3
    <3> QED
      BY <3>4, <3>5
  <2>12. CommandLeases'
    BY <2>1, <2>2, <2>7 DEF LeaseInv, CommandLeases
  <2> QED
    BY <2>8, <2>9, <2>10, <2>11, <2>12 DEF LeaseInv
<1> QED
  BY <1>1, <1>2

\* A command that acquires or releases leases: `held` is what it is bound to next, and
\* every domain it does not touch keeps its lease.
LEMMA CommandStep ==
  ASSUME LeaseInv, NEW c \in Command, NEW state \in {"applying", "finished"},
         NEW held \in [Domain -> Lease \cup {None}],
         command' = [command EXCEPT ![c] = [state |-> state, bound |-> held]],
         lease' \in [Domain -> Lease \cup {None}],
         grants' \in Nat,
         UNCHANGED txn,
         \A d \in Domain : held[d] # None =>
           state = "applying" /\ held[d].owner = c /\ lease'[d] = held[d],
         \A d \in Domain : lease'[d] # lease[d] =>
           /\ lease[d] # None => lease[d].owner = c
           /\ lease'[d] # None => lease'[d].owner = c
  PROVE  LeaseInv'
<1>1. \A b \in Command :
        command'[b] = IF b = c THEN [state |-> state, bound |-> held] ELSE command[b]
  BY DEF LeaseInv, Shape
<1>2. Shape'
  BY <1>1 DEF LeaseInv, Shape, IsTransaction
<1>3. OwnedByOwner'
  BY DEF LeaseInv, OwnedByOwner
<1>4. BoundToOwner'
  BY <1>1 DEF LeaseInv, BoundToOwner
<1>5. TransactionLeases'
  <2> SUFFICES ASSUME NEW u \in Txn, OwnerOf[u] = u
               PROVE  /\ txn[u].lease # None => lease'[DomainOf[u]] = txn[u].lease
                      /\ \A e \in Domain : lease'[e] # None /\ lease'[e].owner = u =>
                           e = DomainOf[u] /\ txn[u].lease = lease'[e]
    BY DEF TransactionLeases
  <2>1. u # c /\ DomainOf[u] \in Domain
    BY LedgerAssumption
  <2>2. /\ txn[u].lease # None => lease[DomainOf[u]] = txn[u].lease
        /\ txn[u].lease # None => txn[u].lease.owner = u
        /\ \A e \in Domain : lease[e] # None /\ lease[e].owner = u =>
             e = DomainOf[u] /\ txn[u].lease = lease[e]
    BY DEF LeaseInv, TransactionLeases, OwnedByOwner
  <2> QED
    BY <2>1, <2>2
<1>6. CommandLeases'
  <2> SUFFICES ASSUME NEW b \in Command, NEW d \in Domain, command'[b].bound[d] # None
               PROVE  command'[b].state = "applying" /\ command'[b].bound[d] = lease'[d]
    BY DEF CommandLeases
  <2>1. CASE b = c
    BY <1>1, <2>1
  <2>2. CASE b # c
    <3>1. command'[b] = command[b]
      BY <1>1, <2>2
    <3>2. /\ command[b].state = "applying"
          /\ command[b].bound[d] = lease[d]
          /\ lease[d].owner = b
      BY <3>1 DEF LeaseInv, CommandLeases, BoundToOwner
    <3> QED
      BY <2>2, <3>1, <3>2
  <2> QED
    BY <2>1, <2>2
<1> QED
  BY <1>2, <1>3, <1>4, <1>5, <1>6 DEF LeaseInv

LEMMA AdmitStep ==
  ASSUME LeaseInv, NEW c \in Command, NEW domains \in SUBSET Domain,
         AdmitCommandExecution(c, domains)
  PROVE  LeaseInv'
<1> DEFINE L == NextLease(c)
           A(d) == IF lease[d] = None THEN L ELSE lease[d]
           held == [d \in Domain |-> IF d \in domains THEN A(d) ELSE None]
<1>1. /\ command' = [command EXCEPT ![c] = [state |-> "applying", bound |-> held]]
      /\ lease' = [d \in Domain |-> IF d \in domains THEN A(d) ELSE lease[d]]
      /\ grants' \in {grants, grants + 1}
      /\ UNCHANGED txn
  BY DEF AdmitCommandExecution, AdmittedLease
<1>2. \A d \in domains : lease[d] = None \/ lease[d].owner = c
  BY DEF AdmitCommandExecution, Admitted
<1>3. L \in Lease /\ L.owner = c
  BY DEF NextLease, Lease, Owner, LeaseInv, Shape
<1>4. lease \in [Domain -> Lease \cup {None}] /\ grants \in Nat
  BY DEF LeaseInv, Shape
<1> HIDE DEF L
<1>5. held \in [Domain -> Lease \cup {None}]
  BY <1>3, <1>4
<1>6. lease' \in [Domain -> Lease \cup {None}] /\ grants' \in Nat
  BY <1>1, <1>3, <1>4
<1>7. \A d \in Domain : held[d] # None => held[d].owner = c /\ lease'[d] = held[d]
  BY <1>1, <1>2, <1>3
<1>8. \A d \in Domain : lease'[d] # lease[d] =>
        /\ lease[d] # None => lease[d].owner = c
        /\ lease'[d] # None => lease'[d].owner = c
  BY <1>1, <1>3
<1>9. UNCHANGED txn
  BY <1>1
<1>10. command' = [command EXCEPT ![c] = [state |-> "applying", bound |-> held]]
  BY <1>1
<1> HIDE DEF held
<1> QED
  BY <1>5, <1>6, <1>7, <1>8, <1>9, <1>10, CommandStep

LEMMA AcquireStep ==
  ASSUME LeaseInv, NEW c \in Command, NEW d \in Domain, AcquireCommandDomainMutation(c, d)
  PROVE  LeaseInv'
<1> DEFINE L == AdmittedLease(d, c)
           held == [command[c].bound EXCEPT ![d] = L]
<1>1. /\ L \in Lease /\ L # None /\ L.owner = c
      /\ lease[d] # None => L = lease[d]
  BY Admission DEF AcquireCommandDomainMutation, Owner
<1>2. /\ command[c].state = "applying"
      /\ command' = [command EXCEPT ![c].bound[d] = L]
      /\ lease' = [lease EXCEPT ![d] = L]
      /\ UNCHANGED txn
  BY DEF AcquireCommandDomainMutation
<1>3. grants' \in Nat
  BY DEF AcquireCommandDomainMutation, LeaseInv, Shape
<1> HIDE DEF L
<1>4. held \in [Domain -> Lease \cup {None}]
  BY <1>1 DEF LeaseInv, Shape
<1>5. command' = [command EXCEPT ![c] = [state |-> "applying", bound |-> held]]
  <2>1. command[c] = [state |-> "applying", bound |-> command[c].bound]
    BY <1>2 DEF LeaseInv, Shape
  <2>2. command' = [command EXCEPT ![c] = [command[c] EXCEPT !.bound = held]]
    BY <1>2
  <2> HIDE DEF held
  <2>3. [command[c] EXCEPT !.bound = held] = [state |-> "applying", bound |-> held]
    BY <2>1
  <2> QED
    BY <2>2, <2>3
<1>6. \A e \in Domain : lease'[e] = IF e = d THEN L ELSE lease[e]
  BY <1>2 DEF LeaseInv, Shape
<1>7. lease' \in [Domain -> Lease \cup {None}]
  BY <1>1, <1>2 DEF LeaseInv, Shape
<1>8. \A e \in Domain : held[e] = IF e = d THEN L ELSE command[c].bound[e]
  BY DEF LeaseInv, Shape
<1>9. \A e \in Domain : held[e] # None => held[e].owner = c /\ lease'[e] = held[e]
  BY <1>1, <1>6, <1>8 DEF LeaseInv, BoundToOwner, CommandLeases
<1>10. \A e \in Domain : lease'[e] # lease[e] =>
         /\ lease[e] # None => lease[e].owner = c
         /\ lease'[e] # None => lease'[e].owner = c
  BY <1>1, <1>6
<1>11. UNCHANGED txn
  BY <1>2
<1> HIDE DEF held
<1> QED
  BY <1>11, <1>3, <1>4, <1>5, <1>7, <1>9, <1>10, CommandStep

LEMMA ReleaseStep ==
  ASSUME LeaseInv, NEW c \in Command, NEW d \in Domain, ReleaseCommandDomainMutation(c, d)
  PROVE  LeaseInv'
<1> DEFINE held == [command[c].bound EXCEPT ![d] = None]
<1>1. /\ command[c].state = "applying"
      /\ command[c].bound[d] # None
      /\ command[c].bound[d] = lease[d]
      /\ lease' = [lease EXCEPT ![d] = None]
      /\ command' = [command EXCEPT ![c].bound[d] = None]
      /\ UNCHANGED <<grants, txn>>
  BY DEF ReleaseCommandDomainMutation
<1>2. held \in [Domain -> Lease \cup {None}]
  BY DEF LeaseInv, Shape
<1>3. command' = [command EXCEPT ![c] = [state |-> "applying", bound |-> held]]
  <2>1. command[c] = [state |-> "applying", bound |-> command[c].bound]
    BY <1>1 DEF LeaseInv, Shape
  <2>2. command' = [command EXCEPT ![c] = [command[c] EXCEPT !.bound = held]]
    BY <1>1
  <2> HIDE DEF held
  <2>3. [command[c] EXCEPT !.bound = held] = [state |-> "applying", bound |-> held]
    BY <2>1
  <2> QED
    BY <2>2, <2>3
<1>4. \A e \in Domain : lease'[e] = IF e = d THEN None ELSE lease[e]
  BY <1>1 DEF LeaseInv, Shape
<1>5. lease' \in [Domain -> Lease \cup {None}] /\ grants' \in Nat
  BY <1>1 DEF LeaseInv, Shape
<1>6. \A e \in Domain : held[e] = IF e = d THEN None ELSE command[c].bound[e]
  BY DEF LeaseInv, Shape
<1>7. \A e \in Domain : held[e] # None => held[e].owner = c /\ lease'[e] = held[e]
  BY <1>4, <1>6 DEF LeaseInv, BoundToOwner, CommandLeases
<1>8. \A e \in Domain : lease'[e] # lease[e] => lease[e].owner = c /\ lease'[e] = None
  BY <1>1, <1>4 DEF LeaseInv, BoundToOwner
<1> HIDE DEF held
<1> QED
  BY <1>1, <1>2, <1>3, <1>5, <1>7, <1>8, CommandStep

LEMMA FinishCommandStep ==
  ASSUME LeaseInv, NEW c \in Command, FinishCommandExecution(c)
  PROVE  LeaseInv'
<1>1. command' = [command EXCEPT ![c] = [state |-> "finished", bound |-> NoBinding]]
  BY DEF FinishCommandExecution
<1>2. \A d \in Domain : lease'[d] = IF command[c].bound[d] = None THEN lease[d] ELSE None
  BY DEF FinishCommandExecution
<1>3. lease' \in [Domain -> Lease \cup {None}] /\ grants' \in Nat /\ UNCHANGED txn
  BY DEF FinishCommandExecution, LeaseInv, Shape
<1>4. /\ NoBinding \in [Domain -> Lease \cup {None}]
      /\ \A d \in Domain : NoBinding[d] = None
  BY DEF NoBinding
<1>5. \A d \in Domain : lease'[d] # lease[d] => lease[d].owner = c /\ lease'[d] = None
  BY <1>2 DEF LeaseInv, BoundToOwner, CommandLeases
<1> QED
  BY <1>1, <1>3, <1>4, <1>5, CommandStep

-----------------------------------------------------------------------------
(* Entries that release leases, and the theorem.                           *)

\* A completed step leaves the commit running under its lease, or ends it.
LEMMA CompletedCases ==
  ASSUME LeaseInv, NEW t \in Txn, NEW applied, txn[t].state = "committing"
  PROVE  LET done == Completed(t, applied)
         IN  /\ IsTransaction(done)
             /\ \/ /\ done.state = "committing"
                   /\ done.lease = txn[t].lease
                   /\ done.statements = txn[t].statements
                \/ done.state = "finished" /\ done.lease = None
<1> DEFINE a == txn[t].applying
           results == Append(txn[t].results,
                        [first |-> a.first, last |-> a.last, effect |-> a.effect,
                         success |-> a.success /\ applied])
           outcome == IF applied THEN a.completion ELSE "failed"
           last == a.last
           next == [txn[t] EXCEPT !.applying = None, !.next = last,
                                  !.results = results]
<1>1. Completed(t, applied) =
        IF outcome = None THEN next ELSE Finish(t, outcome, results)
  BY DEF Completed
<1>2. IsTransaction(txn[t])
  BY DEF LeaseInv, Shape
<1>3. PICK q : q = next
  OBVIOUS
<1> HIDE DEF results, outcome, last
<1>4. /\ IsTransaction(q)
      /\ q.state = "committing"
      /\ q.lease = txn[t].lease
      /\ q.statements = txn[t].statements
  BY <1>2, <1>3 DEF IsTransaction
<1>5. /\ IsTransaction(Finish(t, outcome, results))
      /\ Finish(t, outcome, results).lease = None
      /\ Finish(t, outcome, results).state = "finished"
  BY Records
<1> HIDE DEF next
<1> QED
  BY <1>1, <1>3, <1>4, <1>5

LEMMA CompleteStep ==
  ASSUME LeaseInv, NEW t \in Txn, NEW how, CompleteTransactionApplication(t, how)
  PROVE  LeaseInv'
<1> DEFINE d == DomainOf[t]
           held == txn[t].lease
           done == Completed(t, how = "applied")
<1>1. /\ txn[t].state = "committing"
      /\ txn' = [txn EXCEPT ![t] = done]
      /\ lease' = IF done.state = "finished" /\ ReleasesLease(held)
                  THEN [lease EXCEPT ![d] = None] ELSE lease
      /\ UNCHANGED <<grants, command>>
  BY DEF CompleteTransactionApplication
<1>2. held # None => lease[d] = held
  BY DEF CompleteTransactionApplication, HoldsDomainMutation
<1>3. /\ IsTransaction(done)
      /\ \/ /\ done.state = "committing"
            /\ done.lease = held
            /\ done.statements = txn[t].statements
         \/ done.state = "finished" /\ done.lease = None
  BY <1>1, CompletedCases
<1> HIDE DEF done
<1>4. CASE done.state = "committing"
  <2>1. lease' = lease
    BY <1>1, <1>4
  <2> QED
    BY <1>1, <1>3, <1>4, <2>1, QuietStep
<1>5. CASE done.state = "finished"
  <2>1. \A u \in Txn : txn'[u] = IF u = t THEN done ELSE txn[u]
    BY <1>1 DEF LeaseInv, Shape
  <2>2. done.lease = None
    BY <1>3, <1>5
  <2>3. \A e \in Domain :
          lease'[e] = IF e = d /\ ReleasesLease(held) THEN None ELSE lease[e]
    BY <1>1, <1>5 DEF LeaseInv, Shape
  <2>4. ReleasesLease(held) <=> held # None /\ held.owner \in Txn
    BY DEF ReleasesLease
  <2>5. held # None => held.owner = OwnerOf[t]
    BY DEF LeaseInv, OwnedByOwner
  <2>6. Shape'
    <3>1. txn' = [u \in Txn |-> txn'[u]]
      BY <1>1 DEF LeaseInv, Shape
    <3>2. \A u \in Txn : IsTransaction(txn'[u])
      BY <1>3, <2>1 DEF LeaseInv, Shape
    <3>3. lease' \in [Domain -> Lease \cup {None}]
      BY <1>1 DEF LeaseInv, Shape
    <3> QED
      BY <1>1, <3>1, <3>2, <3>3 DEF LeaseInv, Shape, IsTransaction
  <2>7. OwnedByOwner'
    BY <2>1, <2>2 DEF LeaseInv, OwnedByOwner
  <2>8. BoundToOwner'
    BY <1>1 DEF LeaseInv, BoundToOwner
  <2>9. TransactionLeases'
    <3> SUFFICES ASSUME NEW u \in Txn, OwnerOf[u] = u
                 PROVE  /\ txn'[u].lease # None => lease'[DomainOf[u]] = txn'[u].lease
                        /\ \A e \in Domain : lease'[e] # None /\ lease'[e].owner = u =>
                             e = DomainOf[u] /\ txn'[u].lease = lease'[e]
      BY DEF TransactionLeases
    <3>1. DomainOf[u] \in Domain /\ (OwnerOf[t] \in Txn => OwnerOf[t] = t)
      BY LedgerAssumption
    <3>2. /\ txn[u].lease # None => lease[DomainOf[u]] = txn[u].lease
          /\ txn[u].lease # None => txn[u].lease.owner = u
          /\ \A e \in Domain : lease[e] # None /\ lease[e].owner = u =>
               e = DomainOf[u] /\ txn[u].lease = lease[e]
      BY DEF LeaseInv, TransactionLeases, OwnedByOwner
    <3> HIDE DEF held
    <3>3. CASE u = t
      <4>1. \A e \in Domain : ~(lease'[e] # None /\ lease'[e].owner = u)
        BY <2>3, <2>4, <2>5, <3>2, <3>3 DEF held
      <4> QED
        BY <2>1, <2>2, <3>3, <4>1
    <3>4. CASE u # t
      <4>1. txn'[u] = txn[u]
        BY <2>1, <3>4
      <4>2. ReleasesLease(held) => lease[d].owner = t
        BY <1>2, <2>4, <2>5, <3>1
      <4> QED
        BY <2>3, <3>1, <3>2, <3>4, <4>1, <4>2
    <3> QED
      BY <3>3, <3>4
  <2>10. CommandLeases'
    <3> SUFFICES ASSUME NEW c \in Command, NEW e \in Domain, command[c].bound[e] # None
                 PROVE  command[c].state = "applying" /\ command[c].bound[e] = lease'[e]
      BY <1>1 DEF CommandLeases
    <3>1. /\ command[c].state = "applying"
          /\ command[c].bound[e] = lease[e]
          /\ lease[e].owner = c
      BY DEF LeaseInv, CommandLeases, BoundToOwner
    <3>2. c \notin Txn
      BY LedgerAssumption
    <3> QED
      BY <1>2, <2>3, <2>4, <3>1, <3>2
  <2> QED
    BY <2>6, <2>7, <2>8, <2>9, <2>10 DEF LeaseInv
<1> QED
  BY <1>3, <1>4, <1>5

LEMMA UntouchedStep ==
  ASSUME LeaseInv, UNCHANGED <<grants, lease, txn, command>>
  PROVE  LeaseInv'
BY DEF LeaseInv, Shape, IsTransaction, OwnedByOwner, BoundToOwner, TransactionLeases,
       CommandLeases

LEMMA TransactionEntryStep ==
  ASSUME LeaseInv, NEW t \in Txn, TransactionEntry(t)
  PROVE  LeaseInv'
<1>1. CASE OpenTransaction(t)
  BY <1>1, OpenStep
<1>2. CASE ExpireTransaction(t)
  BY <1>2, FinishStep DEF ExpireTransaction
<1>3. CASE \E s \in Statement : QueueTransactionStatement(t, s)
  BY <1>3, QueueStep
<1>4. CASE RevertTransaction(t)
  BY <1>4, FinishStep DEF RevertTransaction
<1>5. CASE \E identity \in Live : StartTransactionCommit(t, identity)
  BY <1>5, StartStep
<1>6. CASE \E identity \in Live : StalePreview(t, identity)
  BY <1>6, StaleStep
<1>7. CASE FailTransactionCommitAdmission(t)
  BY <1>7, FinishStep DEF FailTransactionCommitAdmission
<1>8. CASE \E success \in BOOLEAN : AdvanceTransactionCommit(t, success)
  BY <1>8, AdvanceStep
<1>9. CASE \E how \in {"applied", "failed", "rolledback"} :
             CompleteTransactionApplication(t, how)
  BY <1>9, CompleteStep
<1>10. CASE FinishEmptyTransactionCommit(t)
  BY <1>10, FinishStep DEF FinishEmptyTransactionCommit
<1>11. CASE RemoveFinishedTransaction(t)
  BY <1>11, RemoveStep
<1> QED
  BY <1>1, <1>2, <1>3, <1>4, <1>5, <1>6, <1>7, <1>8, <1>9, <1>10, <1>11
  DEF TransactionEntry

LEMMA CommandEntryStep ==
  ASSUME LeaseInv, NEW c \in Command, CommandEntry(c)
  PROVE  LeaseInv'
BY AdmitStep, AcquireStep, ReleaseStep, FinishCommandStep DEF CommandEntry

LEMMA DomainEntryStep ==
  ASSUME LeaseInv, NEW d \in Domain, DomainEntry(d)
  PROVE  LeaseInv'
<1>1. UNCHANGED <<grants, lease, txn, command>>
  BY DEF DomainEntry, ReplaceDomainSchedule, PutDomain, PutDomainAndSchedule,
         UpdateKafkaPartitionSchedule, ApplyAutomaticDomainSchedule, PauseDomain, OtherChange
<1> QED
  BY <1>1, UntouchedStep

LEMMA LeasesInductive ==
  LeaseInv /\ [Next]_vars => LeaseInv'
<1> SUFFICES ASSUME LeaseInv, [Next]_vars PROVE LeaseInv'
  OBVIOUS
<1>1. CASE Next
  BY <1>1, TransactionEntryStep, CommandEntryStep, DomainEntryStep DEF Next
<1>2. CASE UNCHANGED vars
  BY <1>2, UntouchedStep DEF vars
<1> QED
  BY <1>1, <1>2

\* For any transactions and domains, and in whatever order the entries of their
\* coordinators are applied: a commit that owns its lease holds it until it ends, and
\* a terminal transaction holds none.
THEOREM TransactionLeasesHeld == Spec => []TransactionLeases
<1>1. LeaseInv => TransactionLeases
  BY DEF LeaseInv
<1> QED
  BY <1>1, InitLeases, LeasesInductive, PTL DEF Spec

\* For any commands and domains: an applying command never loses a lease bound to it,
\* whatever the transactions it runs and the other commands do.
THEOREM CommandLeasesHeld == Spec => []CommandLeases
<1>1. LeaseInv => CommandLeases
  BY DEF LeaseInv
<1> QED
  BY <1>1, InitLeases, LeasesInductive, PTL DEF Spec

\* Two transactions that own their leases never commit in one domain at once.
DomainExclusion ==
  \A t, u \in Txn :
    /\ OwnerOf[t] = t /\ txn[t].lease # None
    /\ OwnerOf[u] = u /\ txn[u].lease # None
    /\ DomainOf[t] = DomainOf[u]
    => t = u

\* The leases serialise the commits of a domain.
THEOREM CommitsExclude == Spec => []DomainExclusion
<1>1. LeaseInv => DomainExclusion
  BY DEF LeaseInv, OwnedByOwner, TransactionLeases, DomainExclusion
<1> QED
  BY <1>1, InitLeases, LeasesInductive, PTL DEF Spec

-----------------------------------------------------------------------------
(* The coordinators of one COMMIT, CommitCoordinator, for any nodes, live      *)
(* identities and bounds.                                                      *)

FinalOutcomes == {"committed", "failed", "expired"}

\* The fields of the replicated transaction.
IsControl(c) ==
  c = [state |-> c.state, inputs |-> c.inputs, expected |-> c.expected,
       latest |-> c.latest, reports |-> c.reports, plan |-> c.plan, done |-> c.done,
       applying |-> c.applying, effects |-> c.effects, outcome |-> c.outcome,
       answer |-> c.answer]

\* Progress and effects go together: an unfinished step has its effect exactly when it
\* is applying as a success.
Progress(c) ==
  /\ c.state \in {"open", "committing", "finished"}
  /\ c.done \in 0..Steps
  /\ c.state # "finished" => c.done < Steps
  /\ c.effects \in Seq(Nat)
  /\ c.effects = [i \in 1..Len(c.effects) |-> i - 1]
  /\ c.applying \in {Absent, "success", "failure"}
  /\ c.applying # Absent => c.state = "committing"
  /\ c.applying = "success" => Len(c.effects) = c.done + 1
  /\ c.applying # "success" /\ c.state # "finished" => Len(c.effects) = c.done
  /\ c.done <= Len(c.effects) /\ Len(c.effects) <= c.done + 1
  /\ c.state = "finished" <=> c.outcome \in FinalOutcomes
  /\ c.outcome = "committed" => c.done = Steps

\* A result that names an outcome names the one the transaction finished with.
Agrees(r) ==
  r # Absent /\ r.disposition \in FinalOutcomes =>
    control.state = "finished" /\ r.disposition = control.outcome

\* The inductive invariant of the coordinators. What a node has applied is an earlier
\* state of the log, so an outcome it has seen is the outcome; and a finished transaction
\* keeps its outcome.
CommitInv ==
  /\ IsControl(control)
  /\ Progress(control)
  /\ view = [n \in Node |-> view[n]]
  /\ \A n \in Node : view[n].state = "finished" =>
       control.state = "finished" /\ control.outcome = view[n].outcome
  /\ commit = [n \in Node |-> commit[n]]
  /\ \A n \in Node :
       /\ commit[n] = [pc |-> commit[n].pc, latest |-> commit[n].latest,
                       preview |-> commit[n].preview, result |-> commit[n].result]
       /\ commit[n].pc \in {"idle", "planning", "starting", "failing", "executing",
                            "answering"}
       /\ Agrees(commit[n].result)
  /\ Agrees(control.answer)
  /\ exec = [n \in Node |-> exec[n]]
  /\ \A n \in Node :
       /\ exec[n] = [pc |-> exec[n].pc, done |-> exec[n].done]
       /\ exec[n].pc \in {"off", "running", "advancing", "failing", "completing"}

\* What every step leaves of the command and the executors.
CommandSteps ==
  /\ commit' = [n \in Node |-> commit'[n]]
  /\ \A n \in Node :
       /\ commit'[n] = [pc |-> commit'[n].pc, latest |-> commit'[n].latest,
                        preview |-> commit'[n].preview, result |-> commit'[n].result]
       /\ commit'[n].pc \in {"idle", "planning", "starting", "failing", "executing",
                             "answering"}
       /\ commit'[n].result = commit[n].result \/ Agrees(commit[n].result)'

ExecutorSteps ==
  /\ exec' = [n \in Node |-> exec'[n]]
  /\ \A n \in Node :
       /\ exec'[n] = [pc |-> exec'[n].pc, done |-> exec'[n].done]
       /\ exec'[n].pc \in {"off", "running", "advancing", "failing", "completing"}

\* What is common to all steps: the outcome is kept, and results agree with it.
LEMMA CommitKeeps ==
  ASSUME CommitInv, IsControl(control'), Progress(control'),
         control.state = "finished" =>
           control'.state = "finished" /\ control'.outcome = control.outcome,
         view' = [n \in Node |-> view'[n]],
         \A n \in Node : view'[n] \in {view[n], control, control'},
         CommandSteps, ExecutorSteps,
         control'.answer = control.answer \/ Agrees(control.answer)'
  PROVE  CommitInv'
<1>1. \A r : Agrees(r) => (r # Absent /\ r.disposition \in FinalOutcomes =>
               control'.state = "finished" /\ r.disposition = control'.outcome)
  BY DEF Agrees
<1>2. Agrees(control.answer)'
  BY <1>1 DEF CommitInv, Agrees
<1>3. \A n \in Node : Agrees(commit[n].result)'
  BY <1>1 DEF CommitInv, CommandSteps, Agrees
<1>4. \A n \in Node : view'[n].state = "finished" =>
       control'.state = "finished" /\ control'.outcome = view'[n].outcome
  BY DEF CommitInv
<1> QED
  BY <1>2, <1>3, <1>4 DEF CommitInv, CommandSteps, ExecutorSteps

\* The ways a coordinator and an executor move.
LEMMA SameCommand ==
  ASSUME CommitInv, UNCHANGED commit
  PROVE  CommandSteps
BY DEF CommitInv, CommandSteps

LEMMA SameExecutor ==
  ASSUME CommitInv, UNCHANGED exec
  PROVE  ExecutorSteps
BY DEF CommitInv, ExecutorSteps

\* Records of coordinators after an update of two fields.
LEMMA WithFields ==
  ASSUME NEW r, r = [pc |-> r.pc, latest |-> r.latest, preview |-> r.preview,
                     result |-> r.result],
         NEW pc, NEW x, NEW h
  PROVE  /\ h = [r EXCEPT !.pc = pc, !.latest = x] =>
              h = [pc |-> pc, latest |-> x, preview |-> r.preview, result |-> r.result]
         /\ h = [r EXCEPT !.preview = x, !.pc = pc] =>
              h = [pc |-> pc, latest |-> r.latest, preview |-> x, result |-> r.result]
         /\ h = [r EXCEPT !.pc = pc, !.result = x] =>
              h = [pc |-> pc, latest |-> r.latest, preview |-> r.preview, result |-> x]
<1>1. h = [r EXCEPT !.pc = pc, !.latest = x] =>
        h = [pc |-> pc, latest |-> x, preview |-> r.preview, result |-> r.result]
  OBVIOUS
<1>2. h = [r EXCEPT !.preview = x, !.pc = pc] =>
        h = [pc |-> pc, latest |-> r.latest, preview |-> x, result |-> r.result]
  OBVIOUS
<1>3. h = [r EXCEPT !.pc = pc, !.result = x] =>
        h = [pc |-> pc, latest |-> r.latest, preview |-> r.preview, result |-> x]
  OBVIOUS
<1> QED
  BY <1>1, <1>2, <1>3

LEMMA MovesCommand ==
  ASSUME CommitInv, NEW n \in Node, NEW pc \in {"planning", "starting", "failing"},
         NEW latest, NEW preview,
         commit' = [commit EXCEPT ![n] = [pc |-> pc, latest |-> latest,
                      preview |-> preview, result |-> commit[n].result]]
  PROVE  CommandSteps
BY DEF CommitInv, CommandSteps

LEMMA IdleCommand ==
  ASSUME CommitInv, NEW n \in Node,
         commit' = [commit EXCEPT ![n] = Idle]
  PROVE  CommandSteps
BY DEF CommitInv, CommandSteps, Idle, Agrees

LEMMA ToCommand ==
  ASSUME CommitInv, NEW n \in Node, To(n, "executing")
  PROVE  CommandSteps
BY DEF CommitInv, CommandSteps, Idle, Agrees, To

LEMMA ResultCommand ==
  ASSUME CommitInv, NEW n \in Node, NEW d, NEW s, Result(n, d, s),
         d \in FinalOutcomes => control'.state = "finished" /\ d = control'.outcome
  PROVE  CommandSteps
<1> DEFINE r == [disposition |-> d, state |-> s]
<1>0. PICK h : /\ h = [Idle EXCEPT !.pc = "answering", !.result = r]
               /\ commit' = [commit EXCEPT ![n] = h]
  BY DEF Result
<1>1. commit' = [commit EXCEPT ![n] = [pc |-> "answering", latest |-> Absent,
                                       preview |-> Absent, result |-> r]]
  BY <1>0, WithFields DEF Idle
<1>2. Agrees(r)'
  BY DEF Agrees
<1> HIDE DEF r
<1> QED
  BY <1>1, <1>2 DEF CommitInv, CommandSteps, Agrees

LEMMA MovesExecutor ==
  ASSUME CommitInv, NEW n \in Node,
         NEW pc \in {"off", "running", "advancing", "failing", "completing"}, NEW done,
         exec' = [exec EXCEPT ![n] = [pc |-> pc, done |-> done]]
  PROVE  ExecutorSteps
BY DEF CommitInv, ExecutorSteps

LEMMA ExecutorMoves ==
  ASSUME CommitInv, NEW n \in Node
  PROVE  /\ \A pc \in {"running", "advancing", "failing", "completing"} :
              /\ Executes(n, pc) => ExecutorSteps
              /\ exec' = [exec EXCEPT ![n].pc = pc] => ExecutorSteps
         /\ Releases(n) => ExecutorSteps
<1>1. ASSUME NEW pc PROVE [exec[n] EXCEPT !.pc = pc] = [pc |-> pc, done |-> exec[n].done]
  BY DEF CommitInv
<1>2. ASSUME NEW pc \in {"running", "advancing", "failing", "completing"},
             exec' = [exec EXCEPT ![n].pc = pc]
      PROVE  ExecutorSteps
  <2>1. exec' = [exec EXCEPT ![n] = [exec[n] EXCEPT !.pc = pc]]
    BY <1>2
  <2> QED
    BY <1>1, <2>1, MovesExecutor
<1>3. \A pc \in {"running", "advancing", "failing", "completing"} :
        Executes(n, pc) => ExecutorSteps
  BY MovesExecutor DEF Executes
<1>4. Releases(n) => ExecutorSteps
  BY MovesExecutor DEF Releases, Off
<1> QED
  BY <1>2, <1>3, <1>4

\* A step that applies no entry.
LEMMA UnappliedStep ==
  ASSUME CommitInv, UNCHANGED <<control, view>>, CommandSteps, ExecutorSteps
  PROVE  CommitInv'
<1>1. IsControl(control') /\ Progress(control')
  BY DEF CommitInv
<1>2. view' = [n \in Node |-> view'[n]]
  BY DEF CommitInv
<1> QED
  BY <1>1, <1>2, CommitKeeps DEF CommitInv

\* Elections, restarts, other writers and the expiry.
LEMMA EnvironmentStays ==
  ASSUME CommitInv,
         \/ \E n \in Node : Elect(n) \/ CatchUp(n) \/ Restart(n)
         \/ InputsChange \/ ReconcileExpired \/ \E l \in LiveIdentities : LiveChanges(l)
  PROVE  CommitInv'
<1>1. ASSUME NEW n \in Node, Elect(n) PROVE CommitInv'
  BY <1>1, UnappliedStep, SameCommand, SameExecutor DEF Elect
<1>2. ASSUME NEW n \in Node, CatchUp(n) PROVE CommitInv'
  <2>1. UNCHANGED <<control, commit, exec>>
    BY <1>2 DEF CatchUp
  <2>2. /\ view' = [m \in Node |-> view'[m]]
        /\ \A m \in Node : view'[m] \in {view[m], control, control'}
    BY <1>2 DEF CatchUp, CommitInv
  <2>3. IsControl(control') /\ Progress(control')
    BY <2>1 DEF CommitInv
  <2> QED
    BY <2>1, <2>2, <2>3, CommitKeeps, SameCommand, SameExecutor
<1>3. ASSUME NEW n \in Node, Restart(n) PROVE CommitInv'
  <2>1. ExecutorSteps
    BY <1>3, ExecutorMoves DEF Restart, Releases
  <2> QED
    BY <1>3, <2>1, UnappliedStep, IdleCommand DEF Restart
<1>4. CASE InputsChange
  <2>1. /\ control' = [control EXCEPT !.inputs = control.inputs + 1]
        /\ UNCHANGED <<view, commit, exec>>
    BY <1>4 DEF InputsChange
  <2>2. IsControl(control') /\ Progress(control') /\ control'.answer = control.answer
        /\ control'.state = control.state /\ control'.outcome = control.outcome
    BY <2>1 DEF CommitInv, IsControl, Progress
  <2>3. view' = [m \in Node |-> view'[m]] /\ \A m \in Node : view'[m] = view[m]
    BY <2>1 DEF CommitInv
  <2> QED
    BY <2>1, <2>2, <2>3, CommitKeeps, SameCommand, SameExecutor
<1>5. CASE ReconcileExpired
  <2>1. /\ control.state = "open"
        /\ control' = [control EXCEPT !.state = "finished", !.outcome = "expired"]
        /\ UNCHANGED <<view, commit, exec>>
    BY <1>5 DEF ReconcileExpired
  <2>2. IsControl(control') /\ control'.answer = control.answer
    BY <2>1 DEF CommitInv, IsControl
  <2>3. Progress(control')
    BY <2>1 DEF CommitInv, IsControl, Progress, FinalOutcomes
  <2>4. view' = [m \in Node |-> view'[m]] /\ \A m \in Node : view'[m] = view[m]
    BY <2>1 DEF CommitInv
  <2> QED
    BY <2>1, <2>2, <2>3, <2>4, CommitKeeps, SameCommand, SameExecutor
<1>6. CASE \E l \in LiveIdentities : LiveChanges(l)
  BY <1>6, UnappliedStep, SameCommand, SameExecutor DEF LiveChanges
<1> QED
  BY <1>1, <1>2, <1>3, <1>4, <1>5, <1>6

\* A proposal of the command: the answer is kept and the executors do not move.
LEMMA ProposalStep ==
  ASSUME CommitInv, IsControl(control'), Progress(control'),
         control.state = "finished" =>
           control'.state = "finished" /\ control'.outcome = control.outcome,
         UNCHANGED <<view, exec>>, CommandSteps,
         control'.answer = control.answer \/ Agrees(control.answer)'
  PROVE  CommitInv'
<1>1. view' = [n \in Node |-> view'[n]] /\ \A n \in Node : view'[n] = view[n]
  BY DEF CommitInv
<1> QED
  BY <1>1, CommitKeeps, SameExecutor

\* The records StartTransactionCommit and FailTransactionCommitAdmission store.
LEMMA RefreshedKeeps ==
  ASSUME CommitInv, NEW preview, control' = Refreshed(preview)
  PROVE  /\ IsControl(control') /\ Progress(control')
         /\ control'.state = control.state /\ control'.outcome = control.outcome
         /\ control'.answer = control.answer
BY DEF CommitInv, IsControl, Progress, Refreshed

LEMMA StartedKeeps ==
  ASSUME CommitInv, NEW preview, control' = Started(preview), control.state # "finished"
  PROVE  /\ IsControl(control') /\ Progress(control')
         /\ control'.answer = control.answer
<1>1. IsControl(control') /\ control'.answer = control.answer
  BY DEF CommitInv, IsControl, Started
<1>2. Progress(control')
  BY DEF CommitInv, IsControl, Progress, Started
<1> QED
  BY <1>1, <1>2

\* The steps of the COMMIT command.
LEMMA CommandStays ==
  ASSUME CommitInv, NEW n \in Node, Coordinates(n)
  PROVE  CommitInv'
<1> USE DEF FinalOutcomes
<1>0. CommitInv
  OBVIOUS
<1>1. CASE ReadTransaction(n)
  <2>1. UNCHANGED <<control, view, exec>>
    BY <1>1 DEF ReadTransaction
  <2>2. CASE commit' = [commit EXCEPT ![n].pc = "planning", ![n].latest = view[n].latest]
    <3>1. commit' = [commit EXCEPT ![n] = [pc |-> "planning", latest |-> view[n].latest,
                      preview |-> commit[n].preview, result |-> commit[n].result]]
      <4>1. PICK h : /\ h = [commit[n] EXCEPT !.pc = "planning", !.latest = view[n].latest]
                     /\ commit' = [commit EXCEPT ![n] = h]
        BY <2>2
      <4>2. commit[n] = [pc |-> commit[n].pc, latest |-> commit[n].latest,
                       preview |-> commit[n].preview, result |-> commit[n].result]
        BY DEF CommitInv
      <4> QED
        BY <4>1, <4>2, WithFields
    <3> QED
      BY <2>1, <3>1, UnappliedStep, MovesCommand, SameExecutor
  <2>3. CASE To(n, "executing")
    BY <2>1, <2>3, UnappliedStep, ToCommand, SameExecutor
  <2>4. CASE view[n].state = "finished" /\ Result(n, view[n].outcome, "finished")
    <3>1. control'.state = "finished" /\ view[n].outcome = control'.outcome
      BY <2>1, <2>4 DEF CommitInv
    <3> QED
      BY <2>1, <2>4, <3>1, UnappliedStep, ResultCommand, SameExecutor
  <2> QED
    BY <1>1, <2>2, <2>3, <2>4 DEF ReadTransaction
<1>2. CASE PrepareTransactionCommit(n)
  <2>1. UNCHANGED <<control, view, exec>>
    BY <1>2 DEF PrepareTransactionCommit
  <2>2. PICK pc \in {"starting", "failing"} :
          commit' = [commit EXCEPT ![n].preview = Preview(view[n].inputs, live),
                                   ![n].pc = pc]
    BY <1>2 DEF PrepareTransactionCommit
  <2>3. commit' = [commit EXCEPT ![n] = [pc |-> pc, latest |-> commit[n].latest,
                     preview |-> Preview(view[n].inputs, live),
                     result |-> commit[n].result]]
    <3>1. PICK h : /\ h = [commit[n] EXCEPT !.preview = Preview(view[n].inputs, live),
                                             !.pc = pc]
                   /\ commit' = [commit EXCEPT ![n] = h]
      BY <2>2
    <3>2. commit[n] = [pc |-> commit[n].pc, latest |-> commit[n].latest,
                       preview |-> commit[n].preview, result |-> commit[n].result]
      BY DEF CommitInv
    <3> QED
      BY <3>1, <3>2, WithFields
  <2> QED
    BY <2>1, <2>2, <2>3, UnappliedStep, MovesCommand, SameExecutor
<1>3. CASE ProposeStart(n)
  <2> DEFINE preview == commit[n].preview
  <2>1. UNCHANGED <<view, exec>>
    BY <1>3 DEF ProposeStart
  <2>2. CASE UNCHANGED control /\ Result(n, "error", control.state)
    BY <2>1, <2>2, UnappliedStep, ResultCommand, SameExecutor
  <2>3. CASE UNCHANGED control /\ To(n, "executing")
    BY <2>1, <2>3, UnappliedStep, ToCommand, SameExecutor
  <2>4. CASE control' = Refreshed(preview) /\ Result(n, "PreviewStale", control.state)
    <3>1. CommandSteps
      BY <2>4, ResultCommand
    <3> QED
      BY <2>1, <2>4, <3>1, RefreshedKeeps, ProposalStep
  <2>5. CASE control.state # "finished" /\ control' = Started(preview)
             /\ To(n, "executing")
    BY <2>1, <2>5, StartedKeeps, ToCommand, ProposalStep
  <2> QED
    BY <1>3, <2>2, <2>3, <2>4, <2>5 DEF ProposeStart
<1>4. CASE ProposeFailedAdmission(n)
  <2> DEFINE preview == commit[n].preview
  <2>1. UNCHANGED <<view, exec>>
    BY <1>4 DEF ProposeFailedAdmission
  <2>2. CASE UNCHANGED control /\ Result(n, "error", control.state)
    BY <2>1, <2>2, UnappliedStep, ResultCommand, SameExecutor
  <2>3. CASE control' = Refreshed(preview) /\ Result(n, "error", control.state)
    <3>1. CommandSteps
      BY <2>3, ResultCommand
    <3> QED
      BY <2>1, <2>3, <3>1, RefreshedKeeps, ProposalStep
  <2>4. CASE /\ control.state = "open"
             /\ control' = [control EXCEPT !.state = "finished", !.outcome = "failed",
                                           !.latest = preview, !.reports = {preview}]
             /\ Result(n, "failed", "finished")
    <3> HIDE DEF preview
    <3>1. IsControl(control') /\ control'.answer = control.answer
          /\ control'.state = "finished" /\ control'.outcome = "failed"
      BY <2>4 DEF CommitInv, IsControl
    <3>2. Progress(control')
      BY <2>4 DEF CommitInv, IsControl, Progress
    <3>3. CommandSteps
      BY <2>4, <3>1, ResultCommand
    <3> QED
      BY <2>1, <2>4, <3>1, <3>2, <3>3, ProposalStep
  <2>5. CASE UNCHANGED control /\ control.outcome = "failed"
             /\ Result(n, "failed", control.state)
    <3>1. control'.state = "finished" /\ "failed" = control'.outcome
      BY <2>5 DEF CommitInv, Progress
    <3> QED
      BY <2>1, <2>5, <3>1, UnappliedStep, ResultCommand, SameExecutor
  <2> QED
    BY <1>4, <2>2, <2>3, <2>4, <2>5 DEF ProposeFailedAdmission
<1>5. CASE CommitExecuted(n)
  <2>1. control'.state = "finished" /\ view[n].outcome = control'.outcome
    BY <1>5 DEF CommitInv, CommitExecuted
  <2> QED
    BY <1>5, <2>1, UnappliedStep, ResultCommand, SameExecutor DEF CommitExecuted
<1>6. CASE FinishPersistentCommand(n)
  <2>1. PICK a \in {control.answer, commit[n].result} :
          control' = [control EXCEPT !.answer = a]
    BY <1>6 DEF FinishPersistentCommand
  <2>2. /\ IsControl(control')
        /\ control'.answer = a
        /\ control'.state = control.state /\ control'.outcome = control.outcome
    BY <2>1 DEF CommitInv, IsControl
  <2>3. Progress(control')
    BY <2>1 DEF CommitInv, IsControl, Progress
  <2>4. Agrees(a)
    BY <2>1 DEF CommitInv
  <2>5. Agrees(control.answer)'
    BY <2>2, <2>4 DEF Agrees
  <2> QED
    BY <1>6, <2>2, <2>3, <2>5, IdleCommand, ProposalStep
       DEF FinishPersistentCommand
<1>7. CASE LoseCommand(n)
  BY <1>7, UnappliedStep, IdleCommand, SameExecutor DEF LoseCommand
<1> QED
  BY <1>1, <1>2, <1>3, <1>4, <1>5, <1>6, <1>7 DEF Coordinates

\* A transition of the executor that is applied: the answer and the command do not move.
LEMMA AppliedStep ==
  ASSUME CommitInv, NEW n \in Node, control.state # "finished",
         IsControl(control'), Progress(control'), control'.answer = control.answer,
         Continues(n), UNCHANGED commit
  PROVE  CommitInv'
<1>1. ExecutorSteps
  BY ExecutorMoves DEF Continues
<1>2. /\ view' = [m \in Node |-> view'[m]]
      /\ \A m \in Node : view'[m] \in {view[m], control, control'}
  BY DEF Continues, CommitInv
<1> QED
  BY <1>1, <1>2, CommitKeeps, SameCommand

\* The steps of the executor. A step is applied only by an executor that expects it, so
\* the effect it appends is the next one.
LEMMA ExecutorStays ==
  ASSUME CommitInv, Steps \in Nat, Absent \notin {"success", "failure"} \cup FinalOutcomes,
         NEW n \in Node, Recovers(n)
  PROVE  CommitInv'
<1> USE DEF FinalOutcomes
<1>1. CASE TakeExecution(n)
  BY <1>1, UnappliedStep, SameCommand, ExecutorMoves DEF TakeExecution
<1>2. CASE RunReplicatedCommit(n)
  <2>1. UNCHANGED <<control, view, commit>>
    BY <1>2 DEF RunReplicatedCommit
  <2>2. ExecutorSteps
    BY <1>2, ExecutorMoves DEF RunReplicatedCommit
  <2> QED
    BY <2>1, <2>2, UnappliedStep, SameCommand
<1>3. CASE ProposeAdvance(n)
  <2>1. UNCHANGED commit
    BY <1>3 DEF ProposeAdvance
  <2>2. CASE /\ Expects(n)
             /\ control' = [control EXCEPT !.applying = "success",
                              !.inputs = control.inputs + 1,
                              !.effects = Append(control.effects, exec[n].done)]
             /\ Continues(n)
    <3>1. /\ control.state = "committing" /\ control.applying = Absent
          /\ control.done = exec[n].done
      BY <2>2 DEF Expects
    <3> DEFINE e == Append(control.effects, exec[n].done)
    <3>2. /\ control.effects \in Seq(Nat) /\ control.done \in Nat
          /\ Len(control.effects) = control.done
          /\ \A i \in 1..Len(control.effects) : control.effects[i] = i - 1
      BY <3>1 DEF CommitInv, Progress
    <3>3. /\ e \in Seq(Nat) /\ Len(e) = control.done + 1
          /\ e = [i \in 1..Len(e) |-> i - 1]
      <4>1. e \in Seq(Nat) /\ Len(e) = control.done + 1
        BY <3>1, <3>2
      <4>2. \A i \in 1..Len(e) : e[i] = i - 1
        BY <3>1, <3>2
      <4>3. e = [i \in 1..Len(e) |-> e[i]]
        BY <4>1
      <4> QED
        BY <4>1, <4>2, <4>3
    <3> HIDE DEF e
    <3>4. control' = [control EXCEPT !.applying = "success",
                        !.inputs = control.inputs + 1, !.effects = e]
      BY <2>2 DEF e
    <3>5. /\ IsControl(control') /\ control'.answer = control.answer
          /\ control'.effects = e /\ control'.applying = "success"
          /\ control'.state = control.state /\ control'.done = control.done
          /\ control'.outcome = control.outcome
      BY <3>4 DEF CommitInv, IsControl
    <3>6. Progress(control')
      BY <3>1, <3>2, <3>3, <3>5 DEF CommitInv, Progress
    <3> QED
      BY <2>1, <2>2, <3>1, <3>5, <3>6, AppliedStep
  <2>3. CASE exec' = [exec EXCEPT ![n].pc = "failing"] /\ UNCHANGED <<control, view>>
    BY <2>1, <2>3, ExecutorMoves, UnappliedStep, SameCommand
  <2>4. CASE Releases(n) /\ UNCHANGED <<control, view>>
    BY <2>1, <2>4, ExecutorMoves, UnappliedStep, SameCommand
  <2> QED
    BY <1>3, <2>2, <2>3, <2>4 DEF ProposeAdvance
<1>4. CASE StepFails(n)
  BY <1>4, ExecutorMoves, UnappliedStep, SameCommand DEF StepFails
<1>5. CASE RecordFailedStep(n)
  <2>1. UNCHANGED commit
    BY <1>5 DEF RecordFailedStep
  <2>2. CASE Expects(n) /\ control' = [control EXCEPT !.applying = "failure"]
             /\ Continues(n)
    <3>1. /\ control.state = "committing" /\ control.applying = Absent
      BY <2>2 DEF Expects
    <3>2. /\ IsControl(control') /\ control'.answer = control.answer
      BY <2>2 DEF CommitInv, IsControl
    <3>3. Progress(control')
      BY <2>2, <3>1 DEF CommitInv, IsControl, Progress
    <3> QED
      BY <2>1, <2>2, <3>1, <3>2, <3>3, AppliedStep
  <2>3. CASE Releases(n) /\ UNCHANGED <<control, view>>
    BY <2>1, <2>3, ExecutorMoves, UnappliedStep, SameCommand
  <2> QED
    BY <1>5, <2>2, <2>3 DEF RecordFailedStep
<1>6. CASE \E usable \in BOOLEAN : ProposeCompletion(n, usable)
  <2>1. UNCHANGED commit
    BY <1>6 DEF ProposeCompletion
  <2>2. CASE /\ Awaits(n) /\ control.applying = "success"
             /\ control.done + 1 < Steps
             /\ control' = [control EXCEPT !.applying = Absent, !.done = control.done + 1]
             /\ Continues(n)
    <3>1. control.state = "committing"
      BY <2>2 DEF Awaits
    <3>2. /\ IsControl(control') /\ control'.answer = control.answer
          /\ control'.applying = Absent /\ control'.done = control.done + 1
          /\ control'.effects = control.effects /\ control'.state = control.state
          /\ control'.outcome = control.outcome
      BY <2>2 DEF CommitInv, IsControl
    <3>3. Progress(control')
      BY <2>2, <3>1, <3>2 DEF CommitInv, Progress
    <3> QED
      BY <2>1, <2>2, <3>1, <3>2, <3>3, AppliedStep
  <2>3. ASSUME NEW done, NEW outcome,
               /\ Awaits(n)
               /\ \/ /\ control.applying = "success" /\ control.done + 1 = Steps
                     /\ done = control.done + 1 /\ outcome = "committed"
                  \/ done = control.done /\ outcome = "failed"
               /\ control' = [control EXCEPT !.applying = Absent, !.done = done,
                                             !.state = "finished", !.outcome = outcome]
               /\ Continues(n)
        PROVE  CommitInv'
    <3>1. control.state = "committing"
      BY <2>3 DEF Awaits
    <3>2. /\ IsControl(control') /\ control'.answer = control.answer
          /\ control'.applying = Absent /\ control'.done = done
          /\ control'.effects = control.effects /\ control'.state = "finished"
          /\ control'.outcome = outcome
      BY <2>3 DEF CommitInv, IsControl
    <3>3. Progress(control')
      BY <2>3, <3>1, <3>2 DEF CommitInv, Progress
    <3> QED
      BY <2>1, <2>3, <3>1, <3>2, <3>3, AppliedStep
  <2>4. CASE Releases(n) /\ UNCHANGED <<control, view>>
    BY <2>1, <2>4, ExecutorMoves, UnappliedStep, SameCommand
  <2>5. PICK usable \in BOOLEAN : ProposeCompletion(n, usable)
    BY <1>6
  <2>6. CASE control.applying = "success" /\ usable
    <3>1. control.done \in 0..Steps
      BY DEF CommitInv, Progress
    <3> QED
      BY <2>2, <2>3, <2>4, <2>5, <2>6 DEF ProposeCompletion
  <2>7. CASE ~(control.applying = "success" /\ usable)
    BY <2>2, <2>3, <2>4, <2>5, <2>7 DEF ProposeCompletion
  <2> QED
    BY <2>6, <2>7
<1>7. CASE LoseExecution(n)
  BY <1>7, ExecutorMoves, UnappliedStep, SameCommand DEF LoseExecution
<1> QED
  BY <1>1, <1>2, <1>3, <1>4, <1>5, <1>6, <1>7 DEF Recovers

LEMMA InitCommit ==
  ASSUME CoordinatorInit, Steps \in Nat \ {0},
         Absent \notin {"success", "failure"} \cup FinalOutcomes
  PROVE  CommitInv
<1>1. control = [state |-> "open", inputs |-> 0, expected |-> Preview(0, live),
                latest |-> Preview(0, live), reports |-> {Preview(0, live)},
                plan |-> Absent, done |-> 0, applying |-> Absent, effects |-> <<>>,
                outcome |-> Absent, answer |-> Absent]
  BY DEF CoordinatorInit
<1>2. IsControl(control)
  BY <1>1 DEF IsControl
<1>3. Progress(control)
  BY <1>1 DEF Progress, FinalOutcomes
<1>4. view = [n \in Node |-> control] /\ commit = [n \in Node |-> Idle]
      /\ exec = [n \in Node |-> Off]
  BY DEF CoordinatorInit
<1>5. control.state = "open" /\ control.answer = Absent
  BY <1>1
<1> QED
  BY <1>2, <1>3, <1>4, <1>5 DEF CommitInv, Agrees, Idle, Off

\* For any nodes and any number of steps, whatever leaders are elected, restart and trail
\* the log: a COMMIT has its effects once, in their order, and every answer it records
\* that names an outcome names the one the transaction finished with
\* (run_replicated_commit, finish_persistent_command).
THEOREM CommitIsOnce ==
  ASSUME Steps \in Nat \ {0}, Absent \notin {"success", "failure"} \cup FinalOutcomes
  PROVE  CoordinatorSpec => []CommitsOnce
<1>1. CoordinatorInit => CommitInv
  BY InitCommit
<1>2. CommitInv /\ [CoordinatorNext]_coordinatorVars => CommitInv'
  <2> SUFFICES ASSUME CommitInv, [CoordinatorNext]_coordinatorVars PROVE CommitInv'
    OBVIOUS
  <2>1. CASE UNCHANGED coordinatorVars
    BY <2>1, UnappliedStep, SameCommand, SameExecutor DEF coordinatorVars
  <2>2. CASE CoordinatorNext
    <3>1. ASSUME NEW n \in Node, Elect(n) \/ CatchUp(n) \/ Restart(n)
          PROVE  CommitInv'
      BY <3>1, EnvironmentStays
    <3>2. CASE InputsChange \/ ReconcileExpired \/ \E l \in LiveIdentities : LiveChanges(l)
      BY <3>2, EnvironmentStays
    <3>3. ASSUME NEW n \in Node, Coordinates(n)
          PROVE  CommitInv'
      BY <3>3, CommandStays
    <3>4. ASSUME NEW n \in Node, Recovers(n)
          PROVE  CommitInv'
      BY <3>4, ExecutorStays
    <3> QED
      BY <2>2, <3>1, <3>2, <3>3, <3>4 DEF CoordinatorNext
  <2> QED
    BY <2>1, <2>2
<1>3. CommitInv => CommitsOnce
  <2> SUFFICES ASSUME CommitInv PROVE CommitsOnce
    OBVIOUS
  <2>1. CoordinatorTypeOK
    BY DEF CoordinatorTypeOK, CommitInv, Progress, FinalOutcomes
  <2>2. StepsApplyOnce
    BY DEF StepsApplyOnce, CommitInv, Progress
  <2>3. AnswersAgree
    BY DEF AnswersAgree, CommitInv, Progress, Agrees, FinalOutcomes
  <2> QED
    BY <2>1, <2>2, <2>3 DEF CommitsOnce
<1> QED
  BY <1>1, <1>2, <1>3, PTL DEF CoordinatorSpec
=============================================================================
