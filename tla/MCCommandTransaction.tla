------------------------ MODULE MCCommandTransaction ------------------------
(***************************************************************************)
(* A COMMIT, seen twice: the leases and the effects of a command on two    *)
(* domains, of the transaction it runs and of another; and the             *)
(* coordinators of a COMMIT of two steps, where leadership moves to        *)
(* another node and back and a node restarts.  The first has every         *)
(* coordinator in one entry of the log, the second has one transaction;    *)
(* they share no state.  `part` is what a behaviour follows; the other     *)
(* rests in its initial state.                                             *)
(***************************************************************************)
EXTENDS TransactionLedger, CommitCoordinator, TLC

CONSTANTS t1, t2, c1, d1, d2, near, m0, g1

VARIABLE part

MCTxn == {t1, t2}
MCDomainOf == [t \in MCTxn |-> d1]
MCOwnerOf == (t1 :> c1) @@ (t2 :> t2)
MCStatement == {m0, g1}
MCKind == (m0 :> "model") @@ (g1 :> "config")
MCPositionOf == (m0 :> 0) @@ (g1 :> 1)
MCWidth == (near :> 1)

\* Leases are granted again, to transactions of one statement.
Regrants == INSTANCE TransactionLedger WITH MaxStatements <- 1, MaxGrants <- 2

commitVars == <<part, vars, coordinatorVars>>

CommitInit ==
  /\ part \in {"leases", "regrants", "coordinators"}
  /\ Init
  /\ CoordinatorInit

CommitNext ==
  \/ part = "leases" /\ Next /\ UNCHANGED <<part, coordinatorVars>>
  \/ part = "regrants" /\ Regrants!Next /\ UNCHANGED <<part, coordinatorVars>>
  \/ part = "coordinators" /\ CoordinatorNext /\ UNCHANGED <<part, vars>>

CommitSpec == CommitInit /\ [][CommitNext]_commitVars
=============================================================================
