------------------------ MODULE MCTransactionLedger ------------------------
(* Two transactions that own their leases and a command, on one domain.       *)
EXTENDS TransactionLedger, TLC

CONSTANTS t1, t2, c1, d1, near, far, m0, k0, p1, g1

MCTxn == {t1, t2}
MCDomainOf == [t \in MCTxn |-> d1]
MCOwnerOf == [t \in MCTxn |-> t]
MCStatement == {m0, k0, p1, g1}
MCKind == (m0 :> "model") @@ (k0 :> "catalog") @@ (p1 :> "pausing") @@ (g1 :> "config")
MCPositionOf == (m0 :> 0) @@ (k0 :> 0) @@ (p1 :> 1) @@ (g1 :> 1)
MCWidth == (near :> 1) @@ (far :> 2)
=============================================================================
