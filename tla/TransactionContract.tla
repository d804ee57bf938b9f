------------------------ MODULE TransactionContract ------------------------
(***************************************************************************)
(* What a transaction promises the client that queues statements into it   *)
(* and commits it, however many coordinators serve it.                     *)
(*                                                                         *)
(*   - it accepts statements one at a time, and none once its commit       *)
(*     began;                                                              *)
(*   - a commit that began ends committed or failed: it is never reverted, *)
(*     expired or forgotten;                                               *)
(*   - statements take effect as a growing prefix of the accepted ones,    *)
(*     and a committed transaction applied them all, a failed one not all, *)
(*     a reverted or expired one none;                                     *)
(*   - an outcome, once given, stays the same until its record is removed. *)
(***************************************************************************)
EXTENDS Naturals

CONSTANT Txn

VARIABLE contract

Stage(stage, accepted, applied) ==
  [stage |-> stage, accepted |-> accepted, applied |-> applied]

Init == contract = [t \in Txn |-> Stage("absent", 0, 0)]

Becomes(t, c) == contract' = [contract EXCEPT ![t] = c]

Open(t) ==
  /\ contract[t].stage = "absent"
  /\ Becomes(t, Stage("open", 0, 0))

Accept(t) ==
  /\ contract[t].stage = "open"
  /\ Becomes(t, Stage("open", contract[t].accepted + 1, 0))

Abandon(t) ==
  /\ contract[t].stage = "open"
  /\ \E end \in {"reverted", "expired"} :
       Becomes(t, Stage(end, contract[t].accepted, 0))

\* A commit of an empty transaction fails at no statement.
Refuse(t) ==
  /\ contract[t].stage = "open"
  /\ contract[t].accepted > 0
  /\ Becomes(t, Stage("failed", contract[t].accepted, 0))

Begin(t) ==
  /\ contract[t].stage = "open"
  /\ Becomes(t, Stage("committing", contract[t].accepted, 0))

Progress(t) ==
  /\ contract[t].stage = "committing"
  /\ \E applied \in contract[t].applied + 1 .. contract[t].accepted - 1 :
       Becomes(t, Stage("committing", contract[t].accepted, applied))

Commit(t) ==
  /\ contract[t].stage = "committing"
  /\ Becomes(t, Stage("committed", contract[t].accepted, contract[t].accepted))

Fail(t) ==
  /\ contract[t].stage = "committing"
  /\ contract[t].applied < contract[t].accepted
  /\ Becomes(t, Stage("failed", contract[t].accepted, contract[t].applied))

Forget(t) ==
  /\ contract[t].stage \in {"committed", "failed", "reverted", "expired"}
  /\ Becomes(t, Stage("removed", 0, 0))

Next ==
  \E t \in Txn :
    \/ Open(t) \/ Accept(t) \/ Abandon(t) \/ Refuse(t)
    \/ Begin(t) \/ Progress(t) \/ Commit(t) \/ Fail(t) \/ Forget(t)

Spec == Init /\ [][Next]_contract
=============================================================================
