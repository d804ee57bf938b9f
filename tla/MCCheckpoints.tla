--------------------------- MODULE MCCheckpoints ---------------------------
(***************************************************************************)
(* How a checkpoint becomes safe: the barrier that makes it durable, the   *)
(* announcement of its revision to the replicas, and a replica's catch-up  *)
(* with an owner's branches.  The three share no state.  `part` is what a  *)
(* behaviour follows, with its bounds; the others rest in their initial    *)
(* states.                                                                 *)
(***************************************************************************)
EXTENDS DurabilityBarrier, CheckpointReplication, TLC

CONSTANTS Pair, Unbranched, First   \* branches

VARIABLES
    part,
    catalog, states, published, unrecorded, ownerLife, life, storedLife, passive, stored,
    announcements, task, catchUp, acked, budget

\* A branch and unbranched work, evictions, announcements and requests that fail.
Rounds ==
    INSTANCE BranchCheckpoints WITH
      Branches <- First \cup Unbranched, Page <- 1, Retained <- 1, PagesPerRound <- 2,
      MaxSequence <- 3, MaxRevision <- 2, MaxLifecycles <- 1, MaxEpochs <- 1,
      MaxAnnounced <- 1, MaxFailures <- 1, MaxRestarts <- 0, round <- catchUp
\* The owner loses its catalog, and the replica restarts.
Faults ==
    INSTANCE BranchCheckpoints WITH
      Branches <- Pair, Unbranched <- {}, Page <- 1, Retained <- 1, PagesPerRound <- 2,
      MaxSequence <- 3, MaxRevision <- 2, MaxLifecycles <- 1, MaxEpochs <- 2,
      MaxAnnounced <- 0, MaxFailures <- 0, MaxRestarts <- 1, round <- catchUp
\* A task waits for the one revision there is.
Waits == INSTANCE CheckpointReplication WITH MaxRevision <- 1

branchVars == <<catalog, states, published, unrecorded, ownerLife, life, storedLife, passive,
                stored, announcements, task, catchUp, acked, budget>>
checkpointVars == <<part, vars, branchVars, replicationVars>>

CheckpointInit ==
    /\ part \in {"barrier", "rounds", "faults", "offers", "waits"}
    /\ Init
    /\ IF part = "rounds" THEN Rounds!Init ELSE Faults!Init
    /\ ReplicationInit

CheckpointNext ==
    \/ part = "barrier" /\ Next /\ UNCHANGED <<part, branchVars, replicationVars>>
    \/ part = "rounds" /\ Rounds!Next /\ UNCHANGED <<part, vars, replicationVars>>
    \/ part = "faults" /\ Faults!Next /\ UNCHANGED <<part, vars, replicationVars>>
    \* Revisions are offered while the schedule changes, and no task waits.
    \/ part = "offers" /\ ReplicationNext /\ UNCHANGED <<part, vars, branchVars, waiter>>
    \/ part = "waits" /\ Waits!ReplicationNext /\ UNCHANGED <<part, vars, branchVars>>

CheckpointSpec == CheckpointInit /\ [][CheckpointNext]_checkpointVars

\* Writers differ only in what they did so far.
Symmetry == Permutations(Writers)

-----------------------------------------------------------------------------
\* A replica is complete.  What its cursor covers is known exactly: the newest recorded
\* revision of every branch whose last change is not after the cursor, and each branch the
\* owner no longer has as a removal still ahead or a catalog that will be sent whole
\* (branch_checkpoint_catalog.rs changes_after, replica_branch_checkpoints.rs apply).
\* Between rounds no branch is forgotten: one the replica knows and may install is on its
\* storage at the revision it knows, or waits for the next round (plan, settle,
\* follow_lifecycle).  It keeps no copy in memory of a branch its lifecycle says was
\* evicted; and that lifecycle, what it believes it holds and what it promised its owner
\* are on its storage (state_replication.rs install_replica_branch_checkpoint,
\* install_replica_branch_lru_snapshot).
ReplicaComplete ==
    /\ part = "rounds" => /\ Rounds!TypeOK /\ Rounds!CursorCovers
                          /\ Rounds!NoneForgotten /\ Rounds!CopiesBacked
    /\ part = "faults" => /\ Faults!TypeOK /\ Faults!CursorCovers
                          /\ Faults!NoneForgotten /\ Faults!CopiesBacked
=============================================================================
