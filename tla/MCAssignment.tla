---------------------------- MODULE MCAssignment ----------------------------
(***************************************************************************)
(* State that moves between nodes: the authority that fences operations of *)
(* earlier assignments on one node, and the Kafka offsets an owner commits *)
(* once its replicas hold them.  The two share no state.  `part` is what a *)
(* behaviour follows, with its bounds; the other rests in its initial      *)
(* state.                                                                  *)
(***************************************************************************)
EXTENDS StateAssignment, TLC

CONSTANTS FirstOwner, Replica, OtherReplica, Partition, Pair   \* nodes and partitions

VARIABLES
    part,
    owner, up, memory, stored, commit, starting, consuming, snapshot, sync, acks, progress,
    confirmed, needed, stops, losses, applications, snapshots

\* Commits of two partitions, and a snapshot.
Commits ==
    INSTANCE KafkaOffsets WITH
      Nodes <- {FirstOwner, Replica}, Partitions <- Pair, MaxOffset <- 2, MaxStarts <- 1,
      MaxApplications <- 1, MaxSnapshots <- 1, MaxUnderWay <- 1,
      MaxOwnerStops <- 0, MaxReplicaStops <- 0, MaxLosses <- 0
\* A start applied again after the replica stopped.
DomainStarts ==
    INSTANCE KafkaOffsets WITH
      Nodes <- {FirstOwner, Replica}, Partitions <- {Partition}, MaxOffset <- 2, MaxStarts <- 2,
      MaxApplications <- 2, MaxSnapshots <- 1, MaxUnderWay <- 1,
      MaxOwnerStops <- 0, MaxReplicaStops <- 1, MaxLosses <- 0
\* The owner is lost, and one of two replicas takes over.
Failover ==
    INSTANCE KafkaOffsets WITH
      Nodes <- {FirstOwner, Replica, OtherReplica}, Partitions <- {Partition}, MaxOffset <- 2,
      MaxStarts <- 1, MaxApplications <- 1, MaxSnapshots <- 0, MaxUnderWay <- 1,
      MaxOwnerStops <- 1, MaxReplicaStops <- 0, MaxLosses <- 0

offsetVars == <<owner, up, memory, stored, commit, starting, consuming, snapshot, sync, acks,
                progress, confirmed, needed, stops, losses, applications, snapshots>>
stateVars == <<part, vars, offsetVars>>

StateInit ==
    /\ part \in {"authority", "commits", "starts", "failover"}
    /\ Init
    /\ IF part = "commits" THEN Commits!Init
       ELSE IF part = "failover" THEN Failover!Init ELSE DomainStarts!Init

StateNext ==
    \/ part = "authority" /\ Next /\ UNCHANGED <<part, offsetVars>>
    \/ part = "commits" /\ Commits!Next /\ UNCHANGED <<part, vars>>
    \/ part = "starts" /\ DomainStarts!Next /\ UNCHANGED <<part, vars>>
    \/ part = "failover" /\ Failover!Next /\ UNCHANGED <<part, vars>>

StateSpec == StateInit /\ [][StateNext]_stateVars

\* Tasks differ only in what they did so far.
Symmetry == Permutations(Tasks)

-----------------------------------------------------------------------------
\* Commits survive.  When the owner is lost, whoever the unit is assigned to resumes after
\* every commit that returned, from its memory as a replica (Promote).  A commit that
\* returned is held by every replica that reported its revision to the owner
\* (commit_domain_kafka_offset, wait_for_replica_quorum), which is claimed while no node
\* restarts: a replica may have reported what only its memory holds.  A revision is a
\* prefix of the commits: a copy of it, in memory, on disk or under way, contains every
\* commit stamped up to it, and the start they followed (move_recorded_offset,
\* latest_snapshot, capture_after).  And what is on disk never goes back to an older
\* revision, although the snapshot task and a start write it
\* (write_latest_snapshot_checked).
CommitsSurvive ==
    /\ [](/\ part = "commits" => /\ Commits!TypeOK /\ Commits!ConfirmedHeld
                                 /\ Commits!RevisionsComplete
          /\ part = "starts" => DomainStarts!TypeOK /\ DomainStarts!RevisionsComplete
          /\ part = "failover" => Failover!TypeOK)
    /\ [][/\ part = "commits" => Commits!Advances
          /\ part = "starts" => DomainStarts!Advances
          /\ part = "failover" => Failover!Resumes]_stateVars
=============================================================================
