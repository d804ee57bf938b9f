---------------------------- MODULE KafkaOffsets ----------------------------
(***************************************************************************)
(* The replicated offsets of one Kafka ingestor unit                       *)
(* (src/src/runtime/kafka_offset_state.rs, kafka_offset_transfer.rs and    *)
(* state_replication.rs).  The owner commits offsets in memory and waits   *)
(* for its replicas; replicas poll, install what they receive in memory    *)
(* and acknowledge it; every node writes snapshots in its own time.        *)
(*                                                                         *)
(* A copy of the offsets is a record: its revision (the LSM), the domain   *)
(* start it stems from, and the next offset of each partition, 0 when it   *)
(* records none.  A commit moves a slot and then advances the revision; a  *)
(* copy is taken revision first.  The persisted revision of a node is the  *)
(* one of its stored copy.                                                 *)
(***************************************************************************)
EXTENDS Integers, Sequences, FiniteSets

CONSTANTS Nodes, FirstOwner, Partitions,
          MaxOffset,     \* offsets of a partition that are explored
          MaxStarts,     \* domain starts
          MaxApplications, \* times a start is applied
          MaxSnapshots,  \* snapshots of all nodes together
          MaxUnderWay,   \* acknowledgements under way from one replica
          MaxOwnerStops, MaxReplicaStops, MaxLosses

VARIABLES
    owner,      \* the node the schedule assigns the unit to
    up,         \* nodes that run
    memory,     \* node -> its copy in memory
    stored,     \* node -> its copy on disk
    commit,     \* partition -> the commit under way
    starting,   \* the domain start whose checkpoint is being persisted
    consuming,  \* the start that was persisted and is consumed after, 0 for none
    snapshot,   \* the owner's snapshot in progress
    sync,       \* node -> its synchronization, as a replica
    acks,       \* acknowledgements under way
    progress,   \* what replicas reported to the owner: ReplicaProgress
    confirmed,  \* partition -> highest offset whose commit returned, and its revision
    needed,     \* revision -> what every copy of that revision has to contain
    stops,      \* stops of owners and of replicas so far
    losses,     \* acknowledgements lost so far
    applications, \* starts applied so far
    snapshots   \* snapshots so far

vars == <<owner, up, memory, stored, commit, starting, consuming, snapshot, sync, acks,
          progress, confirmed, needed, stops, losses, applications,
          snapshots>>
replicaVars == <<sync, acks, progress, losses>>
startVars == <<owner, up, stops, snapshots>>
writerVars == <<owner, up, stops, applications, consuming>>
finishVars == <<owner, up, stops, applications, snapshots>>
clusterVars == <<owner, up, stops, applications, snapshots, consuming>>
boundVars == <<applications, snapshots, losses>>

Offsets == 0..MaxOffset
Tables == [Partitions -> Offsets]
Empty == [p \in Partitions |-> 0]
Copy(lsm, start, table) == [lsm |-> lsm, start |-> start, table |-> table]
Blank == Copy(0, 0, Empty)
Replicas == Nodes \ {owner}
Nothing == [p \in Partitions |-> [offset |-> 0, lsm |-> 0]]
NoCommit == [step |-> "idle", offset |-> 0, lsm |-> 0]
NoSync == [step |-> "idle", after |-> 0, described |-> 0, copy |-> Blank]
Idle == [step |-> "idle", copy |-> Blank]

TypeOK ==
    /\ owner \in Nodes /\ up \subseteq Nodes
    /\ \A n \in Nodes : \A c \in {memory[n], stored[n], sync[n].copy, starting.copy, snapshot.copy} :
         c.lsm \in Nat /\ c.start \in 0..MaxStarts /\ c.table \in Tables
    /\ \A p \in Partitions : /\ commit[p].step \in {"idle", "unrecorded", "moved", "waiting"}
                             /\ commit[p].offset \in Offsets /\ commit[p].lsm \in Nat
    /\ starting.step \in {"idle", "applied", "waiting"} /\ snapshot.step \in {"idle", "stamped"}
    /\ \A n \in Nodes : /\ sync[n].step \in {"idle", "described", "captured", "encoded", "done"}
                         /\ sync[n].after \in Nat /\ sync[n].described \in Nat
    /\ \A m \in acks : m.from \in Nodes /\ m.lsm \in Nat
    /\ progress \in [Nodes -> Nat]
    /\ confirmed \in [Partitions -> [offset : Offsets, lsm : Nat]]
    /\ consuming \in 0..MaxStarts /\ \A l \in DOMAIN needed : needed[l].table \in Tables

Init ==
    /\ owner = FirstOwner /\ up = Nodes
    /\ memory = [n \in Nodes |-> Blank] /\ stored = memory
    /\ commit = [p \in Partitions |-> NoCommit]
    /\ starting = Idle /\ consuming = 0 /\ snapshot = Idle
    /\ sync = [n \in Nodes |-> NoSync]
    /\ acks = {} /\ progress = [n \in Nodes |-> 0]
    /\ confirmed = Nothing
    /\ needed = <<>>
    /\ stops = [owner |-> 0, replica |-> 0] /\ losses = 0 /\ applications = 0 /\ snapshots = 0

(***************************************************************************)
(* The owner.                                                              *)
(***************************************************************************)
Own == memory[owner]
Runs == owner \in up

\* What the newest revision has to contain, and LsmSequence::advance with the
\* change `table` of the offsets.
Latest == IF needed = <<>> THEN Blank ELSE needed[Len(needed)]
Advance(start, table, need) ==
    /\ memory' = [memory EXCEPT ![owner] = Copy(Own.lsm + 1, start, table)]
    /\ needed' = Append(needed, Copy(Own.lsm + 1, start, need))

\* The snapshot in progress holds the barrier.
BarrierFree == snapshot.step = "idle"

InCommit(p, step, lsm) == commit' = [commit EXCEPT ![p] = [@ EXCEPT !.step = step, !.lsm = lsm]]

\* commit_domain_kafka_offset: the consumer of p processed up to the next offset.
\* move_recorded_offset moves the slot, when there is one.
Commit(p) ==
    /\ Runs /\ consuming > 0 /\ commit[p].step = "idle" /\ Own.table[p] < MaxOffset
    /\ LET next == Own.table[p] + 1
           recorded == Own.table[p] # 0
       IN /\ commit' = [commit EXCEPT ![p] =
                          [step |-> IF recorded THEN "moved" ELSE "unrecorded",
                           offset |-> next, lsm |-> 0]]
          /\ memory' = IF recorded THEN [memory EXCEPT ![owner].table[p] = next] ELSE memory
    /\ UNCHANGED <<clusterVars, stored, starting, snapshot, replicaVars, confirmed, needed>>

\* The revision advances: the commit waits for its replicas to hold it.
Stamp(p) ==
    /\ Runs /\ commit[p].step = "moved"
    /\ Advance(Own.start, Own.table, [Latest.table EXCEPT ![p] = commit[p].offset])
    /\ InCommit(p, "waiting", Own.lsm + 1)
    /\ UNCHANGED <<clusterVars, stored, starting, snapshot, replicaVars, confirmed>>

\* record_first_offset, under the barrier.
Record(p) ==
    /\ Runs /\ commit[p].step = "unrecorded" /\ BarrierFree
    /\ LET moved == [Own.table EXCEPT ![p] = commit[p].offset]
       IN Advance(Own.start, moved, [Latest.table EXCEPT ![p] = commit[p].offset])
    /\ InCommit(p, "waiting", Own.lsm + 1)
    /\ UNCHANGED <<clusterVars, stored, starting, snapshot, replicaVars, confirmed>>

\* The fault of one replica being enough.
AnyHolds(lsm) == \E n \in Replicas : progress[n] >= lsm
\* quorum_holds: schedule application requires every replica.
QuorumHolds(lsm) == \A n \in Replicas : progress[n] >= lsm

Larger(a, b) == IF a < b THEN b ELSE a

\* wait_for_replica_quorum returns, or gives up at its deadline.
Confirm(p) ==
    /\ Runs /\ commit[p].step = "waiting" /\ QuorumHolds(commit[p].lsm)
    /\ confirmed' = IF confirmed[p].offset > commit[p].offset THEN confirmed
                    ELSE [confirmed EXCEPT ![p] = [offset |-> commit[p].offset,
                                                   lsm |-> commit[p].lsm]]
    /\ commit' = [commit EXCEPT ![p] = NoCommit]
    /\ UNCHANGED <<clusterVars, memory, stored, starting, snapshot, replicaVars, needed>>
TimeOut(p) ==
    /\ Runs /\ commit[p].step = "waiting"
    /\ commit' = [commit EXCEPT ![p] = NoCommit]
    /\ UNCHANGED <<clusterVars, memory, stored, starting, snapshot, replicaVars, confirmed, needed>>

(***************************************************************************)
(* apply_start_for: an instance applies a domain start it resolved.  Tasks *)
(* that commit have ended before a new start is applied.                   *)
(***************************************************************************)
\* What a repeated start records: partitions that have no offset yet.
Resolved(start, positions) ==
    IF Own.start < start THEN positions
    ELSE [p \in Partitions |-> IF Own.table[p] = 0 THEN positions[p] ELSE Own.table[p]]

Applies ==
    /\ Runs /\ BarrierFree /\ starting.step = "idle" /\ applications < MaxApplications
    /\ applications' = applications + 1
ApplyStart(start) ==
    /\ Applies /\ Own.start <= start
    /\ Own.start < start => \A p \in Partitions : commit[p].step = "idle"
    /\ \E positions \in [Partitions -> {0, 1}] :
         LET table == Resolved(start, positions)
             changed == Own.start < start \/ table # Own.table
             need == [p \in Partitions |->
                        IF Own.start < start \/ Own.table[p] = 0 THEN table[p] ELSE Latest.table[p]]
         IN /\ IF changed THEN Advance(start, table, need) ELSE UNCHANGED <<memory, needed>>
            /\ starting' = [step |-> "applied", copy |-> memory'[owner]]
    /\ confirmed' = IF Own.start < start THEN Nothing ELSE confirmed
    /\ consuming' = IF Own.start < start THEN 0 ELSE consuming
    /\ UNCHANGED <<startVars, stored, commit, snapshot, replicaVars>>

\* A start that is older than the one applied changes nothing.
ApplyStaleStart(start) ==
    /\ Applies /\ start < Own.start
    /\ starting' = [step |-> "applied", copy |-> Own]
    /\ UNCHANGED <<startVars, consuming, memory, stored, commit, snapshot, replicaVars, confirmed, needed>>

\* write_latest_snapshot keeps the greater revision.
Written(copy, current) == IF current.lsm > copy.lsm THEN current ELSE copy

\* persist_kafka_offset_snapshot; then it waits like a commit.
PersistStart ==
    /\ Runs /\ starting.step = "applied"
    /\ stored' = [stored EXCEPT ![owner] = Written(starting.copy, stored[owner])]
    /\ starting' = [starting EXCEPT !.step = "waiting"]
    /\ UNCHANGED <<clusterVars, memory, commit, snapshot, replicaVars, confirmed, needed>>
FinishStart ==
    /\ Runs /\ starting.step = "waiting" /\ QuorumHolds(starting.copy.lsm)
    /\ starting' = Idle /\ consuming' = Own.start
    /\ UNCHANGED <<finishVars, memory, stored, commit, snapshot, replicaVars, confirmed, needed>>

(***************************************************************************)
(* The snapshot tasks.                                                     *)
(***************************************************************************)
\* latest_snapshot: the owner's revision is read under the barrier, then the slots.
BeginSnapshot ==
    /\ Runs /\ BarrierFree /\ Own.lsm > stored[owner].lsm
    /\ snapshots < MaxSnapshots /\ snapshots' = snapshots + 1
    /\ snapshot' = [step |-> "stamped", copy |-> Own]
    /\ UNCHANGED <<writerVars, memory, stored, commit, starting, replicaVars, confirmed, needed>>

\* The slots are read while commits move them.
Read(copy) == [copy EXCEPT !.table = Own.table]

\* flush_latest_snapshot.
WriteSnapshot ==
    /\ Runs /\ snapshot.step = "stamped"
    /\ stored' = [stored EXCEPT ![owner] = Written(Read(snapshot.copy), stored[owner])]
    /\ snapshot' = Idle
    /\ UNCHANGED <<clusterVars, memory, commit, starting, replicaVars, confirmed, needed>>

\* On a replica only installations change the offsets, and they take the barrier.
WriteReplica(n) ==
    /\ n \in up \cap Replicas /\ memory[n].lsm > stored[n].lsm
    /\ snapshots < MaxSnapshots /\ snapshots' = snapshots + 1
    /\ stored' = [stored EXCEPT ![n] = memory[n]]
    /\ UNCHANGED <<writerVars, memory, commit, starting, snapshot, replicaVars, confirmed, needed>>

(***************************************************************************)
(* A replica: the poll task, sync_kafka_offsets_from.                      *)
(***************************************************************************)
Set(n, s) == sync' = [sync EXCEPT ![n] = s]

\* describe_kafka_offsets: nothing newer is acknowledged again.
Describe(n) ==
    /\ n \in up \cap Replicas /\ Runs /\ sync[n].step = "idle"
    /\ Set(n, [NoSync EXCEPT !.step = IF Own.lsm <= memory[n].lsm THEN "done" ELSE "described",
                             !.after = memory[n].lsm, !.described = Own.lsm])
    /\ UNCHANGED <<clusterVars, memory, stored, commit, starting, snapshot, acks, progress, losses,
                   confirmed, needed>>

\* stream_kafka_offsets: capture_after takes the revision and the table.
Capture(n) ==
    /\ Runs /\ sync[n].step = "described" /\ BarrierFree
    /\ Set(n, IF Own.lsm <= sync[n].after THEN [sync[n] EXCEPT !.step = "done"]
              ELSE [sync[n] EXCEPT !.step = "captured", !.copy = Own])
    /\ UNCHANGED <<clusterVars, memory, stored, commit, starting, snapshot, acks, progress, losses,
                   confirmed, needed>>

\* The slots of the captured table are read as they are now; a table that was
\* replaced by a new start no longer changes.
Encoded(copy) ==
    IF copy.start # Own.start THEN copy
    ELSE [copy EXCEPT !.table = [p \in Partitions |->
                                   IF copy.table[p] = 0 THEN 0 ELSE Own.table[p]]]

Encode(n) ==
    /\ Runs /\ sync[n].step = "captured"
    /\ Set(n, [sync[n] EXCEPT !.step = "encoded", !.copy = Encoded(@)])
    /\ UNCHANGED <<clusterVars, memory, stored, commit, starting, snapshot, acks, progress, losses,
                   confirmed, needed>>

\* install_table, when the header's revision advances what was asked after.
Install(n) ==
    /\ sync[n].step = "encoded"
    /\ LET accepted == sync[n].copy.lsm > sync[n].after /\ sync[n].copy.lsm >= sync[n].described
       IN /\ memory' = IF accepted THEN [memory EXCEPT ![n] = sync[n].copy] ELSE memory
          /\ Set(n, IF accepted THEN [sync[n] EXCEPT !.step = "done"] ELSE NoSync)
    /\ UNCHANGED <<clusterVars, stored, commit, starting, snapshot, acks, progress, losses,
                   confirmed, needed>>

UnderWay(n) == {m \in acks : m.from = n}

\* acknowledged_revision, or the revision installed: the replica holds it in memory.
Acknowledge(n) ==
    /\ sync[n].step = "done" /\ Cardinality(UnderWay(n)) < MaxUnderWay
    /\ acks' = acks \cup {[from |-> n, lsm |-> memory[n].lsm]}
    /\ Set(n, NoSync)
    /\ UNCHANGED <<clusterVars, memory, stored, commit, starting, snapshot, progress, losses,
                   confirmed, needed>>

\* handle_state_replication_ack; acknowledgements are late, overtake each other or
\* are lost.
Deliver(m) ==
    /\ Runs
    /\ progress' = [progress EXCEPT ![m.from] = Larger(@, m.lsm)]
    /\ acks' = acks \ {m}
    /\ UNCHANGED <<clusterVars, memory, stored, commit, starting, snapshot, sync, losses,
                   confirmed, needed>>
Lose(m) ==
    /\ losses < MaxLosses /\ losses' = losses + 1
    /\ acks' = acks \ {m}
    /\ UNCHANGED <<clusterVars, memory, stored, commit, starting, snapshot, sync, progress,
                   confirmed, needed>>

(***************************************************************************)
(* Nodes stop and return, and the unit is assigned to another node.        *)
(***************************************************************************)
Stop(n) ==
    /\ n \in up /\ up' = up \ {n}
    /\ IF n = owner
       THEN /\ stops.owner < MaxOwnerStops /\ stops' = [stops EXCEPT !.owner = @ + 1]
            /\ commit' = [p \in Partitions |-> NoCommit]
            /\ starting' = Idle /\ snapshot' = Idle /\ consuming' = 0
            /\ sync' = [r \in Nodes |-> NoSync] /\ acks' = {}
       ELSE /\ stops.replica < MaxReplicaStops /\ stops' = [stops EXCEPT !.replica = @ + 1]
            /\ Set(n, NoSync)
            /\ UNCHANGED <<commit, starting, snapshot, consuming, acks>>
    /\ UNCHANGED <<owner, memory, stored, progress, confirmed, needed, boundVars>>

\* n takes up the unit with this copy: the start it stems from was persisted.
TakesUp(copy) ==
    /\ progress' = [r \in Nodes |-> 0]
    /\ needed' = SubSeq(needed, 1, copy.lsm)
    /\ consuming' = copy.start

\* replicated_kafka_offset_state starts from the stored copy.
Return(n) ==
    /\ n \notin up /\ up' = up \cup {n}
    /\ memory' = [memory EXCEPT ![n] = stored[n]]
    /\ IF n = owner THEN TakesUp(stored[n]) ELSE UNCHANGED <<progress, needed, consuming>>
    /\ UNCHANGED <<owner, stops, stored, commit, starting, snapshot, sync, acks, confirmed,
                   boundVars>>

\* The owner is lost: a live replica is promoted and goes on from its memory.
Promote(n) ==
    /\ owner \notin up /\ n \in up
    /\ owner' = n
    /\ TakesUp(memory[n])
    /\ UNCHANGED <<up, stops, memory, stored, commit, starting, snapshot, sync, acks, confirmed,
                   boundVars>>

Owner ==
    \/ \E p \in Partitions : Commit(p) \/ Stamp(p) \/ Record(p) \/ Confirm(p) \/ TimeOut(p)
    \/ \E start \in 1..MaxStarts : ApplyStart(start) \/ ApplyStaleStart(start)
    \/ PersistStart \/ FinishStart \/ BeginSnapshot \/ WriteSnapshot
ReplicaStep(n) ==
    Describe(n) \/ Capture(n) \/ Encode(n) \/ Install(n) \/ Acknowledge(n) \/ WriteReplica(n)
Network == \E m \in acks : Deliver(m) \/ Lose(m)
Faults == \E n \in Nodes : Stop(n) \/ Return(n) \/ Promote(n)

Next == Owner \/ (\E n \in Nodes : ReplicaStep(n)) \/ Network \/ Faults

Spec == Init /\ [][Next]_vars

\* Commits are stamped, replicas poll, and what is sent and not lost arrives.
Arrives(n) == \E m \in acks : m.from = n /\ Deliver(m)
-----------------------------------------------------------------------------
\* A commit that returned is held by every replica that reported its revision to the
\* owner (commit_domain_kafka_offset, wait_for_replica_quorum).
ConfirmedHeld ==
    \A n \in up \cap Replicas, p \in Partitions :
      progress[n] >= confirmed[p].lsm => memory[n].table[p] >= confirmed[p].offset

\* When the owner is lost, whoever the unit is assigned to resumes after every
\* commit that returned (Promote, from its memory as a replica).
Resumes ==
    owner' # owner => \A p \in Partitions : memory[owner'].table[p] >= confirmed[p].offset

\* A revision is a prefix of the commits: a copy of it, in memory, on disk or under
\* way, contains every commit stamped up to it, and the start they followed
\* (move_recorded_offset, latest_snapshot, capture_after).
Copies ==
    {memory[n] : n \in Nodes} \cup {stored[n] : n \in Nodes}
      \cup {sync[n].copy : n \in {r \in Nodes : sync[r].step = "encoded"}}
RevisionsComplete ==
    \A c \in Copies : c.lsm \in DOMAIN needed =>
      /\ c.start = needed[c.lsm].start
      /\ \A p \in Partitions : c.table[p] >= needed[c.lsm].table[p]

\* What is on disk never goes back to an older revision, although the snapshot task
\* and a start write it (write_latest_snapshot_checked).
Advances == \A n \in Nodes : stored'[n].lsm >= stored[n].lsm
=============================================================================
