----------------------------- MODULE MCReturns ------------------------------
(***************************************************************************)
(* What was begun on durable or replicated state is finished: calls of the *)
(* durability barrier and of a state's authority, commits of Kafka         *)
(* offsets, waits for a replicated checkpoint, COMMITs whose leader is     *)
(* lost, and replicas that catch up.  The components share no state.       *)
(* `part` is what a behaviour follows, with its bounds; the others rest    *)
(* in their initial states, and fairness is assumed of the tasks of the    *)
(* part.                                                                   *)
(***************************************************************************)
EXTENDS Naturals

CONSTANTS w1, w2,          \* writers
          t1, t2,          \* tasks that use a state
          b1, b2,          \* branches
          a1, a2, x1,      \* announcers, and a task that waits
          n1, n2, p1,      \* nodes and a partition
          l1, l2, None     \* live identities

VARIABLES
    part,
    step, ticket, issued, synchronized, failed, running, round, ends, woken, dirty, carried,
    stable, lost, poisoned,
    generation, barrier, count, token, at, acted, reads, visible, operations,
    catalog, states, published, unrecorded, ownerLife, life, storedLife, passive, copied,
    announcements, task, catchUp, acked, budget,
    written, unoffered, announcement, progress, announcer, primary, assigned, closed,
    messages, held, permit, waiter, signals, changes, losses,
    owner, up, memory, stored, commit, starting, consuming, snapshot, sync, acks, reported,
    confirmed, needed, stops, lostAcks, applications, snapshots,
    leader, term, live, drift, restarts, control, view, coordinator, exec

\* Flushes fail, jobs are refused and writers stop waiting.
Barrier == INSTANCE DurabilityBarrier WITH Writers <- {w1, w2}, MayFail <- "yes", MayCancel <- "yes"

Authority == INSTANCE StateAssignment WITH Tasks <- {t1, t2}, MaxGeneration <- 3, MaxOperations <- 3

\* A request fails and the replica restarts.
Branches ==
    INSTANCE BranchCheckpoints WITH
      Branches <- {b1, b2}, Unbranched <- {}, Page <- 1, Retained <- 2, PagesPerRound <- 2,
      MaxSequence <- 3, MaxRevision <- 2, MaxLifecycles <- 1, MaxEpochs <- 1,
      MaxAnnounced <- 0, MaxFailures <- 1, MaxRestarts <- 1, round <- catchUp, stored <- copied

\* Revisions are offered one after another, and an announcement or a report is lost.
Offers ==
    INSTANCE CheckpointReplication WITH
      Replicas <- {n1}, Announcers <- {a1, a2}, Waiters <- {}, FirstReplicas <- {n1},
      MaxRevision <- 3, MaxChanges <- 0, MaxLosses <- 1
\* A task waits for a revision.
Waits ==
    INSTANCE CheckpointReplication WITH
      Replicas <- {n1}, Announcers <- {a1, a2}, Waiters <- {x1}, FirstReplicas <- {n1},
      MaxRevision <- 2, MaxChanges <- 0, MaxLosses <- 1

\* Acknowledgements are lost.
Offsets ==
    INSTANCE KafkaOffsets WITH
      Nodes <- {n1, n2}, FirstOwner <- n1, Partitions <- {p1}, MaxOffset <- 2, MaxStarts <- 1,
      MaxApplications <- 1, MaxSnapshots <- 1, MaxUnderWay <- 2, MaxOwnerStops <- 0,
      MaxReplicaStops <- 0, MaxLosses <- 2, progress <- reported, losses <- lostAcks

\* An election, and a change of the planning inputs or of the live identities.
Coordinators ==
    INSTANCE CommitCoordinator WITH
      Node <- {n1, n2}, LiveIdentities <- {l1, l2}, Plannable <- {l1}, Steps <- 1, Absent <- None,
      MaxTerm <- 2, MaxDrift <- 1, MaxRestarts <- 0, commit <- coordinator

barrierVars == <<step, ticket, issued, synchronized, failed, running, round, ends, woken, dirty,
                 carried, stable, lost, poisoned>>
authorityVars == <<generation, barrier, count, token, at, acted, reads, visible, operations>>
branchVars == <<catalog, states, published, unrecorded, ownerLife, life, storedLife, passive,
                copied, announcements, task, catchUp, acked, budget>>
replicationVars == <<written, unoffered, announcement, progress, announcer, primary, assigned,
                     closed, messages, held, permit, waiter, signals, changes, losses>>
offsetVars == <<owner, up, memory, stored, commit, starting, consuming, snapshot, sync, acks,
                reported, confirmed, needed, stops, lostAcks, applications, snapshots>>
coordinatorVars == <<leader, term, live, drift, restarts, control, view, coordinator, exec>>
returnVars == <<part, barrierVars, authorityVars, branchVars, replicationVars, offsetVars,
                coordinatorVars>>

ReturnInit ==
    /\ part \in {"barrier", "authority", "branches", "offers", "waits", "offsets", "coordinators"}
    /\ Barrier!Init /\ Authority!Init /\ Branches!Init /\ Offsets!Init
    /\ IF part = "waits" THEN Waits!ReplicationInit ELSE Offers!ReplicationInit
    /\ Coordinators!CoordinatorInit /\ (live = l1 \/ part = "coordinators")

ReturnNext ==
    \/ /\ part = "barrier" /\ Barrier!Next
       /\ UNCHANGED <<part, authorityVars, branchVars, replicationVars, offsetVars, coordinatorVars>>
    \/ /\ part = "authority" /\ Authority!Next
       /\ UNCHANGED <<part, barrierVars, branchVars, replicationVars, offsetVars, coordinatorVars>>
    \/ /\ part = "branches" /\ Branches!Next
       /\ UNCHANGED <<part, barrierVars, authorityVars, replicationVars, offsetVars, coordinatorVars>>
    \/ /\ part = "offers" /\ Offers!ReplicationNext
       /\ UNCHANGED <<part, barrierVars, authorityVars, branchVars, offsetVars, coordinatorVars>>
    \/ /\ part = "waits" /\ Waits!ReplicationNext
       /\ UNCHANGED <<part, barrierVars, authorityVars, branchVars, offsetVars, coordinatorVars>>
    \/ /\ part = "offsets" /\ Offsets!Next
       /\ UNCHANGED <<part, barrierVars, authorityVars, branchVars, replicationVars, coordinatorVars>>
    \/ /\ part = "coordinators" /\ Coordinators!CoordinatorNext
       /\ UNCHANGED <<part, barrierVars, authorityVars, branchVars, replicationVars, offsetVars>>

-----------------------------------------------------------------------------
\* Calls go on unless they are cancelled, a job that was taken runs, and flushes end.
BarrierFairness ==
    /\ \A w \in {w1, w2} : WF_barrierVars(part = "barrier" /\ Barrier!Call(w))
    /\ WF_barrierVars(part = "barrier" /\ Barrier!Job)
    /\ WF_barrierVars(part = "barrier" /\ Barrier!Signal)

\* A call that was made is run: admitted operations are synchronous, and what runs
\* under the barrier ends.
AuthorityFairness ==
    \A t \in {t1, t2} : WF_authorityVars(part = "authority" /\ Authority!Proceed(t))

\* A branch task records what it published, a stopped owner starts again, and the
\* replica task's rounds go on: the poll interval passes, and a request is answered
\* unless it fails.
BranchFairness ==
    /\ WF_branchVars(part = "branches" /\ Branches!RoundNext)
    /\ WF_branchVars(part = "branches" /\ Branches!OwnerStarts)
    /\ \A b \in {b1, b2} : WF_branchVars(part = "branches" /\ Branches!Record(b))

\* Tasks run, replicas synchronize, and what is sent and not lost arrives.
ReplicationFairness ==
    /\ \A r \in 1..3 : WF_replicationVars(part = "offers" /\ Offers!Offer(r))
    /\ \A a \in {a1, a2} : WF_replicationVars(part = "offers" /\ Offers!Announcing(a))
    /\ WF_replicationVars(part = "offers" /\ Offers!Synchronize(n1))
    /\ WF_replicationVars(part = "offers" /\ Offers!Arrives("available", n1))
    /\ WF_replicationVars(part = "offers" /\ Offers!Arrives("held", n1))
    /\ \A r \in 1..2 : WF_replicationVars(part = "waits" /\ Waits!Offer(r))
    /\ \A a \in {a1, a2} : WF_replicationVars(part = "waits" /\ Waits!Announcing(a))
    /\ WF_replicationVars(part = "waits" /\ Waits!Synchronize(n1))
    /\ WF_replicationVars(part = "waits" /\ Waits!Arrives("available", n1))
    /\ WF_replicationVars(part = "waits" /\ Waits!Arrives("held", n1))
    /\ WF_replicationVars(part = "waits" /\ Waits!SignalWaiters)
    /\ WF_replicationVars(part = "waits" /\ Waits!LookAtProgress(x1))
    /\ WF_replicationVars(part = "waits" /\ waiter[x1].at = "asleep" /\ Waits!Register(x1))

\* Commits are stamped, replicas poll, and what is sent and not lost arrives.
OffsetFairness ==
    /\ WF_offsetVars(part = "offsets" /\ Offsets!Stamp(p1))
    /\ WF_offsetVars(part = "offsets" /\ Offsets!Record(p1))
    /\ WF_offsetVars(part = "offsets" /\ Offsets!Confirm(p1))
    /\ WF_offsetVars(part = "offsets" /\ Offsets!WriteSnapshot)
    /\ WF_offsetVars(part = "offsets" /\ Offsets!Describe(n2))
    /\ WF_offsetVars(part = "offsets" /\ Offsets!Capture(n2))
    /\ WF_offsetVars(part = "offsets" /\ Offsets!Encode(n2))
    /\ WF_offsetVars(part = "offsets" /\ Offsets!Install(n2))
    /\ WF_offsetVars(part = "offsets" /\ Offsets!Acknowledge(n2))
    /\ WF_offsetVars(part = "offsets" /\ Offsets!Arrives(n2))

\* Elections, deadlines and drift are never promised.  A node applies the log, its
\* reconciliation loop keeps running commands and executors, and waiting for an effect
\* to be usable ends.
CoordinatorFairness ==
    \A n \in {n1, n2} :
      /\ WF_coordinatorVars(part = "coordinators" /\ Coordinators!CatchUp(n))
      /\ WF_coordinatorVars(part = "coordinators" /\ Coordinators!Coordinates(n))
      /\ WF_coordinatorVars(part = "coordinators" /\ Coordinators!Recovers(n))

ReturnSpec ==
    /\ ReturnInit /\ [][ReturnNext]_returnVars
    /\ BarrierFairness /\ AuthorityFairness /\ BranchFairness /\ ReplicationFairness
    /\ OffsetFairness /\ CoordinatorFairness

-----------------------------------------------------------------------------
\* Nothing tells two writers or two tasks apart: what ends for one of them ends for the
\* other.
Begun ==
    CASE part = "barrier" -> step[w1] = "applied"
      [] part = "authority" -> at[t1] # "idle"
      [] part = "waits" -> waiter[x1].at # "none"
      [] part = "offsets" -> commit[p1].step # "idle"
      [] part = "coordinators" -> control.state = "committing"
      [] OTHER -> FALSE
Finished ==
    CASE part = "barrier" -> step[w1] \in {"durable", "refused", "cancelled"}
      [] part = "authority" -> at[t1] = "idle"
      [] part = "waits" -> waiter[x1].at = "none"
      [] part = "offsets" -> commit[p1].step = "idle"
      [] part = "coordinators" ->
           control.state = "finished" \/ control.plan \notin control.reports
      [] OTHER -> FALSE

\* What was begun is finished.  A call of the barrier returns, whoever abandons the
\* round it waits for (DurabilityRound::drop).  A rebind's wait ends when the operations
\* it waits for end, and nothing it waits for waits for the barrier it holds
\* (wait_until_finished).  A task that waits for a replicated revision goes on, and a
\* commit of an offset returns, although acknowledgements are lost
\* (sync_kafka_offsets_from).  A COMMITTING transaction whose report is retained
\* finishes, whatever leader recovers it (schedule_transaction_recovery).
\* Every written revision reaches every replica and is known to, although announcements
\* and reports are lost and no replica polls (Announcer); and once the owner's branches
\* stop changing, the replica stores the newest recorded revision of every branch the
\* owner has and its lifecycle names (catch_up_replica_branches).
CallsReturn ==
    /\ Begun ~> Finished
    /\ <>[](/\ part = "offers" => \A n \in assigned : progress[n] >= written
            /\ part = "branches" =>
                 \A b \in DOMAIN catalog.entries :
                   Branches!MayInstall(ownerLife, b) => copied[b] >= catalog.entries[b].lsm)
=============================================================================
