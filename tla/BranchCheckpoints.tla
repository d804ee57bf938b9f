------------------------- MODULE BranchCheckpoints -------------------------
(***************************************************************************)
(* How a replica of a branch-keyed entity keeps its copies of the branch   *)
(* checkpoints current: the owner's catalog of newest revisions, read page *)
(* by page from a cursor, the branch lifecycle that says which branches    *)
(* exist, and the replica task's rounds.                                   *)
(*                                                                         *)
(* A revision stands for a checkpoint: revisions start at 1 and 0 is "no   *)
(* checkpoint".  The owner's revisions of a branch only grow: what a       *)
(* branch state publishes here is what it, or a later state of the branch, *)
(* restores, as it is for a WASM processor, which publishes a checkpoint   *)
(* once it is on its storage.                                              *)
(*                                                                         *)
(* Source: src/runtime/branch_checkpoint_catalog.rs,                       *)
(* src/runtime/state_replication/replica_branch_checkpoints.rs,            *)
(* src/runtime/state_replication/replica_catch_up.rs and the installation  *)
(* of src/runtime/state_replication.rs.                                    *)
(***************************************************************************)
EXTENDS Naturals, FiniteSets, FiniteSetsExt, Functions, TLC

CONSTANTS
    Branches,       \* the branches of the entity
    Unbranched,     \* the one of them that is unbranched work, or none
    Page,           \* BRANCH_CHECKPOINT_LISTING_PAGE
    Retained,       \* RETAINED_REMOVALS
    PagesPerRound,  \* REPLICA_CATCH_UP_PAGES_PER_ROUND
    MaxSequence,    \* bound: changes of one catalog
    MaxRevision,    \* bound: revisions of a branch
    MaxLifecycles,  \* bound: lifecycle revisions
    MaxEpochs,      \* bound: catalogs the owner creates
    MaxAnnounced,   \* bound: announcements that arrive
    MaxFailures,    \* bound: requests that fail
    MaxRestarts     \* bound: restarts of the replica

VARIABLES
    catalog,        \* the owner's BranchCheckpointCatalog
    states,         \* the owner's branch states: a branch and a registration
    published,      \* the newest revision the owner can serve of each branch
    unrecorded,     \* branches whose state published and has yet to record it
    ownerLife,      \* the lifecycle the owner holds
    life,           \* the lifecycle the replica holds
    storedLife,     \* the lifecycle on the replica's storage
    passive,        \* the replica's copies in memory, by branch
    stored,         \* the revision on the replica's storage of each branch
    announcements,  \* announced revisions the replica task has not taken
    task,           \* ReplicaBranchCheckpoints
    round,          \* where the replica task's round stands
    acked,          \* the newest revision the replica acknowledged
    budget          \* what is left of the bounded events

owner == <<catalog, states, published, unrecorded, ownerLife>>
copies == <<life, storedLife, passive, stored>>
vars == <<owner, copies, announcements, task, round, acked, budget>>

Revisions == 0..MaxRevision
NoRevisions == [b \in Branches |-> 0]
Empty == <<>>

\* A function from some of the branches.
Partial(S) == UNION {[D -> S] : D \in SUBSET Branches}
-----------------------------------------------------------------------------
(***************************************************************************)
(* The catalog.                                                            *)
(***************************************************************************)

\* An empty catalog.
NewCatalog(epoch) ==
    [epoch |-> epoch, open |-> TRUE, sequence |-> 0, discarded |-> 0,
     registrations |-> 0, entries |-> Empty, removals |-> {}]

\* Whether the registration of state s still holds its branch's entry.
HoldsEntry(s) ==
    /\ s.branch \in DOMAIN catalog.entries
    /\ catalog.entries[s.branch].registration = s.registration

\* The catalog with an entry for b at revision lsm.
WithEntry(b, registration, lsm) ==
    LET at == catalog.sequence + 1
        entry == [registration |-> registration, lsm |-> lsm, changed |-> at]
    IN  [catalog EXCEPT !.sequence = at,
                        !.entries = (b :> entry) @@ catalog.entries]

\* The removals that are kept, at most Retained of them, the newest.
Kept(removals) ==
    {r \in removals : Cardinality({q \in removals : q.at > r.at}) < Retained}

\* The catalog without the entry of b.
WithoutEntry(b) ==
    LET at == catalog.sequence + 1
        all == catalog.removals \cup {[at |-> at, branch |-> b]}
        gone == {r.at : r \in all \ Kept(all)}
    IN  [catalog EXCEPT
            !.sequence = at,
            !.entries = Restrict(catalog.entries, DOMAIN catalog.entries \ {b}),
            !.removals = Kept(all),
            !.discarded = IF gone = {} THEN @ ELSE Max(gone)]

\* Whether the cursor says what changed after it.
Incremental(cursor) ==
    /\ cursor.epoch = catalog.epoch
    /\ catalog.discarded <= cursor.sequence
    /\ cursor.sequence <= catalog.sequence

\* The present branches, and the kept removals, by the sequence of the change.
Revised == {[at |-> catalog.entries[b].changed, branch |-> b] :
                    b \in DOMAIN catalog.entries}

\* The first Page changes of a set of them.
FirstOf(changes) ==
    {c \in changes : Cardinality({d \in changes : d.at <= c.at}) <= Page}

\* The page that lists the first of the revised and removed changes.
PageOf(removed, revised, after) ==
    LET changes == removed \cup revised
        listed == FirstOf(changes)
        more == listed # changes
        last == IF listed = {} THEN after ELSE Max({c.at : c \in listed})
        branches(S) == {c.branch : c \in S \cap listed}
    IN  [cursor |-> [epoch |-> catalog.epoch,
                     sequence |-> IF more THEN last ELSE catalog.sequence],
         removed |-> branches(removed),
         revised |-> [b \in branches(revised) |-> catalog.entries[b].lsm],
         more |-> more]

\* The first changes after the cursor, or the first checkpoints.
ChangesAfter(cursor) ==
    LET after == cursor.sequence
        later(S) == {c \in S : c.at > after}
    IN  IF Incremental(cursor)
        THEN [restarted |-> FALSE,
              page |-> PageOf(later(catalog.removals), later(Revised), after)]
        ELSE [restarted |-> TRUE, page |-> PageOf({}, Revised, 0)]
-----------------------------------------------------------------------------
(***************************************************************************)
(* The owner.                                                              *)
(***************************************************************************)

\* A state of branch b starts and registers; an earlier state of the branch
\* no longer changes the entry.
Register(b) ==
    /\ catalog.open
    /\ catalog.sequence < MaxSequence
    /\ published' = [published EXCEPT ![b] = IF @ = 0 THEN 1 ELSE @]
    /\ LET r == catalog.registrations + 1
       IN  /\ catalog' = [WithEntry(b, r, published'[b])
                              EXCEPT !.registrations = r]
           /\ states' = states \cup {[branch |-> b, registration |-> r]}
    /\ unrecorded' = unrecorded \ {b}
    /\ UNCHANGED <<ownerLife, copies, announcements, task, round, acked, budget>>

\* The branch task publishes a newer revision, which requests are answered
\* with from now on ...
Publish(b) ==
    /\ b \in DOMAIN catalog.entries \ unrecorded
    /\ published[b] < MaxRevision
    /\ catalog.sequence < MaxSequence
    /\ published' = [published EXCEPT ![b] = @ + 1]
    /\ unrecorded' = unrecorded \cup {b}
    /\ UNCHANGED <<catalog, states, ownerLife, copies, announcements, task,
                   round, acked, budget>>

\* ... and then records it in the catalog.
Record(b) ==
    /\ b \in unrecorded
    /\ catalog.sequence < MaxSequence
    /\ unrecorded' = unrecorded \ {b}
    /\ catalog' =
         IF catalog.entries[b].lsm >= published[b]
         THEN catalog
         ELSE WithEntry(b, catalog.entries[b].registration, published[b])
    /\ UNCHANGED <<states, published, ownerLife, copies, announcements, task,
                   round, acked, budget>>

\* A branch state goes away and its registration with it.
DropState(s) ==
    /\ s \in states
    /\ catalog.sequence < MaxSequence
    /\ states' = states \ {s}
    /\ IF HoldsEntry(s)
       THEN /\ catalog' = WithoutEntry(s.branch)
            /\ unrecorded' = unrecorded \ {s.branch}
       ELSE UNCHANGED <<catalog, unrecorded>>
    /\ UNCHANGED <<published, ownerLife, copies, announcements, task, round,
                   acked, budget>>

\* The owner forms the lifecycle of the branches that exist now.
PublishLifecycle ==
    /\ catalog.open
    /\ ownerLife.lsm < MaxLifecycles
    /\ ownerLife' = [lsm |-> ownerLife.lsm + 1,
                     named |-> {s.branch : s \in states}]
    /\ UNCHANGED <<catalog, states, published, unrecorded, copies,
                   announcements, task, round, acked, budget>>

\* The owner's process ends: its branch states and their catalog are gone,
\* and it answers from its storage.
OwnerStops ==
    /\ catalog.open
    /\ catalog.epoch < MaxEpochs
    /\ catalog' = [NewCatalog(catalog.epoch) EXCEPT !.open = FALSE]
    /\ states' = {}
    /\ unrecorded' = {}
    /\ UNCHANGED <<published, ownerLife, copies, announcements, task, round,
                   acked, budget>>

\* The owner holds the entity again, with another catalog.
OwnerStarts ==
    /\ ~catalog.open
    /\ catalog' = NewCatalog(catalog.epoch + 1)
    /\ UNCHANGED <<states, published, unrecorded, ownerLife, copies,
                   announcements, task, round, acked, budget>>
-----------------------------------------------------------------------------
(***************************************************************************)
(* The replica.                                                            *)
(***************************************************************************)

\* A task that just started.
NewTask == [cursor |-> [epoch |-> 0, sequence |-> 0], known |-> Empty,
            held |-> Empty, waiting |-> {}, toAck |-> NoRevisions]

NewRound == [phase |-> "idle", pages |-> 0, taken |-> NoRevisions, steps |-> {}]

\* Whether the replica may install a checkpoint of b under a lifecycle.
MayInstall(lifecycle, b) == b \in lifecycle.named \cup Unbranched

\* The announcement of a revision the owner published arrives.
Announced(b) ==
    /\ budget.announced > 0
    /\ published[b] > 0
    /\ budget' = [budget EXCEPT !.announced = @ - 1]
    /\ announcements' = [announcements EXCEPT ![b] = Max({@, published[b]})]
    /\ UNCHANGED <<owner, copies, task, round, acked>>

\* A round starts, at an announcement or once the poll interval passed.
StartRound ==
    /\ round.phase = "idle"
    /\ round' = [NewRound EXCEPT !.phase = "lifecycle", !.taken = announcements]
    /\ announcements' = NoRevisions
    /\ UNCHANGED <<owner, copies, task, acked, budget>>

ToCatalog ==
    round' = [round EXCEPT !.phase = "catalog", !.pages = PagesPerRound]

\* The owner has no newer lifecycle.
LifecycleCurrent ==
    /\ round.phase = "lifecycle"
    /\ ownerLife.lsm <= life.lsm
    /\ ToCatalog
    /\ UNCHANGED <<owner, copies, announcements, task, acked, budget>>

\* The fault of a version in which branches named for the first time are not looked at.
FollowLifecycleOnlyForgets(current) ==
    LET keep == {b \in DOMAIN task.held : MayInstall(current, b)}
    IN  [task EXCEPT !.held = Restrict(task.held, keep)]

\* The task afterwards, which follows the lifecycle from life to current.
FollowLifecycle(current) ==
    LET new == {b \in DOMAIN task.known : /\ MayInstall(current, b)
                                          /\ ~MayInstall(life, b)}
        keep == {b \in DOMAIN task.held : MayInstall(current, b)}
    IN  [task EXCEPT !.held = Restrict(task.held, keep),
                     !.waiting = @ \cup new]

\* The replica stores and holds the owner's newer lifecycle, and drops its
\* copies of the branches that one does not name.
InstallLifecycle ==
    /\ round.phase = "lifecycle"
    /\ life.lsm < ownerLife.lsm
    /\ storedLife' = ownerLife
    /\ life' = ownerLife
    /\ passive' = Restrict(passive,
                      {b \in DOMAIN passive : MayInstall(ownerLife, b)})
    /\ task' = FollowLifecycle(ownerLife)
    /\ ToCatalog
    /\ UNCHANGED <<owner, stored, announcements, acked, budget>>

Fails == /\ budget.failures > 0
         /\ budget' = [budget EXCEPT !.failures = @ - 1]

LifecycleFails ==
    /\ round.phase = "lifecycle"
    /\ Fails
    /\ ToCatalog
    /\ UNCHANGED <<owner, copies, announcements, task, acked>>

\* Apply one page of the owner's catalog.
Apply(listing) ==
    LET page == listing.page
        before == IF listing.restarted THEN Empty ELSE task.known
        kept == Restrict(before, DOMAIN before \ page.removed)
    IN  [task EXCEPT !.cursor = page.cursor,
                     !.known = page.revised @@ kept,
                     !.waiting = @ \cup DOMAIN page.revised]

ReadPage ==
    /\ round.phase = "catalog"
    /\ catalog.open
    /\ LET listing == ChangesAfter(task.cursor)
           again == listing.page.more /\ round.pages > 1
       IN  /\ task' = Apply(listing)
           /\ round' = [round EXCEPT !.pages = @ - 1,
                                     !.phase = IF again THEN "catalog" ELSE "plan"]
    /\ UNCHANGED <<owner, copies, announcements, acked, budget>>

ToPlan == round' = [round EXCEPT !.phase = "plan", !.pages = 0]

\* The owner holds no branch state of the entity.
ReadAbsent ==
    /\ round.phase = "catalog"
    /\ ~catalog.open
    /\ task' = [task EXCEPT !.cursor = NewTask.cursor, !.known = Empty]
    /\ ToPlan
    /\ UNCHANGED <<owner, copies, announcements, acked, budget>>

ReadFails ==
    /\ round.phase = "catalog"
    /\ Fails
    /\ ToPlan
    /\ UNCHANGED <<owner, copies, announcements, task, acked>>

\* The newest revision known of b: the owner's, or the announced one.
Newest(b, toAck) ==
    Max({toAck[b]} \cup (IF b \in DOMAIN task.known THEN {task.known[b]} ELSE {}))

HeldCovers(b, lsm) == b \in DOMAIN task.held /\ task.held[b] >= lsm

\* Take the announcements, and plan a step for each waiting branch that may
\* lag or has to be acknowledged.
Plan ==
    /\ round.phase = "plan"
    /\ LET toAck == [b \in Branches |-> Max({task.toAck[b], round.taken[b]})]
           waiting == task.waiting \cup {b \in Branches : round.taken[b] > 0}
           planned == {b \in waiting :
                         /\ MayInstall(life, b)
                         /\ Newest(b, toAck) > 0
                         /\ toAck[b] > 0 \/ ~HeldCovers(b, Newest(b, toAck))}
           steps == {[branch |-> b, target |-> Newest(b, toAck),
                      acknowledge |-> toAck[b] > 0] : b \in planned}
       IN  round' = [NewRound EXCEPT !.phase = IF steps = {} THEN "idle" ELSE "steps",
                                     !.steps = steps]
    /\ task' = [task EXCEPT !.waiting = {}, !.toAck = NoRevisions]
    /\ UNCHANGED <<owner, copies, announcements, acked, budget>>

\* The round after step s.
Settled(s) ==
    LET rest == round.steps \ {s}
    IN  round' = [round EXCEPT !.steps = rest,
                               !.phase = IF rest = {} THEN "idle" ELSE "steps"]

\* What this node holds of b: what the task knows, else its copy in memory,
\* else its storage.
Held(b) == IF b \in DOMAIN task.held THEN task.held[b]
           ELSE IF b \in DOMAIN passive THEN passive[b]
           ELSE stored[b]

Holding(b, lsm) == task' = [task EXCEPT !.held = (b :> lsm) @@ task.held]

Acknowledge(b, lsm) == acked' = [acked EXCEPT ![b] = Max({@, lsm})]

\* This node already holds what the step is for.
StepCovered(s) ==
    /\ s \in round.steps
    /\ Held(s.branch) >= s.target
    /\ Settled(s)
    /\ Holding(s.branch, Held(s.branch))
    /\ IF s.acknowledge THEN Acknowledge(s.branch, Held(s.branch))
       ELSE UNCHANGED acked
    /\ UNCHANGED <<owner, copies, announcements, budget>>

\* The owner is asked for a newer checkpoint.  Its newest revision is stored,
\* unless the storage already has it, held and acknowledged; an owner with
\* nothing newer leaves what is held.
StepFetches(s) ==
    LET b == s.branch
        newest == published[b]
    IN  /\ s \in round.steps
        /\ Held(b) < s.target
        /\ Settled(s)
        /\ IF newest <= Held(b)
           THEN Holding(b, Held(b)) /\ UNCHANGED <<stored, passive, acked>>
           ELSE /\ stored' = [stored EXCEPT ![b] = Max({@, newest})]
                /\ passive' = IF stored[b] < newest
                              THEN (b :> newest) @@ passive ELSE passive
                /\ Holding(b, stored'[b])
                /\ Acknowledge(b, stored'[b])
        /\ UNCHANGED <<owner, life, storedLife, announcements, budget>>

\* The step fails before it stored anything: the branch is looked at again in
\* the next round.
StepFails(s) ==
    LET b == s.branch
    IN  /\ s \in round.steps
        /\ Fails
        /\ Settled(s)
        /\ task' = [task EXCEPT
                       !.held = (b :> Held(b)) @@ @,
                       !.waiting = @ \cup {b},
                       !.toAck[b] = IF s.acknowledge THEN s.target ELSE 0]
        /\ UNCHANGED <<owner, copies, announcements, acked>>

\* The replica's process restarts and its task starts from the storage.
ReplicaRestarts ==
    /\ budget.restarts > 0
    /\ budget' = [budget EXCEPT !.restarts = @ - 1]
    /\ life' = storedLife
    /\ passive' = Empty
    /\ announcements' = NoRevisions
    /\ task' = NewTask
    /\ round' = NewRound
    /\ UNCHANGED <<owner, storedLife, stored, acked>>
-----------------------------------------------------------------------------
Init ==
    /\ catalog = NewCatalog(1)
    /\ states = {}
    /\ published = NoRevisions
    /\ unrecorded = {}
    /\ ownerLife = [lsm |-> 0, named |-> {}]
    /\ life = ownerLife
    /\ storedLife = ownerLife
    /\ passive = Empty
    /\ stored = NoRevisions
    /\ announcements = NoRevisions
    /\ task = NewTask
    /\ round = NewRound
    /\ acked = NoRevisions
    /\ budget = [announced |-> MaxAnnounced, failures |-> MaxFailures,
                 restarts |-> MaxRestarts]

OwnerNext ==
    \/ \E b \in Branches : Register(b) \/ Publish(b) \/ Record(b)
    \/ \E s \in states : DropState(s)
    \/ PublishLifecycle \/ OwnerStops \/ OwnerStarts

Step == \E s \in round.steps : StepCovered(s) \/ StepFetches(s)

RoundNext ==
    \/ StartRound \/ LifecycleCurrent \/ InstallLifecycle
    \/ ReadPage \/ ReadAbsent \/ Plan \/ Step

FaultNext ==
    \/ LifecycleFails \/ ReadFails \/ ReplicaRestarts
    \/ \E s \in round.steps : StepFails(s)

Next ==
    \/ OwnerNext
    \/ \E b \in Branches : Announced(b)
    \/ RoundNext
    \/ FaultNext

Spec == Init /\ [][Next]_vars

-----------------------------------------------------------------------------
TypeOK ==
    /\ catalog.epoch \in 1..MaxEpochs /\ catalog.open \in BOOLEAN
    /\ catalog.sequence \in 0..MaxSequence
    /\ catalog.discarded \in 0..catalog.sequence
    /\ catalog.entries \in Partial([registration : 1..catalog.registrations,
                                    lsm : 1..MaxRevision,
                                    changed : 1..catalog.sequence])
    /\ catalog.removals \in SUBSET [at : 1..catalog.sequence, branch : Branches]
    /\ published \in [Branches -> Revisions]
    /\ unrecorded \subseteq DOMAIN catalog.entries
    /\ ownerLife.lsm \in 0..MaxLifecycles /\ life.lsm \in 0..MaxLifecycles
    /\ passive \in Partial(Revisions)
    /\ stored \in [Branches -> Revisions]
    /\ task.known \in Partial(1..MaxRevision)
    /\ task.held \in Partial(Revisions)
    /\ round.phase \in {"idle", "lifecycle", "catalog", "plan", "steps"}

(***************************************************************************)
(* What the cursor covers is known exactly.  The replica knows the newest  *)
(* recorded revision of every branch whose last change is not after its    *)
(* cursor, and every branch it knows that the owner no longer has is in a  *)
(* removal that the cursor has yet to pass, or the cursor will be answered *)
(* with the complete catalog.  (branch_checkpoint_catalog.rs changes_after,*)
(* replica_branch_checkpoints.rs apply)                                    *)
(***************************************************************************)
CursorCovers ==
    (catalog.open /\ task.cursor.epoch = catalog.epoch) =>
        /\ \A b \in DOMAIN catalog.entries :
              catalog.entries[b].changed <= task.cursor.sequence =>
                  /\ b \in DOMAIN task.known
                  /\ task.known[b] = catalog.entries[b].lsm
        /\ \A b \in DOMAIN task.known \ DOMAIN catalog.entries :
              \/ task.cursor.sequence < catalog.discarded
              \/ \E r \in catalog.removals :
                    r.branch = b /\ r.at > task.cursor.sequence

(***************************************************************************)
(* Between rounds no branch is forgotten: a branch the replica knows and   *)
(* may install is on its storage at the revision it knows, or waits for    *)
(* the next round.  (replica_branch_checkpoints.rs plan, settle,           *)
(* follow_lifecycle)                                                       *)
(***************************************************************************)
NoneForgotten ==
    round.phase = "idle" =>
        \A b \in DOMAIN task.known :
            (MayInstall(life, b) /\ b \notin task.waiting) =>
                stored[b] >= task.known[b]

(***************************************************************************)
(* The replica keeps no copy in memory of a branch that its lifecycle says *)
(* was evicted; and that lifecycle, what it believes it holds and what it  *)
(* promised its owner are on its storage.  (state_replication.rs           *)
(* install_replica_branch_checkpoint, install_replica_branch_lru_snapshot) *)
(***************************************************************************)
CopiesBacked ==
    /\ \A b \in DOMAIN passive : MayInstall(life, b) /\ passive[b] <= stored[b]
    /\ \A b \in DOMAIN task.held : task.held[b] <= stored[b]
    /\ \A b \in Branches : acked[b] <= stored[b]
    /\ life = storedLife
=============================================================================
