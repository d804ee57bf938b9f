------------------------ MODULE CorrelationRegistry ------------------------
(***************************************************************************)
(* The registry of remote correlations of one node                         *)
(* (src/src/runtime/remote_ack_owner.rs).  A routing position holds one    *)
(* correlation at a time: the acknowledgement records of a delivery, or    *)
(* the admission it waits for.  Each side hands its positions out for the  *)
(* first time in order, and again from its own free queue.  Every access   *)
(* to a position is under that position's mutex and is one step here;      *)
(* the free queues and the claim counters are accessed outside of it, in   *)
(* steps of their own.                                                     *)
(***************************************************************************)
EXTENDS Naturals, Sequences

CONSTANTS Deliveries,       \* deliveries the node forwards
          Rows,             \* rows of a delivery that carry an acknowledgement
          Capacity,         \* positions of each side
          MaxGeneration,    \* the last generation whose route is an identity
          AdmissionSweeps,  \* sweeps a record may wait for its admission
          SilentSweeps      \* sweeps an admitted record may stay unreported

VARIABLES
    slot,       \* position -> the CorrelationSlot under its mutex
    free,       \* side -> the queue of returned positions
    queueOpen,  \* side -> whether the queue still accepts returns
    claims,     \* side -> positions handed out for the first time
    sealed,     \* side -> CLAIMS_CLOSED
    returning,  \* positions emptied and not yet pushed back
    stopping    \* how far shutdown got

registryVars == <<slot, free, queueOpen, claims, sealed, returning, stopping>>

Sides == {"records", "admission"}
Positions == Sides \X (1 .. Capacity)
Side(p) == p[1]

\* A position that holds nothing, and what a row may hold.
Vacant == [kind |-> "none"]
NoRow == [phase |-> "none", sweeps |-> 0]
Waiting == [phase |-> "awaiting", sweeps |-> 0]
Admitted == [phase |-> "admitted", sweeps |-> 0]
Phases == {"none", "awaiting", "admitted"}

RowStates == [phase : Phases, sweeps : 0 .. (AdmissionSweeps + SilentSweeps)]
Entries ==
    {Vacant}
    \cup [kind : {"records"}, delivery : Deliveries, rows : [Rows -> RowStates]]
    \cup [kind : {"admission"}, delivery : Deliveries]
SlotStates == [open : BOOLEAN, generation : 0 .. MaxGeneration, entry : Entries]

\* How far shutdown got: it seals the deliveries, then the admissions, closes
\* the queues in that order, and then ends the positions claimed by the seals.
StopPhases == {"running", "sealedRecords", "sealed", "closedRecords", "ending", "ended"}

\* RemoteDispatchRegistry::build: every position open, empty and unclaimed.
RegistryBuilt ==
    [slot |-> [p \in Positions |-> [open |-> TRUE, generation |-> 0, entry |-> Vacant]],
     free |-> [s \in Sides |-> << >>],
     queueOpen |-> [s \in Sides |-> TRUE],
     claims |-> [s \in Sides |-> 0],
     sealed |-> [s \in Sides |-> FALSE]]

RegistryInit ==
    /\ slot = RegistryBuilt.slot
    /\ free = RegistryBuilt.free
    /\ queueOpen = RegistryBuilt.queueOpen
    /\ claims = RegistryBuilt.claims
    /\ sealed = RegistryBuilt.sealed
    /\ returning = {}
    /\ stopping = [phase |-> "running", left |-> {}]

(***************************************************************************)
(* Claiming a position: the free queue first, a fresh one when it is       *)
(* empty.  A closed queue still hands out what it holds.                   *)
(***************************************************************************)
\* ConcurrentQueue::pop: the oldest of the returned positions.
Pop(s, p) ==
    /\ free[s] # << >>
    /\ p = Head(free[s])
    /\ free' = [free EXCEPT ![s] = Tail(@)]
    /\ UNCHANGED <<slot, queueOpen, claims, sealed, returning, stopping>>

\* claim_fresh: the next position, by a compare-and-set on the counter that
\* the seal's bit makes fail.
ClaimFresh(s, p) ==
    /\ free[s] = << >> /\ queueOpen[s]
    /\ ~sealed[s] /\ claims[s] < Capacity
    /\ p = <<s, claims[s] + 1>>
    /\ claims' = [claims EXCEPT ![s] = @ + 1]
    /\ UNCHANGED <<slot, free, queueOpen, sealed, returning, stopping>>

\* A side hands its positions out in order, so its count tells which it did.
HandedOut(p) == p[2] <= claims[Side(p)]

Claim(s, p) == Pop(s, p) \/ ClaimFresh(s, p)

(***************************************************************************)
(* The rest of register, under the position's mutex.  `Next` is the        *)
(* generation of the route it hands out; a position without another one    *)
(* is sealed for good.                                                     *)
(***************************************************************************)
NextGeneration(p) == slot[p].generation + 1
Occupiable(p) == slot[p].open /\ NextGeneration(p) <= MaxGeneration

Occupy(p, entry) ==
    /\ Occupiable(p)
    /\ slot' = [slot EXCEPT ![p] = [@ EXCEPT !.generation = NextGeneration(p), !.entry = entry]]
    /\ UNCHANGED <<free, queueOpen, claims, sealed, returning, stopping>>

OccupyRefused(p) ==
    /\ ~Occupiable(p)
    /\ slot' = [slot EXCEPT ![p] = [@ EXCEPT !.open = FALSE, !.entry = Vacant]]
    /\ UNCHANGED <<free, queueOpen, claims, sealed, returning, stopping>>

(***************************************************************************)
(* Reading and emptying a position.  An identity is a position and the     *)
(* generation it was handed out with; record_mut and take find nothing     *)
(* under an identity whose generation is over.                             *)
(***************************************************************************)
Found(id) ==
    /\ slot[id.position].open /\ slot[id.position].entry # Vacant
    /\ slot[id.position].generation = id.generation

EntryRow(id, r) ==
    IF Found(id) /\ slot[id.position].entry.kind = "records"
    THEN slot[id.position].entry.rows[r] ELSE NoRow
RowFound(id, r) == EntryRow(id, r) # NoRow

\* The records of a delivery, and the slot p with other rows in its records.
Records(d, rows) == [kind |-> "records", delivery |-> d, rows |-> rows]
WithRows(p, rows) == [slot[p] EXCEPT !.entry = Records(slot[p].entry.delivery, rows)]
WithRow(p, r, row) == WithRows(p, [slot[p].entry.rows EXCEPT ![r] = row])

\* records.remaining after the row is gone is zero.
LastRow(p, r) == \A other \in Rows \ {r} : slot[p].entry.rows[other] = NoRow

Emptied(p) == [slot[p] EXCEPT !.entry = Vacant]

\* take, for a record: the position is emptied with its last row and pushed
\* back after its mutex is released.
TakeRow(id, r) ==
    LET p == id.position IN
    /\ RowFound(id, r)
    /\ slot' = [slot EXCEPT ![p] = IF LastRow(p, r) THEN Emptied(p) ELSE WithRow(p, r, NoRow)]
    /\ returning' = IF LastRow(p, r) THEN returning \cup {p} ELSE returning
    /\ UNCHANGED <<free, queueOpen, claims, sealed, stopping>>

\* take, for an admission.
TakeAdmission(id) ==
    LET p == id.position IN
    /\ Found(id) /\ slot[p].entry.kind = "admission"
    /\ slot' = [slot EXCEPT ![p] = Emptied(p)]
    /\ returning' = returning \cup {p}
    /\ UNCHANGED <<free, queueOpen, claims, sealed, stopping>>

\* recycle: a closed queue refuses the position, which is over with it.
Recycle(p) ==
    /\ p \in returning
    /\ returning' = returning \ {p}
    /\ free' = IF queueOpen[Side(p)]
               THEN [free EXCEPT ![Side(p)] = Append(@, p)] ELSE free
    /\ UNCHANGED <<slot, queueOpen, claims, sealed, stopping>>

\* admit_acks, for the rows of the delivery that are still there.
AdmitRows(id) ==
    LET p == id.position
        admitted == [r \in Rows |-> IF EntryRow(id, r).phase = "awaiting"
                                    THEN Admitted ELSE EntryRow(id, r)]
    IN
    /\ slot' = IF Found(id) /\ slot[p].entry.kind = "records"
               THEN [slot EXCEPT ![p] = WithRows(p, admitted)]
               ELSE slot
    /\ UNCHANGED <<free, queueOpen, claims, sealed, returning, stopping>>

\* PendingRemoteAck::report, from apply_progress: the silence of an admitted
\* record starts again, the wait for an admission goes on.
ReportRow(id, r) ==
    /\ slot' = IF EntryRow(id, r).phase = "admitted"
               THEN [slot EXCEPT ![id.position] = WithRow(id.position, r, Admitted)]
               ELSE slot
    /\ UNCHANGED <<free, queueOpen, claims, sealed, returning, stopping>>

(***************************************************************************)
(* fail_silent_acks, at one claimed position.                              *)
(***************************************************************************)
SweepBound(row) == IF row.phase = "awaiting" THEN AdmissionSweeps ELSE SilentSweeps
\* PendingRemoteAck::swept
Expires(row) == row # NoRow /\ row.sweeps + 1 > SweepBound(row)
Swept(row) ==
    IF row = NoRow \/ Expires(row) THEN NoRow ELSE [row EXCEPT !.sweeps = @ + 1]

ExpiredRows(p) == {r \in Rows : Expires(slot[p].entry.rows[r])}

SweepRecords(p) ==
    LET swept == [r \in Rows |-> Swept(slot[p].entry.rows[r])]
        reclaim == \A r \in Rows : swept[r] = NoRow
    IN  /\ HandedOut(p)
        /\ slot[p].open /\ slot[p].entry.kind = "records"
        /\ slot' = [slot EXCEPT ![p] = IF reclaim THEN Emptied(p) ELSE WithRows(p, swept)]
        /\ returning' = IF reclaim THEN returning \cup {p} ELSE returning
        /\ UNCHANGED <<free, queueOpen, claims, sealed, stopping>>

\* An admission whose delivery no longer listens is emptied by the sweep, and
\* by a report for it.
ReclaimAdmission(p) ==
    /\ HandedOut(p)
    /\ slot[p].open /\ slot[p].entry.kind = "admission"
    /\ slot' = [slot EXCEPT ![p] = Emptied(p)]
    /\ returning' = returning \cup {p}
    /\ UNCHANGED <<free, queueOpen, claims, sealed, stopping>>

(***************************************************************************)
(* shutdown                                                                *)
(***************************************************************************)
\* claimed_positions, of the counts the seals returned.
ClaimedPositions == {p \in Positions : HandedOut(p)}

SealClaims ==
    \/ /\ stopping.phase = "running"
       /\ sealed' = [sealed EXCEPT !["records"] = TRUE]
       /\ stopping' = [stopping EXCEPT !.phase = "sealedRecords"]
       /\ UNCHANGED <<slot, free, queueOpen, claims, returning>>
    \/ /\ stopping.phase = "sealedRecords"
       /\ sealed' = [sealed EXCEPT !["admission"] = TRUE]
       /\ stopping' = [phase |-> "sealed", left |-> ClaimedPositions]
       /\ UNCHANGED <<slot, free, queueOpen, claims, returning>>

CloseQueues ==
    \/ /\ stopping.phase = "sealed"
       /\ queueOpen' = [queueOpen EXCEPT !["records"] = FALSE]
       /\ stopping' = [stopping EXCEPT !.phase = "closedRecords"]
       /\ UNCHANGED <<slot, free, claims, sealed, returning>>
    \/ /\ stopping.phase = "closedRecords"
       /\ queueOpen' = [queueOpen EXCEPT !["admission"] = FALSE]
       /\ stopping' = [stopping EXCEPT !.phase = "ending"]
       /\ UNCHANGED <<slot, free, claims, sealed, returning>>

\* One turn of the scan, in any order of the positions.
EndPosition(p) ==
    /\ stopping.phase = "ending" /\ p \in stopping.left
    /\ slot' = [slot EXCEPT ![p] = [@ EXCEPT !.open = FALSE, !.entry = Vacant]]
    /\ stopping' = [stopping EXCEPT !.left = @ \ {p}]
    /\ UNCHANGED <<free, queueOpen, claims, sealed, returning>>

EndShutdown ==
    /\ stopping.phase = "ending" /\ stopping.left = {}
    /\ stopping' = [stopping EXCEPT !.phase = "ended"]
    /\ UNCHANGED <<slot, free, queueOpen, claims, sealed, returning>>

\* A new process of the node builds the registry again.
RegistryRestart ==
    /\ slot' = RegistryBuilt.slot
    /\ free' = RegistryBuilt.free
    /\ queueOpen' = RegistryBuilt.queueOpen
    /\ claims' = RegistryBuilt.claims
    /\ sealed' = RegistryBuilt.sealed
    /\ returning' = {}
    /\ stopping' = [phase |-> "running", left |-> {}]

RegistryTypeOK ==
    /\ slot \in [Positions -> SlotStates]
    /\ free \in [Sides -> Seq(Positions)]
    /\ queueOpen \in [Sides -> BOOLEAN]
    /\ claims \in [Sides -> 0 .. Capacity]
    /\ sealed \in [Sides -> BOOLEAN]
    /\ returning \subseteq Positions
    /\ stopping.phase \in StopPhases /\ stopping.left \subseteq Positions
=============================================================================
