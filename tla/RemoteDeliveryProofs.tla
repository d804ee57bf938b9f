------------------------ MODULE RemoteDeliveryProofs ------------------------
(***************************************************************************)
(* Proofs about deliveries to another node.  RemoteDelivery, for any       *)
(* deliveries, rows and positions, any number of reuses and restarts, and  *)
(* any loss, delay or repetition of answers: an answer settles the row it  *)
(* was sent for, a position has one holder at a time, and a shutdown       *)
(* leaves no row behind.  RelayAdmission, for any channels and capacities: *)
(* deliveries are admitted once and in order, and senders are told what    *)
(* became of them.                                                         *)
(***************************************************************************)
EXTENDS RemoteDelivery, RelayAdmission, SequenceTheorems, FiniteSetTheorems,
        WellFoundedInduction, TLAPS

\* The capacities and sweeps are numbers, the sender runs once at least, and zero, the
\* number an admission is answered under, is no row.
Limits ==
    /\ Capacity \in Nat /\ MaxGeneration \in Nat /\ AdmissionSweeps \in Nat /\ SilentSweeps \in Nat
    /\ MaxRuns \in Nat \ {0} /\ 0 \notin Rows

\* What an identity, a task, a watch and an answer are made of.
Identities == [position : Positions \cup {NoId.position}, generation : Nat]
Tasks == [pc : TaskSteps, run : Nat, records : Identities, admission : Identities,
          heard : {"Pending", "Admitted", "Rejected"}]
Watches == [state : {"none", "watching", "ended"}, root : {"open", "ack", "noack"},
            told : BOOLEAN, held : BOOLEAN, registrar : {"undiscovered", "present", "missing"}]
Answers == [run : Nat, delivery : Deliveries, row : Rows \cup {0}, id : Identities,
            outcome : {"Ack", "NoAck"}]

\* The steps at which a task works on its records in the run that stored them.
Stored == Registering \cup {"dropping"}

\* The types, with the whole of each record.
Shape ==
    /\ RegistryTypeOK /\ run \in 1 .. MaxRuns
    /\ stopping \in [phase : StopPhases, left : SUBSET Positions]
    /\ task \in [Deliveries -> Tasks]
    /\ settled \in [Deliveries -> [Rows -> Outcomes]]
    /\ remote \in [Deliveries ->
         {"unseen", "received", "admitted", "unwanted", "cancelled", "rejected"}]
    /\ watch \in [Deliveries -> [Rows -> Watches]]
    /\ answers \subseteq Answers

\* How far a task got tells which identities it has.
Staged(t) ==
    /\ t.run <= run
    /\ t.records.generation # 0 => t.records.position \in Positions
    /\ t.admission.generation # 0 => t.admission.position \in Positions /\ t.records.generation # 0
    /\ t.pc \in {"idle", "storing"} => t.records.generation = 0
    /\ t.pc \in {"idle", "storing", "stored", "asking"} => t.admission.generation = 0
    /\ t.pc = "storing" => t.records.position \in Positions /\ Side(t.records.position) = "records"
    /\ t.pc = "asking" => t.admission.position \in Positions /\ Side(t.admission.position) = "admission"
    /\ t.pc \in Stored \cup {"storing"} => t.run = run
    /\ t.pc \in Stored => t.records.generation # 0
    /\ t.pc \in {"sending", "awaiting"} => t.admission.generation # 0

\* The receiver has only what the sender sent it, and no root before it decided.
Received(d) ==
    /\ remote[d] \in {"received", "admitted", "unwanted", "rejected"}
         => task[d].admission.generation # 0
    /\ remote[d] \in {"unseen", "received", "unwanted"}
         => \A r \in Rows : watch[d][r].state = "none" /\ watch[d][r].root = "open"
    /\ \A r \in Rows : /\ watch[d][r].state = "watching" => task[d].admission.generation # 0
                       /\ watch[d][r].held => watch[d][r].root # "open"

\* An identity is met only by the delivery it was handed to.
Owns(d, id, kind) ==
    id.generation # 0 =>
      /\ slot[id.position].generation >= id.generation
      /\ slot[id.position].generation = id.generation /\ slot[id.position].entry # Vacant
           => slot[id.position].entry.kind = kind /\ slot[id.position].entry.delivery = d
Own(d) == task[d].run = run => /\ Owns(d, task[d].records, "records")
                               /\ Owns(d, task[d].admission, "admission")

\* An answer says what the root of its row came to, and names it as its delivery does.
Truthful(a) ==
    LET d == a.delivery IN
    /\ task[d].admission.generation # 0 /\ a.run = task[d].run
    /\ a.row = 0 => a.id = task[d].admission /\ (a.outcome = "Ack" => remote[d] = "admitted")
    /\ a.row \in Rows => /\ a.id = task[d].records
                         /\ watch[d][a.row].root = IF a.outcome = "Ack" THEN "ack" ELSE "noack"

\* A row that is not settled is kept.
Kept(d) ==
    \A r \in Rows :
      task[d].pc \notin {"idle", "storing"} /\ settled[d][r] = "pending"
        => task[d].run = run /\ task[d].records.generation # 0 /\ RowFound(task[d].records, r)

\* SettledByOwn and Registrars, over the deliveries and rows there are.
OwnSettled ==
    \A d \in Deliveries :
      /\ \A r \in Rows :
           /\ settled[d][r] = "acked" => watch[d][r].root = "ack"
           /\ settled[d][r] = "failed" => watch[d][r].root = "noack"
           /\ settled[d][r] = "cleared" => task[d].pc \in {"clearing", "dropping", "undelivered", "lost"}
           /\ settled[d][r] = "dropped" => task[d].pc \in {"dropping", "undelivered", "lost"}
      /\ task[d].heard = "Admitted" => remote[d] = "admitted"
Claimants(p) ==
    {d \in Deliveries : \/ task[d].pc = "storing" /\ task[d].records.position = p
                        \/ task[d].pc = "asking" /\ task[d].admission.position = p}

\* What holds a position excludes the rest.
Free(p) == \E i \in DOMAIN free[Side(p)] : free[Side(p)][i] = p
Excludes(p) ==
    /\ \A i, j \in DOMAIN free[Side(p)] : free[Side(p)][i] = p /\ free[Side(p)][j] = p => i = j
    /\ \A d, e \in Claimants(p) : d = e
    /\ Free(p) => Claimants(p) = {} /\ p \notin returning /\ slot[p].entry = Vacant
    /\ p \in returning => Claimants(p) = {} /\ slot[p].entry = Vacant
    /\ Claimants(p) # {} => slot[p].entry = Vacant
    /\ Free(p) \/ Claimants(p) # {} \/ p \in returning \/ slot[p].entry # Vacant => HandedOut(p)
    /\ HandedOut(p) /\ slot[p].open /\ stopping.phase = "running" =>
         Free(p) \/ Claimants(p) # {} \/ p \in returning \/ slot[p].entry # Vacant

\* A queue holds positions of its own side.
Sorted == \A s \in Sides : \A i \in DOMAIN free[s] : Side(free[s][i]) = s

\* What shutdown has shut stays shut.
Shut ==
    /\ stopping.phase = "running" => \A s \in Sides : queueOpen[s]
    /\ stopping.phase # "running" => sealed["records"]
    /\ stopping.phase \notin {"running", "sealedRecords"} =>
         /\ sealed["admission"]
         /\ \A p \in Positions :
              HandedOut(p) => p \in stopping.left \/ (~slot[p].open /\ slot[p].entry = Vacant)
    /\ stopping.phase = "ended" => stopping.left = {}

\* The inductive invariant.
RemoteInv ==
    /\ Shape /\ Sorted /\ Shut /\ OwnSettled
    /\ \A d \in Deliveries : Staged(task[d]) /\ Received(d) /\ Own(d) /\ Kept(d)
    /\ \A a \in answers : Truthful(a)
    /\ \A p \in Positions : Excludes(p)

\* What an entry is, by its kind.
LEMMA EntryKinds ==
    ASSUME NEW e \in Entries
    PROVE  /\ e.kind = "none" <=> e = Vacant
           /\ e # Vacant => e.delivery \in Deliveries /\ e.kind \in {"records", "admission"}
           /\ e.kind = "records" => e.rows \in [Rows -> RowStates]
<1>1. CASE e = Vacant
  BY <1>1 DEF Vacant
<1>2. CASE e \in [kind : {"records"}, delivery : Deliveries, rows : [Rows -> RowStates]]
  BY <1>2 DEF Vacant
<1>3. CASE e \in [kind : {"admission"}, delivery : Deliveries]
  BY <1>3 DEF Vacant
<1> QED
  BY <1>1, <1>2, <1>3 DEF Entries

\* The records of a delivery are an entry.
LEMMA RecordsEntry ==
    ASSUME NEW d \in Deliveries, NEW rows \in [Rows -> RowStates]
    PROVE  /\ Records(d, rows) \in Entries /\ Records(d, rows) # Vacant
           /\ Records(d, rows).kind = "records" /\ Records(d, rows).delivery = d
           /\ Records(d, rows).rows = rows
<1>1. Records(d, rows) \in [kind : {"records"}, delivery : Deliveries, rows : [Rows -> RowStates]]
  BY DEF Records
<1>2. /\ Records(d, rows).kind = "records" /\ Records(d, rows).delivery = d
      /\ Records(d, rows).rows = rows
  BY DEF Records
<1>3. Vacant.kind = "none"
  BY DEF Vacant
<1> QED
  BY <1>1, <1>2, <1>3 DEF Entries

\* The parts of a slot.
LEMMA SlotFields ==
    ASSUME RegistryTypeOK, NEW p \in Positions
    PROVE  /\ slot[p] \in SlotStates /\ slot[p].open \in BOOLEAN
           /\ slot[p].generation \in 0 .. MaxGeneration /\ slot[p].generation \in Nat
           /\ slot[p].entry \in Entries
<1>1. slot[p] \in SlotStates
  BY DEF RegistryTypeOK
<1> QED
  BY <1>1 DEF SlotStates

\* A slot with another entry.
LEMMA WithEntry ==
    ASSUME RegistryTypeOK, NEW p \in Positions, NEW e \in Entries
    PROVE  /\ [slot[p] EXCEPT !.entry = e] \in SlotStates
           /\ [slot[p] EXCEPT !.entry = e].open = slot[p].open
           /\ [slot[p] EXCEPT !.entry = e].generation = slot[p].generation
           /\ [slot[p] EXCEPT !.entry = e].entry = e
<1>1. slot[p] \in SlotStates
  BY SlotFields
<1> QED
  BY <1>1 DEF SlotStates

\* The entry at p is thinned out: some of its rows are gone, or all of it, which then is
\* about to be returned.
Thinned(p) ==
    /\ slot' \in [Positions -> SlotStates]
    /\ \A q \in Positions \ {p} : slot'[q] = slot[q]
    /\ slot'[p].open = slot[p].open /\ slot'[p].generation = slot[p].generation
    /\ slot[p].entry # Vacant
    /\ \/ slot'[p].entry = Vacant /\ returning' = returning \cup {p}
       \/ /\ slot'[p].entry # Vacant /\ returning' = returning
          /\ slot'[p].entry.kind = slot[p].entry.kind
          /\ slot'[p].entry.delivery = slot[p].entry.delivery
    /\ UNCHANGED <<free, queueOpen, claims, sealed, stopping>>

\* The rows that are left of the records at p.
RowsAt(p) == {r \in Rows : slot[p].entry.kind = "records" /\ slot[p].entry.rows[r] # NoRow}

\* So is the entry of a position that holds nothing.
LEMMA VacantEntry == Vacant \in Entries /\ Vacant.kind = "none"
BY DEF Vacant, Entries

\* Taking a row thins out its position, and no other row is gone.
LEMMA TakeRowThins ==
    ASSUME Limits, RegistryTypeOK, NEW id, id.position \in Positions, NEW r \in Rows, TakeRow(id, r)
    PROVE  /\ Thinned(id.position) /\ Found(id) /\ slot[id.position].entry.kind = "records"
           /\ slot[id.position].entry.delivery \in Deliveries
           /\ \A s \in Rows \ {r} : s \in RowsAt(id.position) => s \in RowsAt(id.position)'
<1> DEFINE p == id.position
<1>1. /\ slot[p] \in SlotStates /\ slot[p].entry \in Entries /\ Found(id)
      /\ slot[p].entry.kind = "records" /\ slot[p].entry # Vacant
  BY SlotFields DEF TakeRow, RowFound, EntryRow, Found
<1>2. slot[p].entry.delivery \in Deliveries /\ slot[p].entry.rows \in [Rows -> RowStates]
  BY <1>1, EntryKinds
<1>3. CASE LastRow(p, r)
  <2>1. PICK h : h = [slot[p] EXCEPT !.entry = Vacant]
    OBVIOUS
  <2>2. slot' = [slot EXCEPT ![p] = h] /\ returning' = returning \cup {p}
        /\ UNCHANGED <<free, queueOpen, claims, sealed, stopping>>
    BY <1>3, <2>1 DEF TakeRow, Emptied
  <2>3. /\ h \in SlotStates /\ h.open = slot[p].open /\ h.generation = slot[p].generation
        /\ h.entry = Vacant
    BY <2>1, VacantEntry, WithEntry
  <2>4. slot'[p] = h /\ slot' \in [Positions -> SlotStates]
        /\ \A q \in Positions \ {p} : slot'[q] = slot[q]
    BY <2>2, <2>3 DEF RegistryTypeOK
  <2>5. Thinned(p)
    BY <1>1, <2>2, <2>3, <2>4 DEF Thinned
  <2>6. \A s \in Rows \ {r} : s \notin RowsAt(p)
    BY <1>3 DEF LastRow, RowsAt
  <2> QED
    BY <1>1, <1>2, <2>5, <2>6
<1>4. CASE ~LastRow(p, r)
  <2>1. PICK rows : rows = [slot[p].entry.rows EXCEPT ![r] = NoRow]
    OBVIOUS
  <2>2. NoRow \in RowStates
    BY DEF NoRow, RowStates, Phases, Limits
  <2>3. rows \in [Rows -> RowStates] /\ \A s \in Rows \ {r} : rows[s] = slot[p].entry.rows[s]
    BY <1>2, <2>1, <2>2
  <2>4. PICK e : e = Records(slot[p].entry.delivery, rows)
    OBVIOUS
  <2>5. e \in Entries /\ e # Vacant /\ e.kind = "records" /\ e.delivery = slot[p].entry.delivery
        /\ e.rows = rows
    BY <1>2, <2>3, <2>4, RecordsEntry
  <2>6. PICK h : h = [slot[p] EXCEPT !.entry = e]
    OBVIOUS
  <2>7. slot' = [slot EXCEPT ![p] = h] /\ returning' = returning
        /\ UNCHANGED <<free, queueOpen, claims, sealed, stopping>>
    BY <1>4, <2>1, <2>4, <2>6 DEF TakeRow, WithRow, WithRows
  <2>8. /\ h \in SlotStates /\ h.open = slot[p].open /\ h.generation = slot[p].generation
        /\ h.entry = e
    BY <2>5, <2>6, WithEntry
  <2>9. slot'[p] = h /\ slot' \in [Positions -> SlotStates]
        /\ \A q \in Positions \ {p} : slot'[q] = slot[q]
    BY <2>7, <2>8 DEF RegistryTypeOK
  <2>10. Thinned(p)
    BY <1>1, <2>5, <2>7, <2>8, <2>9 DEF Thinned
  <2>11. \A s \in Rows \ {r} : s \in RowsAt(p) => s \in RowsAt(p)'
    BY <2>3, <2>5, <2>8, <2>9 DEF RowsAt, NoRow
  <2> QED
    BY <1>1, <1>2, <2>10, <2>11
<1> QED
  BY <1>3, <1>4

\* An entry of another kind than records is taken whole.
LEMMA EmptiesAdmission ==
    ASSUME RegistryTypeOK, NEW p \in Positions, slot[p].entry.kind = "admission",
           slot' = [slot EXCEPT ![p] = Emptied(p)], returning' = returning \cup {p},
           UNCHANGED <<free, queueOpen, claims, sealed, stopping>>
    PROVE  Thinned(p) /\ slot[p].entry.delivery \in Deliveries /\ RowsAt(p) = {}
<1>1. slot[p] \in SlotStates /\ slot[p].entry \in Entries
  BY SlotFields
<1>2. slot[p].entry # Vacant /\ slot[p].entry.delivery \in Deliveries
  BY <1>1, EntryKinds
<1>3. PICK h : h = [slot[p] EXCEPT !.entry = Vacant]
  OBVIOUS
<1>4. /\ h \in SlotStates /\ h.open = slot[p].open /\ h.generation = slot[p].generation
      /\ h.entry = Vacant
  BY <1>3, VacantEntry, WithEntry
<1>5. slot' = [slot EXCEPT ![p] = h]
  BY <1>3 DEF Emptied
<1>6. slot'[p] = h /\ slot' \in [Positions -> SlotStates]
      /\ \A q \in Positions \ {p} : slot'[q] = slot[q]
  BY <1>4, <1>5 DEF RegistryTypeOK
<1> QED
  BY <1>2, <1>4, <1>6 DEF Thinned, RowsAt

\* Records whose rows are replaced by others.
LEMMA ReplacesRows ==
    ASSUME RegistryTypeOK, NEW p \in Positions, slot[p].entry.kind = "records",
           NEW rows \in [Rows -> RowStates], slot' = [slot EXCEPT ![p] = WithRows(p, rows)],
           UNCHANGED <<returning, free, queueOpen, claims, sealed, stopping>>
    PROVE  /\ Thinned(p) /\ slot[p].entry.delivery \in Deliveries
           /\ RowsAt(p)' = {r \in Rows : rows[r] # NoRow}
<1>1. slot[p] \in SlotStates /\ slot[p].entry \in Entries
  BY SlotFields
<1>2. slot[p].entry # Vacant /\ slot[p].entry.delivery \in Deliveries
  BY <1>1, EntryKinds
<1>3. PICK e : e = Records(slot[p].entry.delivery, rows)
  OBVIOUS
<1>4. e \in Entries /\ e # Vacant /\ e.kind = "records" /\ e.delivery = slot[p].entry.delivery
      /\ e.rows = rows
  BY <1>2, <1>3, RecordsEntry
<1>5. PICK h : h = [slot[p] EXCEPT !.entry = e]
  OBVIOUS
<1>6. slot' = [slot EXCEPT ![p] = h]
  BY <1>3, <1>5 DEF WithRows
<1>7. /\ h \in SlotStates /\ h.open = slot[p].open /\ h.generation = slot[p].generation
      /\ h.entry = e
  BY <1>4, <1>5, WithEntry
<1>8. slot'[p] = h /\ slot' \in [Positions -> SlotStates]
      /\ \A q \in Positions \ {p} : slot'[q] = slot[q]
  BY <1>6, <1>7 DEF RegistryTypeOK
<1> QED
  BY <1>2, <1>4, <1>7, <1>8 DEF Thinned, RowsAt, NoRow

\* What a sweep leaves of a row.
LEMMA SweptRow ==
    ASSUME Limits, NEW row \in RowStates
    PROVE  Swept(row) \in RowStates /\ (Swept(row) = NoRow <=> row = NoRow \/ Expires(row))
<1>1. row = [phase |-> row.phase, sweeps |-> row.sweeps] /\ row.sweeps \in Nat /\ row.phase \in Phases
  BY DEF RowStates, Limits
<1>2. NoRow \in RowStates
  BY DEF NoRow, RowStates, Phases, Limits
<1>3. CASE row = NoRow \/ Expires(row)
  BY <1>2, <1>3 DEF Swept
<1>4. CASE ~(row = NoRow \/ Expires(row))
  <2>1. PICK k : k = row.sweeps + 1 /\ k \in Nat
    BY <1>1
  <2>2. PICK s : s = [row EXCEPT !.sweeps = k]
    OBVIOUS
  <2>3. Swept(row) = s
    BY <1>4, <2>1, <2>2 DEF Swept
  <2>4. k <= AdmissionSweeps + SilentSweeps
    BY <1>1, <1>4, <2>1 DEF Expires, SweepBound, Limits
  <2>5. s \in RowStates /\ s.sweeps = k
    BY <2>1, <2>2, <2>4 DEF RowStates, Limits
  <2>6. s # NoRow
    <3>1. NoRow.sweeps = 0
      BY DEF NoRow
    <3>2. k # 0
      BY <1>1, <2>1
    <3> QED
      BY <2>5, <3>1, <3>2
  <2> QED
    BY <1>4, <2>3, <2>5, <2>6
<1> QED
  BY <1>3, <1>4

\* A sweep thins out its position, and only the expired rows are gone.
LEMMA SweepThins ==
    ASSUME Limits, RegistryTypeOK, NEW p \in Positions, SweepRecords(p)
    PROVE  /\ Thinned(p) /\ slot[p].entry.kind = "records" /\ slot[p].entry.delivery \in Deliveries
           /\ ExpiredRows(p) \subseteq Rows
           /\ \A s \in Rows \ ExpiredRows(p) : s \in RowsAt(p) => s \in RowsAt(p)'
<1>1. slot[p] \in SlotStates /\ slot[p].entry \in Entries /\ slot[p].entry.kind = "records"
  BY SlotFields DEF SweepRecords
<1>2. /\ slot[p].entry # Vacant /\ slot[p].entry.delivery \in Deliveries
      /\ slot[p].entry.rows \in [Rows -> RowStates]
  BY <1>1, EntryKinds
<1>3. PICK swept : swept = [r \in Rows |-> Swept(slot[p].entry.rows[r])]
  OBVIOUS
<1>4. /\ swept \in [Rows -> RowStates]
      /\ \A r \in Rows : swept[r] = NoRow <=> slot[p].entry.rows[r] = NoRow \/ r \in ExpiredRows(p)
  <2>1. \A r \in Rows : slot[p].entry.rows[r] \in RowStates
    BY <1>2
  <2> QED
    BY <1>3, <2>1, SweptRow DEF ExpiredRows
<1>5. CASE \A r \in Rows : swept[r] = NoRow
  <2>1. slot' = [slot EXCEPT ![p] = Emptied(p)] /\ returning' = returning \cup {p}
        /\ UNCHANGED <<free, queueOpen, claims, sealed, stopping>>
    BY <1>3, <1>5 DEF SweepRecords
  <2>2. PICK h : h = [slot[p] EXCEPT !.entry = Vacant]
    OBVIOUS
  <2>3. /\ h \in SlotStates /\ h.open = slot[p].open /\ h.generation = slot[p].generation
        /\ h.entry = Vacant
    BY <2>2, VacantEntry, WithEntry
  <2>4. slot' = [slot EXCEPT ![p] = h]
    BY <2>1, <2>2 DEF Emptied
  <2>5. slot'[p] = h /\ slot' \in [Positions -> SlotStates]
        /\ \A q \in Positions \ {p} : slot'[q] = slot[q]
    BY <2>3, <2>4 DEF RegistryTypeOK
  <2>6. Thinned(p)
    BY <1>2, <2>1, <2>3, <2>5 DEF Thinned
  <2> QED
    BY <1>1, <1>2, <1>4, <1>5, <2>6 DEF RowsAt, ExpiredRows
<1>6. CASE ~\A r \in Rows : swept[r] = NoRow
  <2>1. slot' = [slot EXCEPT ![p] = WithRows(p, swept)]
        /\ UNCHANGED <<returning, free, queueOpen, claims, sealed, stopping>>
    BY <1>3, <1>6 DEF SweepRecords
  <2>2. Thinned(p) /\ RowsAt(p)' = {r \in Rows : swept[r] # NoRow}
    BY <1>1, <1>4, <2>1, ReplacesRows
  <2> QED
    BY <1>1, <1>2, <1>4, <2>2 DEF RowsAt, ExpiredRows
<1> QED
  BY <1>5, <1>6

\* What is left of the steps of a task once its records are stored: it gives up, is admitted,
\* clears its rows and drops them, and never returns.
Follows(was, is) ==
    \/ is = was
    \/ was = "sending" /\ is = "awaiting"
    \/ /\ was \in {"stored", "sending", "awaiting", "resolving", "granted"}
       /\ is \in {"resolving", "granted", "clearing", "dropping", "delivered"}
    \/ was = "clearing" /\ is = "dropping"
    \/ was = "dropping" /\ is = "undelivered"

\* The task of d goes by the same identities.
SameIds(d) ==
    /\ task'[d].run = task[d].run /\ task'[d].records = task[d].records
    /\ task'[d].admission = task[d].admission

\* The task of d moves on, and hears of an admission only when there is one.
Advances(d) ==
    /\ task'[d] \in Tasks /\ SameIds(d) /\ Follows(task[d].pc, task'[d].pc)
    /\ task'[d].heard = "Admitted" => remote'[d] = "admitted"

\* A task that moves on keeps the identities of its step.
LEMMA AdvancesStaged ==
    ASSUME NEW d \in Deliveries, Advances(d), Staged(task[d]), run' = run
    PROVE  Staged(task[d])'
BY DEF Advances, SameIds, Follows, Staged, Stored, Registering

\* Tasks that move on neither begin nor end a registration.
LEMMA SameRegistrars ==
    ASSUME \A d \in Deliveries : Advances(d), NEW p
    PROVE  Claimants(p)' = Claimants(p)
<1>1. ASSUME NEW d \in Deliveries
      PROVE  /\ task'[d].pc = "storing" <=> task[d].pc = "storing"
             /\ task'[d].pc = "asking" <=> task[d].pc = "asking"
             /\ task'[d].records = task[d].records /\ task'[d].admission = task[d].admission
  BY DEF Advances, SameIds, Follows
<1> QED
  BY <1>1 DEF Claimants

\* The registry is thinned out at a position, or stays as it is.
Thins == UNCHANGED registryVars \/ \E p \in Positions : Thinned(p)

\* A registry that is thinned out is one.
LEMMA ThinsType ==
    ASSUME Shape, Thins
    PROVE  RegistryTypeOK' /\ stopping' \in [phase : StopPhases, left : SUBSET Positions]
<1>1. CASE UNCHANGED registryVars
  BY <1>1 DEF Shape, RegistryTypeOK, registryVars
<1>2. ASSUME NEW p \in Positions, Thinned(p)
      PROVE  RegistryTypeOK' /\ stopping' \in [phase : StopPhases, left : SUBSET Positions]
  <2>1. returning' \subseteq Positions
    BY <1>2 DEF Thinned, Shape, RegistryTypeOK
  <2> QED
    BY <1>2, <2>1 DEF Thinned, Shape, RegistryTypeOK
<1> QED
  BY <1>1, <1>2 DEF Thins

\* Thinning out leaves identities to the deliveries they were handed to.
LEMMA ThinsOwn ==
    ASSUME Shape, Thins, run' = run, NEW d \in Deliveries, SameIds(d), Staged(task[d]), Own(d)
    PROVE  Own(d)'
<1> SUFFICES ASSUME task'[d].run = run'
             PROVE  Owns(d, task[d].records, "records")' /\ Owns(d, task[d].admission, "admission")'
  BY DEF Own
<1>1. Owns(d, task[d].records, "records") /\ Owns(d, task[d].admission, "admission")
  BY DEF Own, SameIds
<1>2. ASSUME NEW id \in Identities, NEW kind, Owns(d, id, kind), id.generation # 0 => id.position \in Positions
      PROVE  id.generation # 0 =>
               /\ slot'[id.position].generation >= id.generation
               /\ slot'[id.position].generation = id.generation /\ slot'[id.position].entry # Vacant
                  => slot'[id.position].entry.kind = kind /\ slot'[id.position].entry.delivery = d
  <2>1. CASE UNCHANGED registryVars
    BY <1>2, <2>1 DEF registryVars, Owns
  <2>2. ASSUME NEW p \in Positions, Thinned(p)
        PROVE  id.generation # 0 =>
               /\ slot'[id.position].generation >= id.generation
               /\ slot'[id.position].generation = id.generation /\ slot'[id.position].entry # Vacant
                  => slot'[id.position].entry.kind = kind /\ slot'[id.position].entry.delivery = d
    <3>1. CASE id.position = p
      BY <1>2, <2>2, <3>1 DEF Thinned, Owns
    <3>2. CASE id.position # p
      BY <1>2, <2>2, <3>2 DEF Thinned, Owns
    <3> QED
      BY <3>1, <3>2
  <2> QED
    BY <2>1, <2>2 DEF Thins
<1>3. /\ task[d].records \in Identities /\ task[d].admission \in Identities
      /\ task[d].records.generation # 0 => task[d].records.position \in Positions
      /\ task[d].admission.generation # 0 => task[d].admission.position \in Positions
  BY DEF Shape, Tasks, Staged
<1>4. task'[d].records = task[d].records /\ task'[d].admission = task[d].admission
  BY DEF SameIds
<1>5. Owns(d, task[d].records, "records")'
  BY <1>1, <1>2, <1>3, <1>4 DEF Owns
<1>6. Owns(d, task[d].admission, "admission")'
  BY <1>1, <1>2, <1>3, <1>4 DEF Owns
<1> QED
  BY <1>5, <1>6

\* What is emptied is on its way back, so it still has one holder.
LEMMA ThinsExcludes ==
    ASSUME Shape, Thins, \A p \in Positions : Excludes(p),
           \A p \in Positions : Claimants(p)' = Claimants(p)
    PROVE  \A p \in Positions : Excludes(p)'
<1>1. CASE UNCHANGED registryVars
  BY <1>1 DEF registryVars, Excludes, Free, HandedOut, Side
<1>2. ASSUME NEW p \in Positions, Thinned(p), NEW q \in Positions
      PROVE  Excludes(q)'
  <2>1. UNCHANGED <<free, claims, stopping>> /\ Excludes(q) /\ Claimants(q)' = Claimants(q)
    BY <1>2 DEF Thinned
  <2>2. (Free(q)' <=> Free(q)) /\ (HandedOut(q)' <=> HandedOut(q)) /\ UNCHANGED free[Side(q)]
    BY <2>1 DEF Free, HandedOut, Side
  <2>3. CASE q = p
    <3>1. /\ slot[q].entry # Vacant /\ slot'[q].open = slot[q].open
          /\ \/ slot'[q].entry = Vacant /\ q \in returning'
             \/ slot'[q].entry # Vacant /\ returning' = returning
      BY <1>2, <2>3 DEF Thinned
    <3>2. ~Free(q) /\ Claimants(q) = {} /\ q \notin returning /\ HandedOut(q)
      BY <2>1, <3>1 DEF Excludes
    <3> QED
      BY <2>1, <2>2, <3>1, <3>2 DEF Excludes
  <2>4. CASE q # p
    <3>1. slot'[q] = slot[q] /\ (q \in returning' <=> q \in returning)
      BY <1>2, <2>4 DEF Thinned
    <3> QED
      BY <2>1, <2>2, <3>1 DEF Excludes
  <2> QED
    BY <2>3, <2>4
<1> QED
  BY <1>1, <1>2 DEF Thins

\* Thinning out does not open what is shut.
LEMMA ThinsShut == ASSUME Shape, Thins, Shut, Sorted PROVE Shut' /\ Sorted'
<1>1. CASE UNCHANGED registryVars
  BY <1>1 DEF registryVars, Shut, Sorted, HandedOut, Side
<1>2. ASSUME NEW p \in Positions, Thinned(p)
      PROVE  Shut' /\ Sorted'
  <2>1. UNCHANGED <<free, queueOpen, claims, sealed, stopping>>
    BY <1>2 DEF Thinned
  <2>2. \A q \in Positions : HandedOut(q)' <=> HandedOut(q)
    BY <2>1 DEF HandedOut, Side
  <2>3. \A q \in Positions : ~slot[q].open /\ slot[q].entry = Vacant => ~slot'[q].open /\ slot'[q].entry = Vacant
    BY <1>2 DEF Thinned
  <2> QED
    BY <2>1, <2>2, <2>3 DEF Shut, Sorted, Side
<1> QED
  BY <1>1, <1>2 DEF Thins

\* The rows of d that are not settled are still there.
KeepsRows(d) ==
    \A r \in Rows :
      settled'[d][r] = "pending" =>
        /\ settled[d][r] = "pending"
        /\ task[d].run = run /\ task[d].records.generation # 0 /\ RowFound(task[d].records, r)
             => RowFound(task[d].records, r)'

\* A row that is not settled stays kept while its task moves on.
LEMMA AdvancesKept ==
    ASSUME NEW d \in Deliveries, Advances(d), Kept(d), KeepsRows(d), run' = run
    PROVE  Kept(d)'
<1>1. task'[d].pc \notin {"idle", "storing"} => task[d].pc \notin {"idle", "storing"}
  BY DEF Advances, Follows
<1>2. task'[d].run = task[d].run /\ task'[d].records = task[d].records
  BY DEF Advances, SameIds
<1> QED
  BY <1>1, <1>2 DEF Kept, KeepsRows

\* What the receiver decided stays decided.
Decided ==
    \A d \in Deliveries :
      /\ remote[d] = "admitted" => remote'[d] = "admitted"
      /\ \A r \in Rows : watch[d][r].root # "open" => watch'[d][r].root = watch[d][r].root

\* An answer stays true.
LEMMA StillTruthful ==
    ASSUME Shape, Limits, Decided, NEW a \in Answers, Truthful(a),
           SameIds(a.delivery) \/ task[a.delivery].admission.generation = 0
    PROVE  Truthful(a)'
<1>1. a.delivery \in Deliveries /\ SameIds(a.delivery)
  BY DEF Answers, Truthful
<1>2. a.row \in Rows => watch'[a.delivery][a.row].root = watch[a.delivery][a.row].root
  BY <1>1 DEF Decided, Truthful
<1> QED
  BY <1>1, <1>2 DEF Truthful, SameIds, Decided

\* What a step may settle.
Settles ==
    \A d \in Deliveries, r \in Rows :
      settled'[d][r] # settled[d][r] =>
        /\ settled'[d][r] = "acked" => watch'[d][r].root = "ack"
        /\ settled'[d][r] = "failed" => watch'[d][r].root = "noack"
        /\ settled'[d][r] = "cleared" => task'[d].pc = "clearing"
        /\ settled'[d][r] = "dropped" => task'[d].pc = "dropping"

\* What was settled before stays settled by its own.
LEMMA StillSettled ==
    ASSUME Shape, OwnSettled, Decided, Settles, NEW d \in Deliveries,
           \/ Follows(task[d].pc, task'[d].pc)
           \/ task'[d].pc \in {"undelivered", "lost"}
           \/ task[d].pc \in {"idle", "storing", "stored", "asking"},
           task'[d].heard = "Admitted" => remote'[d] = "admitted"
    PROVE  /\ \A r \in Rows :
                /\ settled'[d][r] = "acked" => watch'[d][r].root = "ack"
                /\ settled'[d][r] = "failed" => watch'[d][r].root = "noack"
                /\ settled'[d][r] = "cleared" => task'[d].pc \in {"clearing", "dropping", "undelivered", "lost"}
                /\ settled'[d][r] = "dropped" => task'[d].pc \in {"dropping", "undelivered", "lost"}
           /\ task'[d].heard = "Admitted" => remote'[d] = "admitted"
<1>1. ASSUME NEW r \in Rows
      PROVE  /\ settled'[d][r] = "acked" => watch'[d][r].root = "ack"
             /\ settled'[d][r] = "failed" => watch'[d][r].root = "noack"
             /\ settled'[d][r] = "cleared" => task'[d].pc \in {"clearing", "dropping", "undelivered", "lost"}
             /\ settled'[d][r] = "dropped" => task'[d].pc \in {"dropping", "undelivered", "lost"}
  <2>1. CASE settled'[d][r] # settled[d][r]
    BY <2>1 DEF Settles
  <2>2. CASE settled'[d][r] = settled[d][r]
    <3>1. /\ settled[d][r] = "acked" => watch[d][r].root = "ack"
          /\ settled[d][r] = "failed" => watch[d][r].root = "noack"
          /\ settled[d][r] = "cleared" => task[d].pc \in {"clearing", "dropping", "undelivered", "lost"}
          /\ settled[d][r] = "dropped" => task[d].pc \in {"dropping", "undelivered", "lost"}
      BY DEF OwnSettled
    <3> QED
      BY <2>2, <3>1 DEF Decided, Follows
  <2> QED
    BY <2>1, <2>2
<1> QED
  BY <1>1

\* A step that only thins the registry out and lets tasks advance.
LEMMA Thinning ==
    ASSUME Limits, RemoteInv, Thins, run' = run, \A d \in Deliveries : Advances(d) /\ KeepsRows(d),
           Settles, Decided, \A d \in Deliveries : Received(d)',
           \A a \in answers' : a \in answers \/ Truthful(a)',
           task' \in [Deliveries -> Tasks], settled' \in [Deliveries -> [Rows -> Outcomes]],
           remote' \in [Deliveries ->
             {"unseen", "received", "admitted", "unwanted", "cancelled", "rejected"}],
           watch' \in [Deliveries -> [Rows -> Watches]], answers' \subseteq Answers
    PROVE  RemoteInv'
<1>1. Shape /\ Sorted /\ Shut /\ OwnSettled
  BY DEF RemoteInv
<1>2. Shape'
  BY <1>1, ThinsType DEF Shape
<1>3. Sorted' /\ Shut'
  BY <1>1, ThinsShut
<1>4. \A p \in Positions : Excludes(p)'
  BY <1>1, ThinsExcludes, SameRegistrars DEF RemoteInv
<1>5. \A d \in Deliveries : Staged(task[d])' /\ Received(d)' /\ Own(d)' /\ Kept(d)'
  <2> SUFFICES ASSUME NEW d \in Deliveries PROVE Staged(task[d])' /\ Own(d)' /\ Kept(d)'
    OBVIOUS
  <2>1. Staged(task[d]) /\ Own(d) /\ Kept(d) /\ Advances(d) /\ SameIds(d)
    BY DEF RemoteInv, Advances
  <2> QED
    BY <1>1, <2>1, AdvancesStaged, ThinsOwn, AdvancesKept
<1>6. OwnSettled'
  <2>1. \A d \in Deliveries :
           Follows(task[d].pc, task'[d].pc) /\ (task'[d].heard = "Admitted" => remote'[d] = "admitted")
    BY DEF Advances
  <2> QED
    BY <1>1, <2>1, StillSettled DEF OwnSettled
<1>7. ASSUME NEW a \in answers' PROVE Truthful(a)'
  <2>1. CASE a \in answers
    <3>1. a \in Answers /\ Truthful(a) /\ a.delivery \in Deliveries
      BY <1>1, <2>1 DEF Shape, RemoteInv, Answers
    <3>2. SameIds(a.delivery)
      BY <3>1 DEF Advances
    <3> QED
      BY <1>1, <3>1, <3>2, StillTruthful
  <2> QED
    BY <2>1
<1> QED
  BY <1>2, <1>3, <1>4, <1>5, <1>6, <1>7 DEF RemoteInv

\* Nothing is lost of rows that are not touched.
LEMMA SameRows == ASSUME UNCHANGED <<slot, task, settled>>, NEW d PROVE KeepsRows(d)
BY DEF KeepsRows, RowFound, EntryRow, Found

\* A step of the receiver.
LEMMA ReceiverStep ==
    ASSUME Limits, RemoteInv, UNCHANGED <<registryVars, run, task, settled>>,
           Decided, \A d \in Deliveries : Received(d)',
           \A a \in answers' : a \in answers \/ Truthful(a)',
           remote' \in [Deliveries ->
             {"unseen", "received", "admitted", "unwanted", "cancelled", "rejected"}],
           watch' \in [Deliveries -> [Rows -> Watches]], answers' \subseteq Answers
    PROVE  RemoteInv'
<1>1. Shape /\ OwnSettled
  BY DEF RemoteInv
<1>2. Thins /\ Settles
  BY DEF Thins, Settles
<1>3. \A d \in Deliveries : Advances(d)
  BY <1>1 DEF Shape, Advances, SameIds, Follows, OwnSettled, Decided
<1>4. \A d \in Deliveries : KeepsRows(d)
  BY SameRows DEF registryVars
<1>5. task' \in [Deliveries -> Tasks] /\ settled' \in [Deliveries -> [Rows -> Outcomes]]
  BY <1>1 DEF Shape
<1> QED
  BY <1>2, <1>3, <1>4, <1>5, Thinning

\* A task takes a step of its own.
LEMMA TaskStepped ==
    ASSUME Shape, NEW d \in Deliveries, NEW pc \in TaskSteps, task' = Step(d, pc)
    PROVE  /\ task' \in [Deliveries -> Tasks] /\ \A e \in Deliveries : SameIds(e)
           /\ \A e \in Deliveries : task'[e].heard = task[e].heard
           /\ task'[d].pc = pc /\ \A e \in Deliveries \ {d} : task'[e] = task[e]
<1>1. task[d] \in Tasks
  BY DEF Shape
<1>2. PICK t : t = [task[d] EXCEPT !.pc = pc]
  OBVIOUS
<1>3. /\ t \in Tasks /\ t.pc = pc /\ t.heard = task[d].heard /\ t.run = task[d].run
      /\ t.records = task[d].records /\ t.admission = task[d].admission
  BY <1>1, <1>2 DEF Tasks
<1>4. task' = [task EXCEPT ![d] = t]
  BY <1>2 DEF Step
<1>5. task'[d] = t /\ \A e \in Deliveries \ {d} : task'[e] = task[e]
  BY <1>4 DEF Shape
<1> QED
  BY <1>3, <1>4, <1>5 DEF Shape, SameIds

\* A request to cancel takes back no decision of the receiver.
LEMMA CancellingKeeps ==
    ASSUME RemoteInv, NEW d \in Deliveries, remote' \in {remote, Cancelling(d)}, UNCHANGED watch,
           \A e \in Deliveries : SameIds(e)
    PROVE  /\ remote' \in [Deliveries ->
                {"unseen", "received", "admitted", "unwanted", "cancelled", "rejected"}]
           /\ Decided /\ \A e \in Deliveries : Received(e)'
<1>1. Shape /\ \A e \in Deliveries : Received(e)
  BY DEF RemoteInv
<1>2. \A e \in Deliveries :
        \/ remote'[e] = remote[e]
        \/ remote[e] = "unseen" /\ remote'[e] = "cancelled"
        \/ remote[e] = "received" /\ remote'[e] = "unwanted"
  BY <1>1 DEF Shape, Cancelling
<1>3. remote' \in [Deliveries ->
                {"unseen", "received", "admitted", "unwanted", "cancelled", "rejected"}]
  BY <1>1, <1>2 DEF Shape, Cancelling
<1>4. Decided
  BY <1>2 DEF Decided
<1>5. \A e \in Deliveries : Received(e)'
  BY <1>1, <1>2 DEF Received, SameIds
<1> QED
  BY <1>3, <1>4, <1>5

\* A step of a task that leaves the registry alone.
LEMMA TaskStep ==
    ASSUME Limits, RemoteInv, NEW d \in Deliveries, NEW pc \in TaskSteps, task' = Step(d, pc),
           Follows(task[d].pc, pc), remote' \in {remote, Cancelling(d)},
           UNCHANGED <<registryVars, run, settled, watch, answers>>
    PROVE  RemoteInv'
<1>1. Shape /\ OwnSettled
  BY DEF RemoteInv
<1>2. /\ task' \in [Deliveries -> Tasks] /\ \A e \in Deliveries : SameIds(e)
      /\ \A e \in Deliveries : task'[e].heard = task[e].heard
      /\ task'[d].pc = pc /\ \A e \in Deliveries \ {d} : task'[e] = task[e]
  BY <1>1, TaskStepped
<1>3. /\ remote' \in [Deliveries ->
                {"unseen", "received", "admitted", "unwanted", "cancelled", "rejected"}]
      /\ Decided /\ \A e \in Deliveries : Received(e)'
  BY <1>2, CancellingKeeps
<1>4. \A e \in Deliveries : Advances(e)
  <2>1. \A e \in Deliveries : task[e].heard = "Admitted" => remote'[e] = "admitted"
    BY <1>1, <1>3 DEF OwnSettled, Decided
  <2>2. \A e \in Deliveries : Follows(task[e].pc, task'[e].pc)
    BY <1>2 DEF Follows
  <2> QED
    BY <1>2, <2>1, <2>2 DEF Advances
<1>5. Thins /\ Settles
  BY DEF Thins, Settles
<1>6. \A e \in Deliveries : KeepsRows(e)
  BY <1>2 DEF KeepsRows, RowFound, EntryRow, Found, registryVars, SameIds
<1>7. /\ settled' \in [Deliveries -> [Rows -> Outcomes]] /\ answers' \subseteq Answers
      /\ watch' \in [Deliveries -> [Rows -> Watches]]
  BY <1>1 DEF Shape
<1> QED
  BY <1>2, <1>3, <1>4, <1>5, <1>6, <1>7, Thinning

\* The steps of a task between its awaits.
LEMMA TaskActions ==
    ASSUME Limits, RemoteInv, NEW d \in Deliveries,
           \/ AbandonStored(d) \/ SendPayload(d) \/ HearAdmission(d) \/ ResolveFailed(d)
           \/ ResolveIndeterminate(d) \/ ClearedAll(d) \/ DroppedAll(d) \/ DropDelivery(d)
    PROVE  RemoteInv'
<1>1. PICK pc \in TaskSteps : task' = Step(d, pc) /\ Follows(task[d].pc, pc)
  BY DEF AbandonStored, SendPayload, HearAdmission, ResolveFailed, ResolveIndeterminate,
       ClearedAll, DroppedAll, DropDelivery, Follows, TaskSteps, Registering
<1>2. /\ UNCHANGED <<registryVars, run, settled, watch, answers>>
      /\ remote' \in {remote, Cancelling(d)}
  BY DEF AbandonStored, SendPayload, HearAdmission, ResolveFailed, ResolveIndeterminate,
       ClearedAll, DroppedAll, DropDelivery
<1> QED
  BY <1>1, <1>2, TaskStep

\* A row is found where its records are.
LEMMA FoundAt ==
    ASSUME NEW id, NEW r \in Rows
    PROVE  /\ RowFound(id, r) => Found(id) /\ r \in RowsAt(id.position)
           /\ Found(id) /\ r \in RowsAt(id.position) => RowFound(id, r)
BY DEF RowFound, EntryRow, RowsAt

\* The rows of other deliveries are not touched, since each finds only its own.
LEMMA ThinnedRows ==
    ASSUME RemoteInv, NEW p \in Positions, Thinned(p), NEW d \in Deliveries, SameIds(d),
           \A r \in Rows :
             settled'[d][r] = "pending" =>
               /\ settled[d][r] = "pending"
               /\ d = slot[p].entry.delivery /\ r \in RowsAt(p) => r \in RowsAt(p)'
    PROVE  KeepsRows(d)
<1> SUFFICES ASSUME NEW r \in Rows, settled'[d][r] = "pending", task[d].run = run,
                    task[d].records.generation # 0, RowFound(task[d].records, r)
             PROVE  RowFound(task[d].records, r)'
  BY DEF KeepsRows
<1> DEFINE id == task[d].records
<1>1. Shape /\ Staged(task[d]) /\ Own(d)
  BY DEF RemoteInv
<1>2. Found(id) /\ r \in RowsAt(id.position)
  BY FoundAt
<1>3. id.generation # 0 /\ id.position \in Positions
  BY <1>1 DEF Staged
<1>4. slot[id.position].generation = id.generation /\ slot[id.position].entry # Vacant
      /\ slot[id.position].open
  BY <1>2 DEF Found
<1>5. slot[id.position].entry.delivery = d
  BY <1>1, <1>3, <1>4 DEF Own, Owns
<1>6. task'[d].records = task[d].records
  BY DEF SameIds
<1>7. CASE id.position = p
  <2>1. r \in RowsAt(p)'
    BY <1>2, <1>5, <1>7
  <2>2. slot'[p].open /\ slot'[p].generation = id.generation
    BY <1>4, <1>7 DEF Thinned
  <2>3. slot'[p].entry # Vacant
    BY <2>1 DEF RowsAt, Vacant
  <2> QED
    BY <1>6, <1>7, <2>1, <2>2, <2>3 DEF RowFound, EntryRow, RowsAt, Found
<1>8. CASE id.position # p
  <2>1. slot'[id.position] = slot[id.position]
    BY <1>3, <1>8 DEF Thinned
  <2> QED
    BY <1>6, <2>1 DEF RowFound, EntryRow, Found
<1> QED
  BY <1>7, <1>8

\* Nothing of the receiver changes.
LEMMA ReceiverRests ==
    ASSUME RemoteInv, UNCHANGED <<remote, watch, answers>>,
           \A d \in Deliveries : SameIds(d) \/ task[d].admission.generation = 0
    PROVE  /\ Decided /\ \A d \in Deliveries : Received(d)'
           /\ \A a \in answers' : a \in answers
           /\ remote' \in [Deliveries ->
                {"unseen", "received", "admitted", "unwanted", "cancelled", "rejected"}]
           /\ watch' \in [Deliveries -> [Rows -> Watches]] /\ answers' \subseteq Answers
<1>1. Shape /\ \A d \in Deliveries : Received(d)
  BY DEF RemoteInv
<1>2. \A d \in Deliveries : Received(d)'
  BY <1>1 DEF Received, SameIds
<1> QED
  BY <1>1, <1>2 DEF Shape, Decided

\* A row is taken under the identity of its delivery, and settled.
LEMMA TakesRow ==
    ASSUME Limits, RemoteInv, NEW d \in Deliveries, NEW id, id = task[d].records,
           task[d].run = run, id.generation # 0, NEW r \in Rows, TakeRow(id, r),
           NEW result \in Outcomes \ {"pending"}, settled' = Settle(id, r, result),
           result = "acked" => watch[d][r].root = "ack",
           result = "failed" => watch[d][r].root = "noack",
           result = "cleared" => task[d].pc = "clearing",
           result = "dropped" => task[d].pc = "dropping",
           UNCHANGED <<run, task, remote, watch, answers>>
    PROVE  RemoteInv'
<1> DEFINE p == id.position
<1>1. Shape /\ OwnSettled /\ Staged(task[d]) /\ Own(d) /\ RegistryTypeOK
  BY DEF RemoteInv, Shape
<1>2. p \in Positions
  BY <1>1 DEF Staged
<1>3. /\ Thinned(p) /\ Found(id) /\ slot[p].entry.kind = "records"
      /\ slot[p].entry.delivery \in Deliveries
      /\ \A s \in Rows \ {r} : s \in RowsAt(p) => s \in RowsAt(p)'
  BY <1>1, <1>2, TakeRowThins
<1>4. slot[p].entry.delivery = d
  BY <1>1, <1>3 DEF Own, Owns, Found
<1>5. /\ settled' \in [Deliveries -> [Rows -> Outcomes]] /\ settled'[d][r] = result
      /\ \A s \in Rows \ {r} : settled'[d][s] = settled[d][s]
      /\ \A e \in Deliveries \ {d} : settled'[e] = settled[e]
  <2>1. settled' = [settled EXCEPT ![d] = [settled[d] EXCEPT ![r] = result]]
    BY <1>1, <1>4 DEF Settle, Holder, Shape
  <2>2. settled[d] \in [Rows -> Outcomes]
    BY <1>1 DEF Shape
  <2>3. settled'[d] = [settled[d] EXCEPT ![r] = result]
    BY <1>1, <2>1 DEF Shape
  <2> QED
    BY <1>1, <2>1, <2>2, <2>3 DEF Shape
<1>6. \A e \in Deliveries : SameIds(e) /\ Advances(e)
  BY <1>1 DEF Shape, Advances, SameIds, Follows, OwnSettled
<1>7. \A e \in Deliveries : KeepsRows(e)
  <2> SUFFICES ASSUME NEW e \in Deliveries
               PROVE  \A s \in Rows :
                        settled'[e][s] = "pending" =>
                          /\ settled[e][s] = "pending"
                          /\ e = slot[p].entry.delivery /\ s \in RowsAt(p) => s \in RowsAt(p)'
    BY <1>2, <1>3, <1>6, ThinnedRows
  <2> QED
    BY <1>3, <1>4, <1>5
<1>8. Settles
  BY <1>5 DEF Settles
<1>9. /\ Decided /\ \A e \in Deliveries : Received(e)'
      /\ \A a \in answers' : a \in answers
      /\ remote' \in [Deliveries ->
           {"unseen", "received", "admitted", "unwanted", "cancelled", "rejected"}]
      /\ watch' \in [Deliveries -> [Rows -> Watches]] /\ answers' \subseteq Answers
  BY <1>6, ReceiverRests
<1>10. Thins /\ task' \in [Deliveries -> Tasks]
  BY <1>1, <1>2, <1>3 DEF Thins, Shape
<1> QED
  BY <1>5, <1>6, <1>7, <1>8, <1>9, <1>10, Thinning

\* A failed or dropped delivery takes its own rows.
LEMMA ClearRowHolds ==
    ASSUME Limits, RemoteInv, NEW d \in Deliveries, NEW r \in Rows, ClearRow(d, r) \/ DropRow(d, r)
    PROVE  RemoteInv'
<1>1. Staged(task[d])
  BY DEF RemoteInv
<1>2. task[d].run = run /\ task[d].records.generation # 0
  BY <1>1 DEF Staged, Stored, Registering, ClearRow, DropRow
<1>3. CASE ClearRow(d, r)
  BY <1>2, <1>3, TakesRow DEF ClearRow, Outcomes
<1>4. CASE DropRow(d, r)
  BY <1>2, <1>4, TakesRow DEF DropRow, Outcomes
<1> QED
  BY <1>3, <1>4

\* An answer from this run of the sender takes the row it was sent for.
LEMMA ResolveRowHolds ==
    ASSUME Limits, RemoteInv, NEW a \in answers, ResolveRow(a) PROVE RemoteInv'
<1>1. Truthful(a) /\ a \in Answers /\ a.row \in Rows /\ a.run = run
  BY DEF RemoteInv, Shape, ResolveRow, Registered
<1>2. PICK d \in Deliveries : d = a.delivery
  BY <1>1 DEF Answers
<1>3. /\ a.id = task[d].records /\ task[d].run = run /\ task[d].admission.generation # 0
      /\ watch[d][a.row].root = IF a.outcome = "Ack" THEN "ack" ELSE "noack"
  BY <1>1, <1>2 DEF Truthful
<1>4. task[d].records.generation # 0
  BY <1>3 DEF RemoteInv, Staged
<1>5. PICK result : result = IF a.outcome = "Ack" THEN "acked" ELSE "failed"
  OBVIOUS
<1>6. /\ result \in Outcomes \ {"pending"} /\ result \notin {"cleared", "dropped"}
      /\ (result = "acked" => watch[d][a.row].root = "ack")
      /\ (result = "failed" => watch[d][a.row].root = "noack")
  BY <1>3, <1>5 DEF Outcomes
<1>7. /\ TakeRow(a.id, a.row) /\ settled' = Settle(a.id, a.row, result)
      /\ UNCHANGED <<run, task, remote, watch, answers>>
  BY <1>5 DEF ResolveRow
<1>8. PICK id : id = a.id
  OBVIOUS
<1>9. PICK r : r = a.row
  OBVIOUS
<1> QED
  BY <1>1, <1>3, <1>4, <1>6, <1>7, <1>8, <1>9, TakesRow

\* An admission is taken at p, and its delivery may learn of it.
LEMMA TakesAdmission ==
    ASSUME Limits, RemoteInv, NEW p \in Positions, slot[p].entry.kind = "admission",
           slot' = [slot EXCEPT ![p] = Emptied(p)], returning' = returning \cup {p},
           UNCHANGED <<free, queueOpen, claims, sealed, stopping>>,
           task' \in [Deliveries -> Tasks], \A d \in Deliveries : Advances(d),
           UNCHANGED <<run, settled, remote, watch, answers>>
    PROVE  RemoteInv'
<1>1. Shape /\ RegistryTypeOK
  BY DEF RemoteInv, Shape
<1>2. Thinned(p) /\ slot[p].entry.delivery \in Deliveries /\ RowsAt(p) = {}
  BY <1>1, EmptiesAdmission
<1>3. \A d \in Deliveries : SameIds(d)
  BY DEF Advances
<1>4. \A d \in Deliveries : KeepsRows(d)
  BY <1>2, <1>3, ThinnedRows
<1>5. /\ Decided /\ \A e \in Deliveries : Received(e)'
      /\ \A a \in answers' : a \in answers
      /\ remote' \in [Deliveries ->
           {"unseen", "received", "admitted", "unwanted", "cancelled", "rejected"}]
      /\ watch' \in [Deliveries -> [Rows -> Watches]] /\ answers' \subseteq Answers
  BY <1>3, ReceiverRests
<1>6. Thins /\ Settles /\ settled' \in [Deliveries -> [Rows -> Outcomes]]
  BY <1>1, <1>2 DEF Thins, Settles, Shape
<1> QED
  BY <1>4, <1>5, <1>6, Thinning

\* A delivery that gives up waiting takes its own admission.
LEMMA AwaitFailedHolds ==
    ASSUME Limits, RemoteInv, NEW d \in Deliveries, AwaitFailed(d) PROVE RemoteInv'
<1>1. Shape /\ Staged(task[d]) /\ OwnSettled
  BY DEF RemoteInv
<1>2. task[d].pc = "awaiting" /\ task' = Step(d, "resolving") /\ Follows(task[d].pc, "resolving")
      /\ "resolving" \in TaskSteps
  BY DEF AwaitFailed, Follows, TaskSteps, Registering
<1>3. CASE ~Found(task[d].admission)
  BY <1>2, <1>3, TaskStep DEF AwaitFailed
<1>4. CASE Found(task[d].admission)
  <2>1. TakeAdmission(task[d].admission)
    BY <1>4 DEF AwaitFailed
  <2>2. PICK p \in Positions : p = task[d].admission.position
    BY <1>1, <1>2 DEF Staged
  <2>3. /\ slot[p].entry.kind = "admission" /\ slot' = [slot EXCEPT ![p] = Emptied(p)]
        /\ returning' = returning \cup {p} /\ UNCHANGED <<free, queueOpen, claims, sealed, stopping>>
    BY <2>1, <2>2 DEF TakeAdmission
  <2>4. /\ task' \in [Deliveries -> Tasks] /\ \A e \in Deliveries : SameIds(e)
        /\ \A e \in Deliveries : task'[e].heard = task[e].heard
        /\ task'[d].pc = "resolving" /\ \A e \in Deliveries \ {d} : task'[e] = task[e]
    BY <1>1, <1>2, TaskStepped
  <2>5. UNCHANGED <<run, settled, remote, watch, answers>>
    BY DEF AwaitFailed
  <2>6. \A e \in Deliveries : Advances(e)
    BY <1>1, <1>2, <2>4, <2>5 DEF Advances, Follows, OwnSettled
  <2> QED
    BY <2>3, <2>4, <2>5, <2>6, TakesAdmission
<1> QED
  BY <1>3, <1>4

\* An answer to an admission is heard by the delivery that waits for it.
LEMMA ResolveAdmissionHolds ==
    ASSUME Limits, RemoteInv, NEW a \in answers, ResolveAdmission(a) PROVE RemoteInv'
<1>1. Truthful(a) /\ a \in Answers /\ a.row = 0 /\ a.run = run /\ Shape /\ OwnSettled
  BY DEF RemoteInv, Shape, ResolveAdmission, Registered
<1>2. PICK d \in Deliveries : d = a.delivery
  BY <1>1 DEF Answers
<1>3. /\ a.id = task[d].admission /\ task[d].run = run /\ task[d].admission.generation # 0
      /\ (a.outcome = "Ack" => remote[d] = "admitted")
  BY <1>1, <1>2 DEF Truthful
<1>4. PICK p \in Positions : p = a.id.position
  BY <1>3 DEF RemoteInv, Staged
<1>5. /\ slot[p].entry.kind = "admission" /\ slot' = [slot EXCEPT ![p] = Emptied(p)] /\ Found(a.id)
      /\ returning' = returning \cup {p} /\ UNCHANGED <<free, queueOpen, claims, sealed, stopping>>
  BY <1>4 DEF ResolveAdmission, TakeAdmission
<1>6. slot[p].entry.delivery = d
  BY <1>3, <1>4, <1>5 DEF RemoteInv, Own, Owns, Found
<1>7. PICK word : word = IF a.outcome = "Ack" THEN "Admitted" ELSE "Rejected"
  OBVIOUS
<1>8. task' = [task EXCEPT ![d].heard = word] /\ UNCHANGED <<run, settled, remote, watch, answers>>
  BY <1>4, <1>6, <1>7 DEF ResolveAdmission, Holder
<1>9. PICK t : t = [task[d] EXCEPT !.heard = word]
  OBVIOUS
<1>10. /\ t \in Tasks /\ t.pc = task[d].pc /\ t.run = task[d].run /\ t.records = task[d].records
       /\ t.admission = task[d].admission /\ t.heard = word
  BY <1>1, <1>7, <1>9 DEF Shape, Tasks
<1>11. task' = [task EXCEPT ![d] = t]
  BY <1>8, <1>9
<1>12. task' \in [Deliveries -> Tasks] /\ task'[d] = t /\ \A e \in Deliveries \ {d} : task'[e] = task[e]
  BY <1>1, <1>10, <1>11 DEF Shape
<1>13. Advances(d)
  BY <1>3, <1>7, <1>8, <1>10, <1>12 DEF Advances, SameIds, Follows
<1>14. \A e \in Deliveries \ {d} : Advances(e)
  BY <1>1, <1>8, <1>12 DEF Advances, SameIds, Follows, OwnSettled, Shape
<1> QED
  BY <1>5, <1>8, <1>12, <1>13, <1>14, TakesAdmission

\* Only the registry moves, or what it settles.
LEMMA TasksRest ==
    ASSUME RemoteInv, UNCHANGED <<task, remote>>
    PROVE  /\ \A d \in Deliveries : SameIds(d) /\ Advances(d)
           /\ task' \in [Deliveries -> Tasks]
BY DEF RemoteInv, Shape, Advances, SameIds, Follows, OwnSettled

\* A sweep expires rows of the delivery that holds the position.
LEMMA SweepHolds ==
    ASSUME Limits, RemoteInv, NEW p \in Positions, SweepPosition(p) PROVE RemoteInv'
<1>1. Shape /\ RegistryTypeOK
  BY DEF RemoteInv, Shape
<1>2. CASE /\ SweepRecords(p)
           /\ LET d == slot[p].entry.delivery
              IN  settled' = [settled EXCEPT ![d] =
                    [r \in Rows |-> IF r \in ExpiredRows(p) THEN "expired" ELSE settled[d][r]]]
           /\ UNCHANGED <<run, task, remote, watch, answers>>
  <2>1. /\ Thinned(p) /\ slot[p].entry.kind = "records" /\ slot[p].entry.delivery \in Deliveries
        /\ ExpiredRows(p) \subseteq Rows
        /\ \A s \in Rows \ ExpiredRows(p) : s \in RowsAt(p) => s \in RowsAt(p)'
    BY <1>1, <1>2, SweepThins
  <2>2. PICK d \in Deliveries : d = slot[p].entry.delivery
    BY <2>1
  <2>3. PICK f : f = [r \in Rows |-> IF r \in ExpiredRows(p) THEN "expired" ELSE settled[d][r]]
    OBVIOUS
  <2>4. /\ f \in [Rows -> Outcomes]
        /\ \A r \in Rows : f[r] = IF r \in ExpiredRows(p) THEN "expired" ELSE settled[d][r]
    BY <1>1, <2>3 DEF Shape, Outcomes
  <2>5. settled' = [settled EXCEPT ![d] = f]
    BY <1>2, <2>2, <2>3
  <2>6. /\ settled' \in [Deliveries -> [Rows -> Outcomes]] /\ settled'[d] = f
        /\ \A e \in Deliveries \ {d} : settled'[e] = settled[e]
    BY <1>1, <2>4, <2>5 DEF Shape
  <2>7. /\ \A e \in Deliveries : SameIds(e) /\ Advances(e)
        /\ task' \in [Deliveries -> Tasks]
    BY <1>2, TasksRest
  <2>8. \A e \in Deliveries : KeepsRows(e)
    <3> SUFFICES ASSUME NEW e \in Deliveries
                 PROVE  \A s \in Rows :
                          settled'[e][s] = "pending" =>
                            /\ settled[e][s] = "pending"
                            /\ e = slot[p].entry.delivery /\ s \in RowsAt(p) => s \in RowsAt(p)'
      BY <2>1, <2>7, ThinnedRows
    <3> QED
      BY <2>1, <2>2, <2>4, <2>6
  <2>9. Settles
    BY <2>4, <2>6 DEF Settles
  <2>10. /\ Decided /\ \A e \in Deliveries : Received(e)'
         /\ \A a \in answers' : a \in answers
         /\ remote' \in [Deliveries ->
              {"unseen", "received", "admitted", "unwanted", "cancelled", "rejected"}]
         /\ watch' \in [Deliveries -> [Rows -> Watches]] /\ answers' \subseteq Answers
    BY <1>2, <2>7, ReceiverRests
  <2>11. Thins /\ run' = run
    BY <1>2, <2>1 DEF Thins
  <2> QED
    BY <2>6, <2>7, <2>8, <2>9, <2>10, <2>11, Thinning
<1>3. CASE ReclaimAdmission(p) /\ UNCHANGED deliveryVars
  <2>1. /\ \A e \in Deliveries : SameIds(e) /\ Advances(e)
        /\ task' \in [Deliveries -> Tasks]
    BY <1>3, TasksRest DEF deliveryVars
  <2> QED
    BY <1>3, <2>1, TakesAdmission DEF ReclaimAdmission, deliveryVars
<1> QED
  BY <1>2, <1>3 DEF SweepPosition

\* Rows that only change their phase or their count.
LEMMA RefreshesRows ==
    ASSUME Limits, RemoteInv, NEW p \in Positions, slot[p].entry.kind = "records",
           NEW rows \in [Rows -> RowStates], slot' = [slot EXCEPT ![p] = WithRows(p, rows)],
           UNCHANGED <<returning, free, queueOpen, claims, sealed, stopping>>,
           \A r \in RowsAt(p) : rows[r] # NoRow,
           UNCHANGED <<run, settled, remote, answers>>,
           task' \in [Deliveries -> Tasks], \A d \in Deliveries : Advances(d),
           watch' \in [Deliveries -> [Rows -> Watches]],
           Decided, \A d \in Deliveries : Received(d)'
    PROVE  RemoteInv'
<1>1. Shape /\ RegistryTypeOK
  BY DEF RemoteInv, Shape
<1>2. /\ Thinned(p) /\ slot[p].entry.delivery \in Deliveries
      /\ RowsAt(p)' = {r \in Rows : rows[r] # NoRow}
  BY <1>1, ReplacesRows
<1>3. \A d \in Deliveries : SameIds(d)
  BY DEF Advances
<1>4. \A d \in Deliveries : KeepsRows(d)
  BY <1>2, <1>3, ThinnedRows
<1>5. /\ \A a \in answers' : a \in answers
      /\ remote' \in [Deliveries ->
           {"unseen", "received", "admitted", "unwanted", "cancelled", "rejected"}]
      /\ answers' \subseteq Answers
  BY <1>1 DEF Shape
<1>6. Thins /\ Settles /\ settled' \in [Deliveries -> [Rows -> Outcomes]]
  BY <1>1, <1>2 DEF Thins, Settles, Shape
<1> QED
  BY <1>4, <1>5, <1>6, Thinning

\* An admitted row is a row.
LEMMA AdmittedRow == ASSUME Limits PROVE Admitted \in RowStates /\ Admitted # NoRow /\ NoRow \in RowStates
<1>1. Admitted \in RowStates /\ NoRow \in RowStates
  BY DEF Admitted, NoRow, RowStates, Phases, Limits
<1>2. Admitted.phase = "admitted" /\ NoRow.phase = "none"
  BY DEF Admitted, NoRow
<1> QED
  BY <1>1, <1>2

\* An admitted delivery keeps the rows it still has.
LEMMA AdmitDeliveryHolds ==
    ASSUME Limits, RemoteInv, NEW d \in Deliveries, AdmitDelivery(d) PROVE RemoteInv'
<1>1. Shape /\ Staged(task[d]) /\ OwnSettled /\ RegistryTypeOK
  BY DEF RemoteInv, Shape
<1>2. task[d].pc = "granted" /\ task' = Step(d, "delivered") /\ Follows(task[d].pc, "delivered")
      /\ "delivered" \in TaskSteps
  BY DEF AdmitDelivery, Follows, TaskSteps, Registering
<1>3. UNCHANGED <<run, settled, remote, watch, answers>>
      /\ UNCHANGED <<free, queueOpen, claims, sealed, returning, stopping>>
  BY DEF AdmitDelivery, AdmitRows
<1>4. PICK id : id = task[d].records
  OBVIOUS
<1>5. CASE Found(id) /\ slot[id.position].entry.kind = "records"
  <2>1. PICK p \in Positions : p = id.position
    BY <1>1, <1>2, <1>4 DEF Staged, Stored, Registering
  <2>2. PICK rows : rows = [r \in Rows |-> IF EntryRow(id, r).phase = "awaiting"
                                          THEN Admitted ELSE EntryRow(id, r)]
    OBVIOUS
  <2>3. slot[p].entry \in Entries
    BY <1>1, SlotFields
  <2>4. slot[p].entry.rows \in [Rows -> RowStates]
    BY <1>5, <2>1, <2>3, EntryKinds
  <2>5. \A r \in Rows : EntryRow(id, r) = slot[p].entry.rows[r]
    BY <1>5, <2>1 DEF EntryRow
  <2>6. /\ rows \in [Rows -> RowStates]
        /\ \A r \in Rows : rows[r] = Admitted \/ rows[r] = slot[p].entry.rows[r]
    BY <2>2, <2>4, <2>5, AdmittedRow
  <2>7. slot' = [slot EXCEPT ![p] = WithRows(p, rows)]
    BY <1>4, <1>5, <2>1, <2>2 DEF AdmitDelivery, AdmitRows
  <2>8. \A r \in RowsAt(p) : rows[r] # NoRow
    BY <2>6, AdmittedRow DEF RowsAt
  <2>9. /\ task' \in [Deliveries -> Tasks] /\ \A e \in Deliveries : SameIds(e)
        /\ \A e \in Deliveries : task'[e].heard = task[e].heard
        /\ task'[d].pc = "delivered" /\ \A e \in Deliveries \ {d} : task'[e] = task[e]
    BY <1>1, <1>2, TaskStepped
  <2>10. \A e \in Deliveries : Advances(e)
    BY <1>1, <1>2, <1>3, <2>9 DEF Advances, Follows, OwnSettled
  <2>11. /\ Decided /\ \A e \in Deliveries : Received(e)'
         /\ watch' \in [Deliveries -> [Rows -> Watches]]
    BY <1>3, <2>9, ReceiverRests
  <2> QED
    BY <1>3, <1>5, <2>1, <2>6, <2>7, <2>8, <2>9, <2>10, <2>11, RefreshesRows
<1>6. CASE ~(Found(id) /\ slot[id.position].entry.kind = "records")
  <2>1. UNCHANGED registryVars
    BY <1>3, <1>4, <1>6 DEF AdmitDelivery, AdmitRows, registryVars
  <2> QED
    BY <1>2, <1>3, <2>1, TaskStep
<1> QED
  BY <1>5, <1>6

\* A progress report reaches the registry.
LEMMA ReportHolds ==
    ASSUME Limits, RemoteInv, NEW d \in Deliveries, NEW r \in Rows, ReportRow(task[d].records, r),
           task[d].records.generation # 0,
           UNCHANGED <<run, task, settled, remote, answers>>,
           watch' \in [Deliveries -> [Rows -> Watches]],
           Decided, \A e \in Deliveries : Received(e)'
    PROVE  RemoteInv'
<1>1. Shape /\ Staged(task[d]) /\ RegistryTypeOK
  BY DEF RemoteInv, Shape
<1>2. PICK id : id = task[d].records
  OBVIOUS
<1>3. /\ \A e \in Deliveries : SameIds(e) /\ Advances(e)
      /\ task' \in [Deliveries -> Tasks]
  BY TasksRest
<1>4. CASE EntryRow(id, r).phase = "admitted"
  <2>1. PICK p \in Positions : p = id.position
    BY <1>1, <1>2 DEF Staged
  <2>2. Found(id) /\ slot[p].entry.kind = "records"
    BY <1>4, <2>1 DEF EntryRow, NoRow
  <2>3. slot[p].entry \in Entries
    BY <1>1, SlotFields
  <2>4. slot[p].entry.rows \in [Rows -> RowStates]
    BY <2>2, <2>3, EntryKinds
  <2>5. PICK rows : rows = [slot[p].entry.rows EXCEPT ![r] = Admitted]
    OBVIOUS
  <2>6. /\ rows \in [Rows -> RowStates]
        /\ \A s \in Rows : rows[s] = Admitted \/ rows[s] = slot[p].entry.rows[s]
    BY <2>4, <2>5, AdmittedRow
  <2>7. slot' = [slot EXCEPT ![p] = WithRows(p, rows)]
        /\ UNCHANGED <<free, queueOpen, claims, sealed, returning, stopping>>
    BY <1>2, <1>4, <2>1, <2>5 DEF ReportRow, WithRow
  <2>8. \A s \in RowsAt(p) : rows[s] # NoRow
    BY <2>6, AdmittedRow DEF RowsAt
  <2> QED
    BY <1>3, <2>2, <2>6, <2>7, <2>8, RefreshesRows
<1>5. CASE EntryRow(id, r).phase # "admitted"
  <2>1. UNCHANGED registryVars
    BY <1>2, <1>5 DEF ReportRow, registryVars
  <2>2. /\ \A a \in answers' : a \in answers
        /\ remote' \in [Deliveries ->
             {"unseen", "received", "admitted", "unwanted", "cancelled", "rejected"}]
        /\ answers' \subseteq Answers
    BY <1>1 DEF Shape
  <2> QED
    BY <2>1, <2>2, ReceiverStep
<1> QED
  BY <1>4, <1>5

\* One watch changes, and its root only from open.
LEMMA WatchChanges ==
    ASSUME RemoteInv, NEW d \in Deliveries, NEW r \in Rows, NEW w \in Watches,
           watch' = [watch EXCEPT ![d] = [watch[d] EXCEPT ![r] = w]], UNCHANGED <<remote, task>>,
           w.root = watch[d][r].root \/ watch[d][r].root = "open",
           w.state = "watching" => watch[d][r].state = "watching",
           w.held => w.root # "open",
           remote[d] \notin {"unseen", "received", "unwanted"}
    PROVE  /\ watch' \in [Deliveries -> [Rows -> Watches]] /\ Decided
           /\ \A e \in Deliveries : Received(e)'
           /\ remote' \in [Deliveries ->
                {"unseen", "received", "admitted", "unwanted", "cancelled", "rejected"}]
<1>1. Shape /\ \A e \in Deliveries : Received(e)
  BY DEF RemoteInv
<1>2. /\ watch'[d] = [watch[d] EXCEPT ![r] = w] /\ watch[d] \in [Rows -> Watches]
      /\ \A e \in Deliveries \ {d} : watch'[e] = watch[e]
  BY <1>1 DEF Shape
<1>3. watch' \in [Deliveries -> [Rows -> Watches]]
  BY <1>1, <1>2 DEF Shape
<1>4. watch'[d][r] = w /\ \A s \in Rows \ {r} : watch'[d][s] = watch[d][s]
  BY <1>2
<1>5. Decided
  BY <1>2, <1>4 DEF Decided
<1>6. \A e \in Deliveries : Received(e)'
  <2>1. \A e \in Deliveries \ {d} : Received(e)'
    BY <1>1, <1>2 DEF Received
  <2>2. Received(d)'
    BY <1>1, <1>4 DEF Received
  <2> QED
    BY <2>1, <2>2
<1> QED
  BY <1>1, <1>3, <1>5, <1>6 DEF Shape

\* A watch that ended is one, and keeps its root.
LEMMA OverShape ==
    ASSUME NEW w \in Watches
    PROVE  /\ Over(w) \in Watches /\ Over(w).state = "ended" /\ Over(w).root = w.root
           /\ Over(w).held = FALSE
<1>1. PICK o : o = [w EXCEPT !.state = "ended", !.told = FALSE, !.held = FALSE,
                             !.registrar = "undiscovered"]
  OBVIOUS
<1>2. o \in Watches /\ o.state = "ended" /\ o.root = w.root /\ o.held = FALSE
  BY <1>1 DEF Watches
<1> QED
  BY <1>1, <1>2 DEF Over

\* A watch has begun only for a delivery that was sent.
LEMMA Watching ==
    ASSUME RemoteInv, NEW d \in Deliveries, NEW r \in Rows, watch[d][r].state = "watching"
    PROVE  /\ watch[d][r] \in Watches /\ remote[d] \notin {"unseen", "received", "unwanted"}
           /\ task[d].admission.generation # 0 /\ task[d].records.generation # 0
           /\ task[d].records \in Identities /\ task[d].run \in Nat
           /\ watch[d][r].held => watch[d][r].root # "open"
<1>1. Shape /\ Received(d) /\ Staged(task[d])
  BY DEF RemoteInv
<1> QED
  BY <1>1 DEF Shape, Received, Staged, Tasks

\* A root is decided once.
LEMMA DecideRootHolds ==
    ASSUME Limits, RemoteInv, NEW d \in Deliveries, NEW r \in Rows, DecideRoot(d, r) PROVE RemoteInv'
<1>1. Shape /\ Received(d)
  BY DEF RemoteInv
<1>2. PICK result \in {"ack", "noack"} : watch' = [watch EXCEPT ![d][r].root = result]
  BY DEF DecideRoot
<1>3. PICK w : w = [watch[d][r] EXCEPT !.root = result]
  OBVIOUS
<1>4. watch[d][r] \in Watches
  BY <1>1 DEF Shape
<1>5. w \in Watches /\ w.root = result /\ w.state = watch[d][r].state /\ w.root # "open"
  BY <1>2, <1>3, <1>4 DEF Watches
<1>6. watch' = [watch EXCEPT ![d] = [watch[d] EXCEPT ![r] = w]]
  BY <1>1, <1>2, <1>3 DEF Shape
<1>7. UNCHANGED <<registryVars, run, task, settled, remote, answers>> /\ watch[d][r].root = "open"
      /\ remote[d] = "admitted"
  BY DEF DecideRoot
<1>8. /\ watch' \in [Deliveries -> [Rows -> Watches]] /\ Decided
      /\ \A e \in Deliveries : Received(e)'
      /\ remote' \in [Deliveries ->
           {"unseen", "received", "admitted", "unwanted", "cancelled", "rejected"}]
  <2>1. remote[d] \notin {"unseen", "received", "unwanted"}
    BY <1>7
  <2> QED
    BY <1>5, <1>6, <1>7, <2>1, WatchChanges
<1>9. answers' \subseteq Answers /\ \A a \in answers' : a \in answers
  BY <1>1, <1>7 DEF Shape
<1> QED
  BY <1>7, <1>8, <1>9, ReceiverStep

\* A look that gives up changes no root.
LEMMA LookReleaseHolds ==
    ASSUME Limits, RemoteInv, NEW d \in Deliveries, NEW r \in Rows, LookRelease(d, r) PROVE RemoteInv'
<1>1. Shape
  BY DEF RemoteInv
<1>2. PICK w : w = Over(watch[d][r])
  OBVIOUS
<1>3. /\ watch[d][r] \in Watches /\ remote[d] \notin {"unseen", "received", "unwanted"}
  BY Watching DEF LookRelease
<1>4. w \in Watches /\ w.state = "ended" /\ w.root = watch[d][r].root /\ w.held = FALSE
  BY <1>2, <1>3, OverShape
<1>5. watch' = [watch EXCEPT ![d] = [watch[d] EXCEPT ![r] = w]]
  BY <1>1, <1>2 DEF LookRelease, Shape
<1>6. UNCHANGED <<registryVars, run, task, settled, remote, answers>>
  BY DEF LookRelease
<1>7. /\ watch' \in [Deliveries -> [Rows -> Watches]] /\ Decided
      /\ \A e \in Deliveries : Received(e)'
      /\ remote' \in [Deliveries ->
           {"unseen", "received", "admitted", "unwanted", "cancelled", "rejected"}]
  BY <1>3, <1>4, <1>5, <1>6, WatchChanges
<1>8. answers' \subseteq Answers /\ \A a \in answers' : a \in answers
  BY <1>1, <1>6 DEF Shape
<1> QED
  BY <1>6, <1>7, <1>8, ReceiverStep

\* A look that keeps its outcome has a root that was decided.
LEMMA LookHoldHolds ==
    ASSUME Limits, RemoteInv, NEW d \in Deliveries, NEW r \in Rows, LookHold(d, r) PROVE RemoteInv'
<1>1. Shape
  BY DEF RemoteInv
<1>2. PICK w : w = watch[d][r]
  OBVIOUS
<1>3. /\ w \in Watches /\ remote[d] \notin {"unseen", "received", "unwanted"}
      /\ w.state = "watching" /\ (w.held => w.root # "open")
  BY <1>2, Watching DEF LookHold
<1>4. PICK told \in BOOLEAN : told = (w.told \/ w.root # "open")
  OBVIOUS
<1>5. PICK held \in BOOLEAN : held = Terminal(w)
  BY <1>3 DEF Terminal, Watches
<1>6. held => w.root # "open"
  BY <1>3, <1>5 DEF Terminal
<1>7. PICK v : v = [w EXCEPT !.registrar = "missing", !.told = told, !.held = held]
  OBVIOUS
<1>8. v \in Watches /\ v.root = w.root /\ v.state = w.state /\ v.held = held
  BY <1>3, <1>7 DEF Watches
<1>9. watch' = [watch EXCEPT ![d] = [watch[d] EXCEPT ![r] = v]]
  BY <1>1, <1>2, <1>4, <1>5, <1>7 DEF LookHold, Shape
<1>10. UNCHANGED <<registryVars, run, task, settled, remote, answers>>
  BY DEF LookHold
<1>11. /\ watch' \in [Deliveries -> [Rows -> Watches]] /\ Decided
       /\ \A e \in Deliveries : Received(e)'
       /\ remote' \in [Deliveries ->
            {"unseen", "received", "admitted", "unwanted", "cancelled", "rejected"}]
  BY <1>2, <1>3, <1>6, <1>8, <1>9, <1>10, WatchChanges
<1>12. answers' \subseteq Answers /\ \A a \in answers' : a \in answers
  BY <1>1, <1>10 DEF Shape
<1> QED
  BY <1>10, <1>11, <1>12, ReceiverStep

\* A look answers what the root came to, under the identity of its row.
LEMMA LookReportHolds ==
    ASSUME Limits, RemoteInv, NEW d \in Deliveries, NEW r \in Rows, LookReport(d, r) PROVE RemoteInv'
<1>1. Shape
  BY DEF RemoteInv
<1>2. PICK w : w = watch[d][r]
  OBVIOUS
<1>3. /\ w \in Watches /\ remote[d] \notin {"unseen", "received", "unwanted"}
      /\ w.state = "watching" /\ (w.held => w.root # "open")
      /\ task[d].admission.generation # 0 /\ task[d].records.generation # 0
      /\ task[d].records \in Identities /\ task[d].run \in Nat
  BY <1>2, Watching DEF LookReport
<1>4. UNCHANGED <<run, task, settled, remote>>
  BY DEF LookReport
<1>5. CASE Terminal(w)
  <2>1. PICK v : v = Over(w)
    OBVIOUS
  <2>2. v \in Watches /\ v.state = "ended" /\ v.root = w.root /\ v.held = FALSE
    BY <1>3, <2>1, OverShape
  <2>3. watch' = [watch EXCEPT ![d] = [watch[d] EXCEPT ![r] = v]]
    BY <1>1, <1>2, <1>5, <2>1 DEF LookReport, Shape
  <2>4. PICK result : result = IF w.root = "ack" THEN "Ack" ELSE "NoAck"
    OBVIOUS
  <2>5. PICK a : a = Answer(d, r, task[d].records, result)
    OBVIOUS
  <2>6. answers' = answers \cup {a} /\ UNCHANGED registryVars
    BY <1>2, <1>5, <2>4, <2>5 DEF LookReport
  <2>7. /\ a.run = task[d].run /\ a.delivery = d /\ a.row = r /\ a.id = task[d].records
        /\ a.outcome = result /\ result \in {"Ack", "NoAck"} /\ a \in Answers
    BY <1>3, <2>4, <2>5 DEF Answer, Answers
  <2>8. /\ watch' \in [Deliveries -> [Rows -> Watches]] /\ Decided
        /\ \A e \in Deliveries : Received(e)'
        /\ remote' \in [Deliveries ->
             {"unseen", "received", "admitted", "unwanted", "cancelled", "rejected"}]
    BY <1>2, <1>3, <1>4, <2>2, <2>3, WatchChanges
  <2>9. watch'[d][r] = v
    BY <1>1, <2>3 DEF Shape
  <2>10. v.root = IF result = "Ack" THEN "ack" ELSE "noack"
    BY <1>3, <1>5, <2>2, <2>4 DEF Terminal, Watches
  <2>11. Truthful(a)'
    BY <1>3, <1>4, <2>7, <2>9, <2>10 DEF Truthful, Limits
  <2>12. answers' \subseteq Answers /\ \A b \in answers' : b \in answers \/ Truthful(b)'
    BY <1>1, <2>6, <2>7, <2>11 DEF Shape
  <2> QED
    BY <1>4, <2>6, <2>8, <2>12, ReceiverStep
<1>6. CASE ~Terminal(w)
  <2>1. PICK seen \in {"present"} \cup (IF ViewMisses THEN {w.registrar} \cap {"undiscovered"} ELSE {}) :
          watch' = [watch EXCEPT ![d][r] = [w EXCEPT !.registrar = seen, !.told = w.root # "open"]]
    BY <1>2, <1>6 DEF LookReport
  <2>2. PICK told \in BOOLEAN : told = (w.root # "open")
    OBVIOUS
  <2>3. PICK v : v = [w EXCEPT !.registrar = seen, !.told = told]
    OBVIOUS
  <2>4. v \in Watches /\ v.root = w.root /\ v.state = w.state /\ v.held = w.held
    BY <1>3, <2>1, <2>2, <2>3 DEF Watches
  <2>5. watch' = [watch EXCEPT ![d] = [watch[d] EXCEPT ![r] = v]]
    BY <1>1, <2>1, <2>2, <2>3 DEF Shape
  <2>6. /\ watch' \in [Deliveries -> [Rows -> Watches]] /\ Decided
        /\ \A e \in Deliveries : Received(e)'
        /\ remote' \in [Deliveries ->
             {"unseen", "received", "admitted", "unwanted", "cancelled", "rejected"}]
    BY <1>2, <1>3, <1>4, <2>4, <2>5, WatchChanges
  <2>7. /\ ReportRow(task[d].records, r) \/ UNCHANGED registryVars
        /\ UNCHANGED answers
    BY <1>2, <1>6 DEF LookReport
  <2>8. CASE ReportRow(task[d].records, r)
    BY <1>3, <1>4, <2>6, <2>7, <2>8, ReportHolds
  <2>9. CASE UNCHANGED registryVars
    BY <1>1, <1>4, <2>6, <2>7, <2>9, ReceiverStep DEF Shape
  <2> QED
    BY <2>7, <2>8, <2>9
<1> QED
  BY <1>5, <1>6

\* A body arrives for a delivery whose admission was asked for.
LEMMA ReceiveBodyHolds ==
    ASSUME Limits, RemoteInv, NEW d \in Deliveries, ReceiveBody(d) PROVE RemoteInv'
<1>1. Shape /\ \A e \in Deliveries : Received(e)
  BY DEF RemoteInv
<1>2. /\ remote[d] = "unseen" /\ task[d].admission.generation # 0
      /\ remote' = [remote EXCEPT ![d] = "received"]
      /\ UNCHANGED <<registryVars, run, task, settled, watch, answers>>
  BY DEF ReceiveBody
<1>3. /\ remote' \in [Deliveries ->
           {"unseen", "received", "admitted", "unwanted", "cancelled", "rejected"}]
      /\ remote'[d] = "received" /\ \A e \in Deliveries \ {d} : remote'[e] = remote[e]
  BY <1>1, <1>2 DEF Shape
<1>4. Decided
  BY <1>2, <1>3 DEF Decided
<1>5. \A e \in Deliveries : Received(e)'
  BY <1>1, <1>2, <1>3 DEF Received
<1>6. /\ watch' \in [Deliveries -> [Rows -> Watches]] /\ answers' \subseteq Answers
      /\ \A a \in answers' : a \in answers
  BY <1>1, <1>2 DEF Shape
<1> QED
  BY <1>2, <1>3, <1>4, <1>5, <1>6, ReceiverStep

\* The watches of a delivery start, or it is refused without them.
LEMMA WatchesStart ==
    ASSUME RemoteInv, NEW d \in Deliveries, remote[d] \in {"received", "unwanted"},
           NEW root \in {"open", "ack", "noack"}, watch' \in {watch, StartWatches(d, root)},
           NEW to \in {"admitted", "cancelled", "rejected"}, remote' = [remote EXCEPT ![d] = to],
           UNCHANGED task
    PROVE  /\ watch' \in [Deliveries -> [Rows -> Watches]] /\ Decided
           /\ \A e \in Deliveries : Received(e)'
           /\ remote' \in [Deliveries ->
                {"unseen", "received", "admitted", "unwanted", "cancelled", "rejected"}]
           /\ remote'[d] = to
<1>1. Shape /\ \A e \in Deliveries : Received(e)
  BY DEF RemoteInv
<1>2. /\ remote' \in [Deliveries ->
           {"unseen", "received", "admitted", "unwanted", "cancelled", "rejected"}]
      /\ remote'[d] = to /\ \A e \in Deliveries \ {d} : remote'[e] = remote[e]
  BY <1>1 DEF Shape
<1>3. /\ task[d].admission.generation # 0
      /\ \A r \in Rows : watch[d][r].state = "none" /\ watch[d][r].root = "open" /\ ~watch[d][r].held
  BY <1>1 DEF Received
<1>4. CASE watch' = watch
  <2>1. Decided /\ \A e \in Deliveries : Received(e)'
    BY <1>1, <1>2, <1>3, <1>4 DEF Decided, Received
  <2> QED
    BY <1>1, <1>2, <1>4, <2>1 DEF Shape
<1>5. CASE watch' = StartWatches(d, root)
  <2>1. \A r \in Rows : watch[d][r] \in Watches
    BY <1>1 DEF Shape
  <2>2. PICK f : f = [r \in Rows |-> [watch[d][r] EXCEPT !.state = "watching", !.root = root]]
    OBVIOUS
  <2>3. ASSUME NEW r \in Rows
        PROVE  f[r] \in Watches /\ (f[r].held => watch[d][r].held)
    <3>1. PICK w : w = [watch[d][r] EXCEPT !.state = "watching", !.root = root]
      OBVIOUS
    <3>2. w \in Watches /\ w.held = watch[d][r].held
      BY <2>1, <3>1 DEF Watches
    <3> QED
      BY <2>2, <3>1, <3>2
  <2>4. f \in [Rows -> Watches]
    BY <2>2, <2>3
  <2>5. watch' = [watch EXCEPT ![d] = f]
    BY <1>5, <2>2 DEF StartWatches
  <2>6. /\ watch' \in [Deliveries -> [Rows -> Watches]] /\ watch'[d] = f
        /\ \A e \in Deliveries \ {d} : watch'[e] = watch[e]
    BY <1>1, <2>4, <2>5 DEF Shape
  <2>7. Decided
    BY <1>2, <1>3, <2>6 DEF Decided
  <2>8. Received(d)'
    BY <1>2, <1>3, <2>3, <2>6 DEF Received
  <2>9. \A e \in Deliveries \ {d} : Received(e)'
    BY <1>1, <1>2, <2>6 DEF Received
  <2> QED
    BY <1>2, <2>6, <2>7, <2>8, <2>9
<1> QED
  BY <1>4, <1>5

\* The answer to an admission.
LEMMA AdmissionAnswer ==
    ASSUME Limits, RemoteInv, NEW d \in Deliveries, task[d].admission.generation # 0,
           NEW result \in {"Ack", "NoAck"}, result = "Ack" => remote'[d] = "admitted",
           UNCHANGED task, answers' = answers \cup {Answer(d, 0, task[d].admission, result)}
    PROVE  answers' \subseteq Answers /\ \A b \in answers' : b \in answers \/ Truthful(b)'
<1>1. Shape /\ task[d].run \in Nat /\ task[d].admission \in Identities
  BY DEF RemoteInv, Shape, Tasks
<1>2. PICK a : a = Answer(d, 0, task[d].admission, result)
  OBVIOUS
<1>3. /\ a.run = task[d].run /\ a.delivery = d /\ a.row = 0 /\ a.id = task[d].admission
      /\ a.outcome = result /\ a \in Answers
  BY <1>1, <1>2 DEF Answer, Answers
<1>4. Truthful(a)'
  BY <1>3 DEF Truthful, Limits
<1> QED
  BY <1>1, <1>2, <1>3, <1>4 DEF Shape

\* The receiver decides a delivery that arrived, and starts its watches.
LEMMA PayloadHolds ==
    ASSUME Limits, RemoteInv, NEW d \in Deliveries,
           AdmitPayload(d) \/ RejectPayload(d) \/ DropCancelled(d)
    PROVE  RemoteInv'
<1>1. Shape /\ Received(d)
  BY DEF RemoteInv
<1>2. UNCHANGED <<registryVars, run, task, settled>>
  BY DEF AdmitPayload, RejectPayload, DropCancelled
<1>3. CASE AdmitPayload(d)
  <2>1. /\ watch' \in [Deliveries -> [Rows -> Watches]] /\ Decided
        /\ \A e \in Deliveries : Received(e)'
        /\ remote' \in [Deliveries ->
             {"unseen", "received", "admitted", "unwanted", "cancelled", "rejected"}]
        /\ remote'[d] = "admitted"
    BY <1>2, <1>3, WatchesStart DEF AdmitPayload
  <2>2. task[d].admission.generation # 0
    BY <1>1, <1>3 DEF Received, AdmitPayload
  <2>3. answers' \subseteq Answers /\ \A b \in answers' : b \in answers \/ Truthful(b)'
    BY <1>2, <1>3, <2>1, <2>2, AdmissionAnswer DEF AdmitPayload
  <2> QED
    BY <1>2, <2>1, <2>3, ReceiverStep
<1>4. CASE RejectPayload(d)
  <2>1. /\ watch' \in [Deliveries -> [Rows -> Watches]] /\ Decided
        /\ \A e \in Deliveries : Received(e)'
        /\ remote' \in [Deliveries ->
             {"unseen", "received", "admitted", "unwanted", "cancelled", "rejected"}]
    BY <1>2, <1>4, WatchesStart DEF RejectPayload
  <2>2. task[d].admission.generation # 0
    BY <1>1, <1>4 DEF Received, RejectPayload
  <2>3. answers' \subseteq Answers /\ \A b \in answers' : b \in answers \/ Truthful(b)'
    BY <1>2, <1>4, <2>1, <2>2, AdmissionAnswer DEF RejectPayload
  <2> QED
    BY <1>2, <2>1, <2>3, ReceiverStep
<1>5. CASE DropCancelled(d)
  <2>1. /\ watch' \in [Deliveries -> [Rows -> Watches]] /\ Decided
        /\ \A e \in Deliveries : Received(e)'
        /\ remote' \in [Deliveries ->
             {"unseen", "received", "admitted", "unwanted", "cancelled", "rejected"}]
    BY <1>2, <1>5, WatchesStart DEF DropCancelled
  <2>2. answers' \subseteq Answers /\ \A b \in answers' : b \in answers
    BY <1>1, <1>5 DEF DropCancelled, Shape
  <2> QED
    BY <1>2, <2>1, <2>2, ReceiverStep
<1> QED
  BY <1>3, <1>4, <1>5

\* What the sender does without the receiver.
LEMMA Moving ==
    ASSUME Limits, RemoteInv, UNCHANGED <<remote, watch, answers>>, RegistryTypeOK',
           stopping' \in [phase : StopPhases, left : SUBSET Positions], run' \in 1 .. MaxRuns,
           task' \in [Deliveries -> Tasks], settled' \in [Deliveries -> [Rows -> Outcomes]],
           Sorted', Shut', \A p \in Positions : Excludes(p)',
           \A d \in Deliveries : Staged(task[d])' /\ Own(d)' /\ Kept(d)', Settles,
           \A d \in Deliveries :
             /\ SameIds(d) \/ task[d].admission.generation = 0
             /\ \/ Follows(task[d].pc, task'[d].pc)
                \/ task'[d].pc \in {"undelivered", "lost"}
                \/ task[d].pc \in {"idle", "storing", "stored", "asking"}
             /\ task'[d].heard = "Admitted" => task[d].heard = "Admitted"
    PROVE  RemoteInv'
<1>1. Shape /\ OwnSettled
  BY DEF RemoteInv
<1>2. /\ Decided /\ \A d \in Deliveries : Received(d)'
      /\ \A a \in answers' : a \in answers
      /\ remote' \in [Deliveries ->
           {"unseen", "received", "admitted", "unwanted", "cancelled", "rejected"}]
      /\ watch' \in [Deliveries -> [Rows -> Watches]] /\ answers' \subseteq Answers
  BY ReceiverRests
<1>3. Shape'
  BY <1>2 DEF Shape
<1>4. \A d \in Deliveries : task'[d].heard = "Admitted" => remote'[d] = "admitted"
  BY <1>1 DEF OwnSettled
<1>5. OwnSettled'
  BY <1>1, <1>2, <1>4, StillSettled DEF OwnSettled
<1>6. ASSUME NEW a \in answers' PROVE Truthful(a)'
  <2>1. a \in Answers /\ Truthful(a) /\ a.delivery \in Deliveries
    BY <1>1, <1>6 DEF Shape, RemoteInv, Answers
  <2> QED
    BY <1>1, <1>2, <2>1, StillTruthful
<1> QED
  BY <1>2, <1>3, <1>5, <1>6 DEF RemoteInv

\* What d finds under the slots that did not change.
LEMMA RowsElsewhere ==
    ASSUME NEW d \in Deliveries, SameIds(d), run' = run, Kept(d), NEW p,
           slot'[task[d].records.position] = slot[task[d].records.position] \/ slot[p].entry = Vacant,
           task[d].records.position # p
             => slot'[task[d].records.position] = slot[task[d].records.position],
           task'[d].pc \notin {"idle", "storing"} => task[d].pc \notin {"idle", "storing"},
           \A r \in Rows : settled'[d][r] = "pending" => settled[d][r] = "pending"
    PROVE  Kept(d)'
<1> SUFFICES ASSUME NEW r \in Rows, task'[d].pc \notin {"idle", "storing"}, settled'[d][r] = "pending"
             PROVE  /\ task'[d].run = run' /\ task'[d].records.generation # 0
                    /\ RowFound(task[d].records, r)'
  BY DEF Kept
<1>1. /\ task[d].run = run /\ task[d].records.generation # 0 /\ RowFound(task[d].records, r)
  BY DEF Kept
<1>2. task'[d].records = task[d].records /\ task'[d].run = task[d].run
  BY DEF SameIds
<1>3. slot[task[d].records.position].entry # Vacant
  BY <1>1 DEF RowFound, EntryRow, Found
<1>4. slot'[task[d].records.position] = slot[task[d].records.position]
  BY <1>3
<1> QED
  BY <1>1, <1>2, <1>4 DEF RowFound, EntryRow, Found

\* Identities stay met by their own deliveries while slots stay as they are.
LEMMA OwnElsewhere ==
    ASSUME NEW d \in Deliveries, SameIds(d), run' = run, UNCHANGED slot, Own(d)
    PROVE  Own(d)'
BY DEF SameIds, Own, Owns

\* The side and the number of a position.
LEMMA PositionSide ==
    ASSUME NEW p \in Positions
    PROVE  /\ Side(p) \in Sides /\ p[2] \in 1 .. Capacity /\ p = <<Side(p), p[2]>>
BY DEF Positions, Side

\* A task changes as a whole.
LEMMA TaskChanges ==
    ASSUME Shape, NEW d \in Deliveries, NEW t \in Tasks, task' = [task EXCEPT ![d] = t]
    PROVE  /\ task' \in [Deliveries -> Tasks] /\ task'[d] = t
           /\ \A e \in Deliveries \ {d} : task'[e] = task[e] /\ SameIds(e)
BY DEF Shape, SameIds

\* Claiming a position that nobody holds.
Claimed(s, p) ==
    /\ UNCHANGED <<slot, queueOpen, sealed, returning, stopping>> /\ Side(p) = s
    /\ free' \in [Sides -> Seq(Positions)] /\ claims' \in [Sides -> 0 .. Capacity] /\ Sorted' /\ Shut'
    /\ Claimants(p) = {} /\ p \notin returning /\ slot[p].entry = Vacant
    /\ ~Free(p)' /\ HandedOut(p)'
    /\ \A q \in Positions :
         /\ q # p => (Free(q)' <=> Free(q)) /\ (HandedOut(q)' <=> HandedOut(q))
         /\ \A i, j \in DOMAIN free'[Side(q)] : free'[Side(q)][i] = q /\ free'[Side(q)][j] = q => i = j

\* The oldest position of a free queue is held by nobody else.
LEMMA PopClaims ==
    ASSUME Limits, RemoteInv, NEW s \in Sides, NEW p \in Positions, Pop(s, p) PROVE Claimed(s, p)
<1>1. Shape /\ Sorted /\ Shut /\ RegistryTypeOK /\ \A q \in Positions : Excludes(q)
  BY DEF RemoteInv, Shape
<1>2. PICK f : f = free[s] /\ f \in Seq(Positions) /\ f # << >>
  BY <1>1 DEF RegistryTypeOK, Pop
<1>3. PICK g : g = Tail(f)
  OBVIOUS
<1>4. /\ g \in Seq(Positions) /\ Len(g) = Len(f) - 1 /\ \A i \in 1 .. Len(g) : g[i] = f[i + 1]
      /\ Len(f) \in Nat /\ Len(f) >= 1 /\ DOMAIN f = 1 .. Len(f) /\ DOMAIN g = 1 .. Len(g)
  BY <1>2, <1>3, HeadTailProperties
<1>5. p = f[1] /\ free' = [free EXCEPT ![s] = g] /\ UNCHANGED <<slot, queueOpen, claims, sealed, returning, stopping>>
  BY <1>2, <1>3 DEF Pop
<1>6. free' \in [Sides -> Seq(Positions)] /\ free'[s] = g /\ \A u \in Sides \ {s} : free'[u] = free[u]
  BY <1>1, <1>4, <1>5 DEF RegistryTypeOK
<1>7. Side(p) = s
  BY <1>1, <1>2, <1>4, <1>5 DEF Sorted
<1>8. Free(p) /\ \A i \in DOMAIN f : f[i] = p => i = 1
  <2>1. Free(p)
    BY <1>2, <1>4, <1>5, <1>7 DEF Free
  <2> QED
    BY <1>1, <1>2, <1>4, <1>5, <1>7, <2>1 DEF Excludes
<1>9. Claimants(p) = {} /\ p \notin returning /\ slot[p].entry = Vacant /\ HandedOut(p)
  BY <1>1, <1>8 DEF Excludes
<1>10. \A q \in Positions : HandedOut(q)' <=> HandedOut(q)
  BY <1>5 DEF HandedOut, Side
<1>11. ~Free(p)'
  <2>1. \A i \in DOMAIN g : g[i] # p
    BY <1>4, <1>8
  <2> QED
    BY <1>6, <1>7, <2>1 DEF Free, Side
<1>12. ASSUME NEW q \in Positions, q # p PROVE Free(q)' <=> Free(q)
  <2>1. CASE Side(q) # s
    BY <1>6, <2>1, PositionSide DEF Free, Side
  <2>2. CASE Side(q) = s
    <3>1. (\E i \in DOMAIN g : g[i] = q) <=> (\E i \in DOMAIN f : f[i] = q)
      <4>1. ASSUME NEW i \in DOMAIN g, g[i] = q PROVE \E j \in DOMAIN f : f[j] = q
        <5>1. i + 1 \in DOMAIN f /\ f[i + 1] = q
          BY <1>4, <4>1
        <5> QED
          BY <5>1
      <4>2. ASSUME NEW j \in DOMAIN f, f[j] = q PROVE \E i \in DOMAIN g : g[i] = q
        <5>1. j # 1
          BY <1>5, <1>12, <4>2
        <5>2. j - 1 \in DOMAIN g /\ g[j - 1] = f[(j - 1) + 1] /\ (j - 1) + 1 = j
          BY <1>4, <5>1
        <5> QED
          BY <4>2, <5>2
      <4> QED
        BY <4>1, <4>2
    <3> QED
      BY <1>2, <1>6, <2>2, <3>1 DEF Free, Side
  <2> QED
    BY <2>1, <2>2
<1>13. ASSUME NEW q \in Positions
       PROVE  \A i, j \in DOMAIN free'[Side(q)] : free'[Side(q)][i] = q /\ free'[Side(q)][j] = q => i = j
  <2>1. CASE Side(q) # s
    BY <1>1, <1>6, <2>1, PositionSide DEF Excludes
  <2>2. CASE Side(q) = s
    <3> SUFFICES ASSUME NEW i \in DOMAIN g, NEW j \in DOMAIN g, g[i] = q, g[j] = q
                 PROVE  i = j
      BY <1>6, <2>2
    <3>1. i + 1 \in DOMAIN f /\ j + 1 \in DOMAIN f /\ f[i + 1] = q /\ f[j + 1] = q
      BY <1>4
    <3>2. i + 1 = j + 1
      BY <1>1, <1>2, <2>2, <3>1 DEF Excludes
    <3> QED
      BY <1>4, <3>2
  <2> QED
    BY <2>1, <2>2
<1>14. Sorted'
  <2>1. \A i \in DOMAIN g : Side(g[i]) = s
    BY <1>1, <1>2, <1>4 DEF Sorted
  <2> QED
    BY <1>1, <1>6, <2>1 DEF Sorted, Side
<1>15. Shut'
  BY <1>1, <1>5, <1>10 DEF Shut
<1> QED
  BY <1>1, <1>5, <1>6, <1>7, <1>9, <1>10, <1>11, <1>12, <1>13, <1>14, <1>15 DEF Claimed,
       RegistryTypeOK

\* Nor is a position that was never handed out.
LEMMA FreshClaims ==
    ASSUME Limits, RemoteInv, NEW s \in Sides, NEW p \in Positions, ClaimFresh(s, p) PROVE Claimed(s, p)
<1>1. Shape /\ Sorted /\ Shut /\ RegistryTypeOK /\ \A q \in Positions : Excludes(q)
  BY DEF RemoteInv, Shape
<1>2. PICK n : n = claims[s] /\ n \in 0 .. Capacity /\ n < Capacity
  BY <1>1 DEF RegistryTypeOK, ClaimFresh
<1>3. /\ p = <<s, n + 1>> /\ claims' = [claims EXCEPT ![s] = n + 1] /\ ~sealed[s]
      /\ UNCHANGED <<slot, free, queueOpen, sealed, returning, stopping>>
  BY <1>2 DEF ClaimFresh
<1>4. Side(p) = s /\ p[2] = n + 1
  BY <1>3 DEF Side
<1>5. /\ claims' \in [Sides -> 0 .. Capacity] /\ claims'[s] = n + 1
      /\ \A u \in Sides \ {s} : claims'[u] = claims[u]
  BY <1>1, <1>2, <1>3 DEF RegistryTypeOK, Limits
<1>6. HandedOut(p)' /\ ~HandedOut(p)
  BY <1>2, <1>4, <1>5 DEF HandedOut, Side
<1>7. Claimants(p) = {} /\ p \notin returning /\ slot[p].entry = Vacant /\ ~Free(p)
  BY <1>1, <1>6 DEF Excludes
<1>8. \A q \in Positions : Free(q)' <=> Free(q)
  BY <1>3 DEF Free, Side
<1>9. ASSUME NEW q \in Positions, q # p PROVE HandedOut(q)' <=> HandedOut(q)
  <2>1. CASE Side(q) # s
    BY <1>5, <2>1, PositionSide DEF HandedOut, Side
  <2>2. CASE Side(q) = s
    <3>1. q[2] # n + 1 /\ q[2] \in Nat
      BY <1>3, <1>9, <2>2, PositionSide
    <3> QED
      BY <1>2, <1>5, <2>2, <3>1 DEF HandedOut, Side
  <2> QED
    BY <2>1, <2>2
<1>10. \A q \in Positions :
         \A i, j \in DOMAIN free'[Side(q)] : free'[Side(q)][i] = q /\ free'[Side(q)][j] = q => i = j
  BY <1>1, <1>3 DEF Excludes
<1>11. Sorted'
  BY <1>1, <1>3 DEF Sorted, Side
<1>12. Shut'
  <2>1. stopping.phase \in {"running", "sealedRecords"}
    BY <1>1, <1>3 DEF Shut, Sides
  <2> QED
    BY <1>1, <1>3, <2>1 DEF Shut
<1> QED
  BY <1>1, <1>3, <1>4, <1>5, <1>6, <1>7, <1>8, <1>9, <1>10, <1>11, <1>12 DEF Claimed,
       RegistryTypeOK

-----------------------------------------------------------------------------
\* A step in which one delivery's task, still without an admission, moves on.
LEMMA OneMoves ==
    ASSUME Limits, RemoteInv, NEW d \in Deliveries, NEW t \in Tasks, task' = [task EXCEPT ![d] = t],
           UNCHANGED <<run, remote, watch, answers>>, RegistryTypeOK',
           stopping' \in [phase : StopPhases, left : SUBSET Positions],
           settled' \in [Deliveries -> [Rows -> Outcomes]],
           Sorted', Shut', \A p \in Positions : Excludes(p)',
           Staged(t), Own(d)', Kept(d)', \A e \in Deliveries \ {d} : Own(e)' /\ Kept(e)',
           \A e \in Deliveries \ {d} : settled'[e] = settled[e],
           settled'[d] = settled[d] \/ \A r \in Rows : settled'[d][r] = "refused",
           task[d].admission.generation = 0, task[d].pc \in {"idle", "storing", "stored", "asking"},
           t.heard = task[d].heard
    PROVE  RemoteInv'
<1>1. Shape /\ \A e \in Deliveries : Staged(task[e])
  BY DEF RemoteInv
<1>2. /\ task' \in [Deliveries -> Tasks] /\ task'[d] = t
      /\ \A e \in Deliveries \ {d} : task'[e] = task[e] /\ SameIds(e)
  BY <1>1, TaskChanges
<1>3. Settles
  BY DEF Settles
<1>4. \A e \in Deliveries : Staged(task[e])'
  BY <1>1, <1>2 DEF Staged
<1>5. \A e \in Deliveries : Own(e)' /\ Kept(e)'
  OBVIOUS
<1>6. \A e \in Deliveries :
        /\ SameIds(e) \/ task[e].admission.generation = 0
        /\ \/ Follows(task[e].pc, task'[e].pc)
           \/ task'[e].pc \in {"undelivered", "lost"}
           \/ task[e].pc \in {"idle", "storing", "stored", "asking"}
        /\ task'[e].heard = "Admitted" => task[e].heard = "Admitted"
  BY <1>2 DEF Follows
<1>7. run' \in 1 .. MaxRuns
  BY <1>1 DEF Shape
<1> QED
  BY <1>2, <1>3, <1>4, <1>5, <1>6, <1>7, Moving

\* Who registers at a position, when one task moves.
LEMMA RegistrarsMove ==
    ASSUME NEW d \in Deliveries, \A e \in Deliveries \ {d} : task'[e] = task[e], NEW p
    PROVE  Claimants(p)' \ {d} = Claimants(p) \ {d}
BY DEF Claimants

\* Settling every row of a delivery.
LEMMA SettleAllOf ==
    ASSUME Shape, NEW d \in Deliveries, NEW result \in Outcomes, settled' = SettleAll(d, result)
    PROVE  /\ settled' \in [Deliveries -> [Rows -> Outcomes]]
           /\ \A r \in Rows : settled'[d][r] = result
           /\ \A e \in Deliveries \ {d} : settled'[e] = settled[e]
BY DEF Shape, SettleAll

\* A delivery that is refused at once has no identity.
LEMMA RefuseRecordsHolds ==
    ASSUME Limits, RemoteInv, NEW d \in Deliveries, RefuseRecords(d) PROVE RemoteInv'
<1>1. Shape /\ Sorted /\ Shut /\ RegistryTypeOK /\ Staged(task[d]) /\ \A p \in Positions : Excludes(p)
  BY DEF RemoteInv, Shape
<1>2. task[d] \in Tasks /\ task[d].pc = "idle" /\ run \in Nat
  BY <1>1 DEF Shape, RefuseRecords, Limits
<1>3. PICK t : t = [task[d] EXCEPT !.pc = "undelivered", !.run = run]
  OBVIOUS
<1>4. /\ t \in Tasks /\ t.pc = "undelivered" /\ t.run = run /\ t.records = task[d].records
      /\ t.admission = task[d].admission /\ t.heard = task[d].heard
  BY <1>2, <1>3 DEF Tasks, TaskSteps
<1>5. task' = [task EXCEPT ![d] = t]
  BY <1>1, <1>3 DEF RefuseRecords, Step, Shape
<1>6. /\ UNCHANGED registryVars /\ UNCHANGED <<run, remote, watch, answers>>
      /\ settled' = SettleAll(d, "refused") /\ "refused" \in Outcomes
  BY DEF RefuseRecords, Outcomes
<1>7. /\ settled' \in [Deliveries -> [Rows -> Outcomes]]
      /\ \A r \in Rows : settled'[d][r] = "refused"
      /\ \A e \in Deliveries \ {d} : settled'[e] = settled[e]
  BY <1>1, <1>6, SettleAllOf
<1>8. /\ task'[d] = t /\ \A e \in Deliveries \ {d} : task'[e] = task[e] /\ SameIds(e)
  BY <1>1, <1>4, <1>5, TaskChanges
<1>9. Thins
  BY <1>6 DEF Thins
<1>10. \A p \in Positions : Claimants(p)' = Claimants(p)
  <2> TAKE p \in Positions
  <2>1. d \notin Claimants(p) /\ d \notin Claimants(p)'
    BY <1>2, <1>4, <1>8 DEF Claimants
  <2> QED
    BY <1>8, <2>1, RegistrarsMove
<1>11. task[d].records.generation = 0 /\ task[d].admission.generation = 0
  BY <1>1, <1>2 DEF Staged
<1>12. Staged(t)
  BY <1>1, <1>2, <1>4, <1>11 DEF Staged, Stored, Registering
<1>13. Own(d)' /\ Kept(d)'
  BY <1>4, <1>7, <1>8, <1>11 DEF Own, Owns, Kept
<1>14. ASSUME NEW e \in Deliveries \ {d} PROVE Own(e)' /\ Kept(e)'
  <2>1. Own(e) /\ Kept(e) /\ SameIds(e) /\ run' = run /\ UNCHANGED slot
    BY <1>6, <1>8 DEF RemoteInv, registryVars
  <2>2. Own(e)'
    BY <2>1, OwnElsewhere
  <2>3. Kept(e)'
    BY <1>7, <1>8, <2>1, RowsElsewhere
  <2> QED
    BY <2>2, <2>3
<1>15. RegistryTypeOK' /\ stopping' \in [phase : StopPhases, left : SUBSET Positions] /\ Shut' /\ Sorted'
       /\ \A p \in Positions : Excludes(p)'
  BY <1>1, <1>9, <1>10, ThinsType, ThinsShut, ThinsExcludes
<1> QED
  BY <1>2, <1>4, <1>5, <1>6, <1>7, <1>11, <1>12, <1>13, <1>14, <1>15, OneMoves

\* A position claimed by d, which held none.
LEMMA ClaimedExcludes ==
    ASSUME NEW s \in Sides, NEW p \in Positions, Claimed(s, p), NEW d \in Deliveries,
           \A q \in Positions : Excludes(q),
           \A e \in Deliveries \ {d} : task'[e] = task[e],
           \A q \in Positions : d \notin Claimants(q) /\ (d \in Claimants(q)' <=> q = p)
    PROVE  \A q \in Positions : Excludes(q)'
<1> TAKE q \in Positions
<1>1. Claimants(q)' \ {d} = Claimants(q) \ {d} /\ Excludes(q)
  BY RegistrarsMove
<1>2. UNCHANGED <<slot, returning, stopping>>
      /\ \A i, j \in DOMAIN free'[Side(q)] : free'[Side(q)][i] = q /\ free'[Side(q)][j] = q => i = j
  BY DEF Claimed
<1>3. CASE q = p
  <2>1. Claimants(q)' = {d} /\ q \notin returning /\ slot[q].entry = Vacant /\ ~Free(q)' /\ HandedOut(q)'
    BY <1>1, <1>3 DEF Claimed
  <2> QED
    BY <1>2, <2>1 DEF Excludes, Side
<1>4. CASE q # p
  <2>1. (Free(q)' <=> Free(q)) /\ (HandedOut(q)' <=> HandedOut(q))
    BY <1>4 DEF Claimed
  <2>2. d \notin Claimants(q) /\ d \notin Claimants(q)'
    BY <1>4
  <2>3. Claimants(q)' = Claimants(q)
    BY <1>1, <2>2
  <2> QED
    BY <1>1, <1>2, <2>1, <2>3 DEF Excludes, Side
<1> QED
  BY <1>3, <1>4

\* What a claim leaves alone.
LEMMA ClaimsRest ==
    ASSUME Limits, RemoteInv, NEW s \in Sides, NEW p \in Positions, Claim(s, p)
    PROVE  /\ Claimed(s, p) /\ RegistryTypeOK' /\ UNCHANGED slot
           /\ stopping' \in [phase : StopPhases, left : SUBSET Positions]
<1>1. Claimed(s, p)
  BY PopClaims, FreshClaims DEF Claim
<1>2. Shape /\ RegistryTypeOK
  BY DEF RemoteInv, Shape
<1> QED
  BY <1>1, <1>2 DEF Claimed, RegistryTypeOK, Shape

\* A delivery claims the position of its records.
LEMMA ClaimRecordsHolds ==
    ASSUME Limits, RemoteInv, NEW d \in Deliveries, ClaimRecords(d) PROVE RemoteInv'
<1>1. Shape /\ RegistryTypeOK /\ Staged(task[d]) /\ \A q \in Positions : Excludes(q)
  BY DEF RemoteInv, Shape
<1>2. task[d] \in Tasks /\ task[d].pc = "idle" /\ run \in Nat
  BY <1>1 DEF Shape, ClaimRecords, Limits
<1>3. PICK p \in Positions :
        /\ Claim("records", p)
        /\ task' = [task EXCEPT ![d] = [@ EXCEPT !.pc = "storing", !.run = run,
                      !.records = [position |-> p, generation |-> 0]]]
        /\ UNCHANGED <<run, settled, remote, watch, answers>>
  BY DEF ClaimRecords
<1>4. PICK id : id = [position |-> p, generation |-> 0]
  OBVIOUS
<1>5. id \in Identities /\ id.position = p /\ id.generation = 0
  BY <1>4 DEF Identities
<1>6. PICK t : t = [task[d] EXCEPT !.pc = "storing", !.run = run, !.records = id]
  OBVIOUS
<1>7. /\ t \in Tasks /\ t.pc = "storing" /\ t.run = run /\ t.records = id
      /\ t.admission = task[d].admission /\ t.heard = task[d].heard
  BY <1>2, <1>5, <1>6 DEF Tasks, TaskSteps
<1>8. task' = [task EXCEPT ![d] = t]
  BY <1>1, <1>3, <1>4, <1>6 DEF Shape
<1>9. task'[d] = t /\ \A e \in Deliveries \ {d} : task'[e] = task[e] /\ SameIds(e)
  BY <1>1, <1>7, <1>8, TaskChanges
<1>10. /\ Claimed("records", p) /\ RegistryTypeOK' /\ UNCHANGED slot
       /\ stopping' \in [phase : StopPhases, left : SUBSET Positions]
  BY <1>3, ClaimsRest DEF Sides
<1>11. Side(p) = "records" /\ Sorted' /\ Shut'
  BY <1>10 DEF Claimed
<1>12. \A q \in Positions : d \notin Claimants(q) /\ (d \in Claimants(q)' <=> q = p)
  BY <1>2, <1>5, <1>7, <1>9 DEF Claimants
<1>13. \A q \in Positions : Excludes(q)'
  BY <1>1, <1>9, <1>10, <1>12, ClaimedExcludes DEF Sides
<1>14. task[d].admission.generation = 0
  BY <1>1, <1>2 DEF Staged
<1>15. Staged(t)
  BY <1>2, <1>5, <1>7, <1>11, <1>14 DEF Staged, Stored, Registering
<1>16. Own(d)' /\ Kept(d)'
  BY <1>5, <1>7, <1>9, <1>14 DEF Own, Owns, Kept
<1>17. ASSUME NEW e \in Deliveries \ {d} PROVE Own(e)' /\ Kept(e)'
  <2>1. Own(e) /\ Kept(e) /\ SameIds(e) /\ run' = run /\ UNCHANGED <<slot, settled>>
    BY <1>3, <1>9, <1>10 DEF RemoteInv
  <2> QED
    BY <1>9, <2>1, OwnElsewhere, RowsElsewhere
<1>18. settled' \in [Deliveries -> [Rows -> Outcomes]] /\ UNCHANGED settled
  BY <1>1, <1>3 DEF Shape
<1> QED
  BY <1>2, <1>3, <1>7, <1>8, <1>10, <1>11, <1>13, <1>14, <1>15, <1>16, <1>17, <1>18, OneMoves

\* A delivery claims the position of its admission.
LEMMA ClaimAdmissionHolds ==
    ASSUME Limits, RemoteInv, NEW d \in Deliveries, ClaimAdmission(d) PROVE RemoteInv'
<1>1. Shape /\ RegistryTypeOK /\ Staged(task[d]) /\ \A q \in Positions : Excludes(q)
  BY DEF RemoteInv, Shape
<1>2. task[d] \in Tasks /\ task[d].pc = "stored" /\ run \in Nat
  BY <1>1 DEF Shape, ClaimAdmission, Limits
<1>3. PICK p \in Positions :
        /\ Claim("admission", p)
        /\ task' = [task EXCEPT ![d] = [@ EXCEPT !.pc = "asking",
                      !.admission = [position |-> p, generation |-> 0]]]
        /\ UNCHANGED <<run, settled, remote, watch, answers>>
  BY DEF ClaimAdmission
<1>4. PICK id : id = [position |-> p, generation |-> 0]
  OBVIOUS
<1>5. id \in Identities /\ id.position = p /\ id.generation = 0
  BY <1>4 DEF Identities
<1>6. PICK t : t = [task[d] EXCEPT !.pc = "asking", !.admission = id]
  OBVIOUS
<1>7. /\ t \in Tasks /\ t.pc = "asking" /\ t.run = task[d].run /\ t.records = task[d].records
      /\ t.admission = id /\ t.heard = task[d].heard
  BY <1>2, <1>5, <1>6 DEF Tasks, TaskSteps, Registering
<1>8. task' = [task EXCEPT ![d] = t]
  BY <1>1, <1>3, <1>4, <1>6 DEF Shape
<1>9. task'[d] = t /\ \A e \in Deliveries \ {d} : task'[e] = task[e] /\ SameIds(e)
  BY <1>1, <1>7, <1>8, TaskChanges
<1>10. /\ Claimed("admission", p) /\ RegistryTypeOK' /\ UNCHANGED slot
       /\ stopping' \in [phase : StopPhases, left : SUBSET Positions]
  BY <1>3, ClaimsRest DEF Sides
<1>11. Side(p) = "admission" /\ Sorted' /\ Shut'
  BY <1>10 DEF Claimed
<1>12. \A q \in Positions : d \notin Claimants(q) /\ (d \in Claimants(q)' <=> q = p)
  BY <1>2, <1>5, <1>7, <1>9 DEF Claimants
<1>13. \A q \in Positions : Excludes(q)'
  BY <1>1, <1>9, <1>10, <1>12, ClaimedExcludes DEF Sides
<1>14. task[d].admission.generation = 0 /\ task[d].records.generation # 0 /\ task[d].run = run
  BY <1>1, <1>2 DEF Staged, Stored, Registering
<1>15. Staged(t)
  BY <1>1, <1>2, <1>5, <1>7, <1>11, <1>14 DEF Staged, Stored, Registering
<1>16. Own(d)'
  <2>1. Own(d) /\ run' = run /\ UNCHANGED slot
    BY <1>3, <1>10 DEF RemoteInv
  <2> QED
    BY <1>5, <1>7, <1>9, <1>14, <2>1 DEF Own, Owns
<1>17. Kept(d)'
  <2>1. Kept(d) /\ run' = run /\ UNCHANGED <<slot, settled>>
    BY <1>3, <1>10 DEF RemoteInv
  <2>2. task'[d].records = task[d].records /\ task'[d].run = task[d].run
        /\ task[d].pc \notin {"idle", "storing"}
    BY <1>2, <1>7, <1>9
  <2> QED
    BY <2>1, <2>2 DEF Kept, RowFound, EntryRow, Found
<1>18. ASSUME NEW e \in Deliveries \ {d} PROVE Own(e)' /\ Kept(e)'
  <2>1. Own(e) /\ Kept(e) /\ SameIds(e) /\ run' = run /\ UNCHANGED <<slot, settled>>
    BY <1>3, <1>9, <1>10 DEF RemoteInv
  <2> QED
    BY <1>9, <2>1, OwnElsewhere, RowsElsewhere
<1>19. settled' \in [Deliveries -> [Rows -> Outcomes]] /\ UNCHANGED settled
  BY <1>1, <1>3 DEF Shape
<1> QED
  BY <1>2, <1>3, <1>7, <1>8, <1>10, <1>11, <1>13, <1>14, <1>15, <1>16, <1>17, <1>18, <1>19,
       OneMoves

\* The vacant position p is occupied under a new generation, or closed for good.
Grown(p) ==
    /\ slot' \in [Positions -> SlotStates]
    /\ \A q \in Positions \ {p} : slot'[q] = slot[q]
    /\ slot[p].entry = Vacant
    /\ \/ slot'[p].entry = Vacant /\ ~slot'[p].open /\ slot'[p].generation = slot[p].generation
       \/ slot'[p].entry # Vacant /\ slot[p].open /\ slot'[p].generation = slot[p].generation + 1
    /\ UNCHANGED <<free, queueOpen, claims, sealed, returning, stopping>>

\* Occupying a claimed position starts its next generation.
LEMMA OccupyGrows ==
    ASSUME RegistryTypeOK, Limits, NEW p \in Positions, slot[p].entry = Vacant,
           NEW e \in Entries, e # Vacant, Occupy(p, e)
    PROVE  /\ Grown(p) /\ slot'[p].entry = e /\ slot'[p].generation = NextGeneration(p)
           /\ slot'[p].open /\ NextGeneration(p) \in Nat \ {0}
<1>1. /\ slot[p] \in SlotStates /\ slot[p].open
      /\ slot[p].generation \in 0 .. MaxGeneration /\ slot[p].generation \in Nat
  BY SlotFields DEF Occupy, Occupiable
<1>2. PICK g : g = slot[p].generation + 1 /\ g \in 0 .. MaxGeneration /\ g \in Nat \ {0}
  BY <1>1 DEF Occupy, Occupiable, NextGeneration, Limits
<1>3. PICK h : h = [slot[p] EXCEPT !.generation = g, !.entry = e]
  OBVIOUS
<1>4. h \in SlotStates /\ h.open = slot[p].open /\ h.generation = g /\ h.entry = e
  BY <1>1, <1>2, <1>3 DEF SlotStates
<1>5. slot' = [slot EXCEPT ![p] = h]
  BY <1>2, <1>3 DEF Occupy, NextGeneration, RegistryTypeOK
<1>6. slot'[p] = h /\ slot' \in [Positions -> SlotStates]
      /\ \A q \in Positions \ {p} : slot'[q] = slot[q]
  BY <1>4, <1>5 DEF RegistryTypeOK
<1> QED
  BY <1>1, <1>2, <1>4, <1>6 DEF Grown, Occupy, NextGeneration

\* A position without another generation is closed.
LEMMA RefusedGrows ==
    ASSUME RegistryTypeOK, NEW p \in Positions, slot[p].entry = Vacant, OccupyRefused(p)
    PROVE  Grown(p) /\ slot'[p].entry = Vacant
<1>1. slot[p] \in SlotStates
  BY SlotFields
<1>2. PICK h : h = [slot[p] EXCEPT !.open = FALSE, !.entry = Vacant]
  OBVIOUS
<1>3. h \in SlotStates /\ ~h.open /\ h.generation = slot[p].generation /\ h.entry = Vacant
  BY <1>1, <1>2, VacantEntry DEF SlotStates
<1>4. slot' = [slot EXCEPT ![p] = h]
  BY <1>2 DEF OccupyRefused, RegistryTypeOK
<1>5. slot'[p] = h /\ slot' \in [Positions -> SlotStates]
      /\ \A q \in Positions \ {p} : slot'[q] = slot[q]
  BY <1>3, <1>4 DEF RegistryTypeOK
<1> QED
  BY <1>3, <1>5 DEF Grown, OccupyRefused

\* An identity handed out before is not met at a position that grew.
LEMMA GrownOwns ==
    ASSUME RegistryTypeOK, NEW p \in Positions, Grown(p), NEW d, NEW id \in Identities, NEW kind,
           id.generation # 0 => id.position \in Positions, Owns(d, id, kind)
    PROVE  id.generation # 0 =>
             /\ slot'[id.position].generation >= id.generation
             /\ slot'[id.position].generation = id.generation /\ slot'[id.position].entry # Vacant
                => slot'[id.position].entry.kind = kind /\ slot'[id.position].entry.delivery = d
<1> SUFFICES ASSUME id.generation # 0
             PROVE  /\ slot'[id.position].generation >= id.generation
                    /\ slot'[id.position].generation = id.generation /\ slot'[id.position].entry # Vacant
                       => slot'[id.position].entry.kind = kind /\ slot'[id.position].entry.delivery = d
  OBVIOUS
<1>1. CASE id.position # p
  BY <1>1 DEF Grown, Owns
<1>2. CASE id.position = p
  <2>1. id.generation \in Nat /\ slot[p].generation \in Nat /\ slot[p].generation >= id.generation
    BY <1>2, SlotFields DEF Identities, Owns
  <2> QED
    BY <1>2, <2>1 DEF Grown
<1> QED
  BY <1>1, <1>2

\* So every delivery still meets only what it was handed.
LEMMA GrownOwn ==
    ASSUME Shape, RegistryTypeOK, NEW p \in Positions, Grown(p), run' = run,
           NEW d \in Deliveries, SameIds(d), Staged(task[d]), Own(d)
    PROVE  Own(d)'
<1> SUFFICES ASSUME task'[d].run = run'
             PROVE  Owns(d, task[d].records, "records")' /\ Owns(d, task[d].admission, "admission")'
  BY DEF Own
<1>1. Owns(d, task[d].records, "records") /\ Owns(d, task[d].admission, "admission")
  BY DEF Own, SameIds
<1>2. /\ task[d].records \in Identities /\ task[d].admission \in Identities
      /\ task[d].records.generation # 0 => task[d].records.position \in Positions
      /\ task[d].admission.generation # 0 => task[d].admission.position \in Positions
  BY DEF Shape, Tasks, Staged
<1>3. task'[d].records = task[d].records /\ task'[d].admission = task[d].admission
  BY DEF SameIds
<1>4. Owns(d, task[d].records, "records")'
  <2>1. task[d].records.generation # 0 =>
          /\ slot'[task[d].records.position].generation >= task[d].records.generation
          /\ slot'[task[d].records.position].generation = task[d].records.generation
             /\ slot'[task[d].records.position].entry # Vacant
             => /\ slot'[task[d].records.position].entry.kind = "records"
                /\ slot'[task[d].records.position].entry.delivery = d
    BY <1>1, <1>2, GrownOwns
  <2> QED
    BY <1>3, <2>1 DEF Owns
<1>5. Owns(d, task[d].admission, "admission")'
  <2>1. task[d].admission.generation # 0 =>
          /\ slot'[task[d].admission.position].generation >= task[d].admission.generation
          /\ slot'[task[d].admission.position].generation = task[d].admission.generation
             /\ slot'[task[d].admission.position].entry # Vacant
             => /\ slot'[task[d].admission.position].entry.kind = "admission"
                /\ slot'[task[d].admission.position].entry.delivery = d
    BY <1>1, <1>2, GrownOwns
  <2> QED
    BY <1>3, <2>1 DEF Owns
<1> QED
  BY <1>4, <1>5

\* The registrar's claim becomes the occupation, or ends with the position.
LEMMA GrownExcludes ==
    ASSUME NEW p \in Positions, Grown(p), NEW d \in Deliveries, \A q \in Positions : Excludes(q),
           \A e \in Deliveries \ {d} : task'[e] = task[e],
           \A q \in Positions : d \notin Claimants(q)' /\ (d \in Claimants(q) <=> q = p)
    PROVE  \A q \in Positions : Excludes(q)'
<1> TAKE q \in Positions
<1>1. Claimants(q)' \ {d} = Claimants(q) \ {d} /\ Excludes(q)
  BY RegistrarsMove
<1>2. UNCHANGED <<free, claims, returning, stopping>>
  BY DEF Grown
<1>3. (Free(q)' <=> Free(q)) /\ (HandedOut(q)' <=> HandedOut(q)) /\ UNCHANGED free[Side(q)]
  BY <1>2 DEF Free, HandedOut, Side
<1>4. CASE q = p
  <2>1. d \in Claimants(q) /\ d \notin Claimants(q)'
    BY <1>4
  <2>2. /\ Claimants(q)' = {} /\ ~Free(q) /\ q \notin returning /\ HandedOut(q)
    <3>1. \A e \in Claimants(q) : e = d
      BY <1>1, <2>1 DEF Excludes
    <3>2. Claimants(q)' = {}
      BY <1>1, <2>1, <3>1
    <3> QED
      BY <1>1, <2>1, <3>2 DEF Excludes
  <2>3. slot'[q].entry # Vacant \/ ~slot'[q].open
    BY <1>4 DEF Grown
  <2> QED
    BY <1>1, <1>2, <1>3, <2>2, <2>3 DEF Excludes
<1>5. CASE q # p
  <2>1. d \notin Claimants(q) /\ d \notin Claimants(q)'
    BY <1>5
  <2>2. Claimants(q)' = Claimants(q)
    BY <1>1, <2>1
  <2>3. slot'[q] = slot[q]
    BY <1>5 DEF Grown
  <2> QED
    BY <1>1, <1>2, <1>3, <2>2, <2>3 DEF Excludes
<1> QED
  BY <1>4, <1>5

\* A position that shutdown closed is not occupied again.
LEMMA GrownShut ==
    ASSUME Shape, RegistryTypeOK, NEW p \in Positions, Grown(p), Shut, Sorted
    PROVE  /\ Shut' /\ Sorted' /\ RegistryTypeOK'
           /\ stopping' \in [phase : StopPhases, left : SUBSET Positions]
<1>1. UNCHANGED <<free, queueOpen, claims, sealed, returning, stopping>>
  BY DEF Grown
<1>2. \A q \in Positions : HandedOut(q)' <=> HandedOut(q)
  BY <1>1 DEF HandedOut, Side
<1>3. \A q \in Positions :
        ~slot[q].open /\ slot[q].entry = Vacant => ~slot'[q].open /\ slot'[q].entry = Vacant
  BY DEF Grown
<1>4. RegistryTypeOK' /\ stopping' \in [phase : StopPhases, left : SUBSET Positions]
  BY <1>1 DEF Grown, RegistryTypeOK, Shape
<1> QED
  BY <1>1, <1>2, <1>3, <1>4 DEF Shut, Sorted, Side

\* The other deliveries, when the position of a registrar grows.
LEMMA GrownOthers ==
    ASSUME RemoteInv, NEW p \in Positions, Grown(p), run' = run, NEW d \in Deliveries,
           task'[d] = task[d], UNCHANGED settled[d]
    PROVE  Own(d)' /\ Kept(d)'
<1>1. Shape /\ RegistryTypeOK /\ Own(d) /\ Kept(d) /\ Staged(task[d]) /\ SameIds(d)
  BY DEF RemoteInv, Shape, SameIds
<1>2. Own(d)'
  BY <1>1, GrownOwn
<1>3. slot[p].entry = Vacant
  BY DEF Grown
<1>4. ASSUME NEW r \in Rows, task'[d].pc \notin {"idle", "storing"}, settled'[d][r] = "pending"
      PROVE  /\ task'[d].run = run' /\ task'[d].records.generation # 0
             /\ RowFound(task[d].records, r)'
  <2>1. /\ task[d].run = run /\ task[d].records.generation # 0 /\ RowFound(task[d].records, r)
    BY <1>1, <1>4 DEF Kept
  <2>2. slot[task[d].records.position].entry # Vacant /\ task[d].records.position \in Positions
    BY <1>1, <2>1 DEF RowFound, EntryRow, Found, Staged
  <2>3. slot'[task[d].records.position] = slot[task[d].records.position]
    BY <1>3, <2>2 DEF Grown
  <2> QED
    BY <2>1, <2>3 DEF RowFound, EntryRow, Found
<1> QED
  BY <1>2, <1>4 DEF Kept

\* The records of a delivery that has just stored them.
LEMMA WaitingRows ==
    ASSUME Limits, NEW d \in Deliveries, NEW e, e = Records(d, [r \in Rows |-> Waiting])
    PROVE  /\ e \in Entries /\ e # Vacant /\ e.kind = "records" /\ e.delivery = d
           /\ \A r \in Rows : e.rows[r] # NoRow
<1>1. PICK rows : rows = [r \in Rows |-> Waiting]
  OBVIOUS
<1>2. Waiting \in RowStates
  BY DEF Waiting, RowStates, Phases, Limits
<1>3. Waiting # NoRow
  <2>1. Waiting.phase = "awaiting" /\ NoRow.phase = "none"
    BY DEF Waiting, NoRow
  <2> QED
    BY <2>1
<1>4. rows \in [Rows -> RowStates] /\ \A r \in Rows : rows[r] # NoRow
  BY <1>1, <1>2, <1>3
<1> QED
  BY <1>1, <1>4, RecordsEntry

\* The entry of an admission.
LEMMA AdmissionEntry ==
    ASSUME NEW d \in Deliveries, NEW e, e = [kind |-> "admission", delivery |-> d]
    PROVE  e \in Entries /\ e # Vacant /\ e.kind = "admission" /\ e.delivery = d
<1>1. e.kind = "admission" /\ e.delivery = d /\ e \in [kind : {"admission"}, delivery : Deliveries]
  OBVIOUS
<1> QED
  BY <1>1, VacantEntry DEF Entries

\* A delivery stores its records where it claimed, or is refused.
LEMMA StoreRecordsHolds ==
    ASSUME Limits, RemoteInv, NEW d \in Deliveries, StoreRecords(d) PROVE RemoteInv'
<1>1. Shape /\ RegistryTypeOK /\ Shut /\ Sorted /\ Staged(task[d]) /\ \A q \in Positions : Excludes(q)
  BY DEF RemoteInv, Shape
<1>2. task[d] \in Tasks /\ task[d].pc = "storing" /\ UNCHANGED <<run, remote, watch, answers>>
  BY <1>1 DEF Shape, StoreRecords
<1>3. PICK p \in Positions : p = task[d].records.position
  BY <1>1, <1>2 DEF Staged
<1>4. \A q \in Positions : d \in Claimants(q) <=> q = p
  BY <1>2, <1>3 DEF Claimants
<1>5. slot[p].entry = Vacant
  BY <1>1, <1>4 DEF Excludes
<1>6. task[d].records.generation = 0 /\ task[d].admission.generation = 0 /\ task[d].run = run
  BY <1>1, <1>2 DEF Staged
<1>7. CASE /\ Occupy(p, Records(d, [r \in Rows |-> Waiting]))
           /\ task' = [task EXCEPT ![d] = [@ EXCEPT !.pc = "stored",
                        !.records = [position |-> p, generation |-> NextGeneration(p)]]]
           /\ UNCHANGED settled
  <2>1. PICK e : e = Records(d, [r \in Rows |-> Waiting])
    OBVIOUS
  <2>2. /\ e \in Entries /\ e # Vacant /\ e.kind = "records" /\ e.delivery = d
        /\ \A r \in Rows : e.rows[r] # NoRow
    BY <2>1, WaitingRows
  <2>3. /\ Grown(p) /\ slot'[p].entry = e /\ slot'[p].generation = NextGeneration(p)
        /\ slot'[p].open /\ NextGeneration(p) \in Nat \ {0}
    BY <1>1, <1>5, <1>7, <2>1, <2>2, OccupyGrows
  <2>4. PICK id : id = [position |-> p, generation |-> NextGeneration(p)]
    OBVIOUS
  <2>5. id \in Identities /\ id.position = p /\ id.generation = NextGeneration(p)
    BY <2>3, <2>4 DEF Identities
  <2>6. PICK t : t = [task[d] EXCEPT !.pc = "stored", !.records = id]
    OBVIOUS
  <2>7. /\ t \in Tasks /\ t.pc = "stored" /\ t.run = run /\ t.records = id
        /\ t.admission = task[d].admission /\ t.heard = task[d].heard
    BY <1>2, <1>6, <2>5, <2>6 DEF Tasks, TaskSteps, Registering
  <2>8. task' = [task EXCEPT ![d] = t]
    BY <1>1, <1>7, <2>4, <2>6 DEF Shape
  <2>9. task'[d] = t /\ \A f \in Deliveries \ {d} : task'[f] = task[f] /\ SameIds(f)
    BY <1>1, <2>7, <2>8, TaskChanges
  <2>10. \A q \in Positions : d \notin Claimants(q)'
    BY <2>7, <2>9 DEF Claimants
  <2>11. \A q \in Positions : Excludes(q)'
    BY <1>1, <1>4, <2>3, <2>9, <2>10, GrownExcludes
  <2>12. Staged(t)
    BY <1>1, <1>6, <2>3, <2>5, <2>7 DEF Staged, Stored, Registering
  <2>13. Own(d)'
    BY <1>6, <2>2, <2>3, <2>5, <2>7, <2>9 DEF Own, Owns
  <2>14. Kept(d)'
    BY <1>2, <2>2, <2>3, <2>5, <2>7, <2>9 DEF Kept, RowFound, EntryRow, Found
  <2>15. \A f \in Deliveries \ {d} : Own(f)' /\ Kept(f)'
    BY <1>2, <1>7, <2>3, <2>9, GrownOthers
  <2>16. settled' \in [Deliveries -> [Rows -> Outcomes]] /\ UNCHANGED settled
    BY <1>1, <1>7 DEF Shape
  <2>17. Shut' /\ Sorted' /\ RegistryTypeOK' /\ stopping' \in [phase : StopPhases, left : SUBSET Positions]
    BY <1>1, <2>3, GrownShut
  <2> QED
    BY <1>2, <1>6, <2>7, <2>8, <2>11, <2>12, <2>13, <2>14, <2>15, <2>16, <2>17, OneMoves
<1>8. CASE OccupyRefused(p) /\ task' = Step(d, "undelivered") /\ settled' = SettleAll(d, "refused")
  <2>1. Grown(p)
    BY <1>1, <1>5, <1>8, RefusedGrows
  <2>2. PICK t : t = [task[d] EXCEPT !.pc = "undelivered"]
    OBVIOUS
  <2>3. /\ t \in Tasks /\ t.pc = "undelivered" /\ t.run = run /\ t.records = task[d].records
        /\ t.admission = task[d].admission /\ t.heard = task[d].heard
    BY <1>2, <1>6, <2>2 DEF Tasks, TaskSteps
  <2>4. task' = [task EXCEPT ![d] = t]
    BY <1>1, <1>8, <2>2 DEF Step, Shape
  <2>5. task'[d] = t /\ \A f \in Deliveries \ {d} : task'[f] = task[f] /\ SameIds(f)
    BY <1>1, <2>3, <2>4, TaskChanges
  <2>6. \A q \in Positions : d \notin Claimants(q)'
    BY <2>3, <2>5 DEF Claimants
  <2>7. \A q \in Positions : Excludes(q)'
    BY <1>1, <1>4, <2>1, <2>5, <2>6, GrownExcludes
  <2>8. Staged(t)
    BY <1>1, <1>6, <2>3 DEF Staged, Stored, Registering
  <2>9. /\ settled' \in [Deliveries -> [Rows -> Outcomes]]
        /\ \A r \in Rows : settled'[d][r] = "refused"
        /\ \A f \in Deliveries \ {d} : settled'[f] = settled[f]
    BY <1>1, <1>8, SettleAllOf DEF Outcomes
  <2>10. Own(d)' /\ Kept(d)'
    BY <1>6, <2>3, <2>5, <2>9 DEF Own, Owns, Kept
  <2>11. \A f \in Deliveries \ {d} : Own(f)' /\ Kept(f)'
    BY <1>2, <2>1, <2>5, <2>9, GrownOthers
  <2>12. Shut' /\ Sorted' /\ RegistryTypeOK' /\ stopping' \in [phase : StopPhases, left : SUBSET Positions]
    BY <1>1, <2>1, GrownShut
  <2> QED
    BY <1>2, <1>6, <2>3, <2>4, <2>7, <2>8, <2>9, <2>10, <2>11, <2>12, OneMoves
<1> QED
  BY <1>3, <1>7, <1>8 DEF StoreRecords

\* A delivery registers its admission where it claimed, or clears its rows.
LEMMA RegisterAdmissionHolds ==
    ASSUME Limits, RemoteInv, NEW d \in Deliveries, RegisterAdmission(d) PROVE RemoteInv'
<1>1. Shape /\ RegistryTypeOK /\ Shut /\ Sorted /\ Staged(task[d]) /\ \A q \in Positions : Excludes(q)
  BY DEF RemoteInv, Shape
<1>2. task[d] \in Tasks /\ task[d].pc = "asking" /\ UNCHANGED <<run, settled, remote, watch, answers>>
  BY <1>1 DEF Shape, RegisterAdmission
<1>3. PICK p \in Positions : p = task[d].admission.position
  BY <1>1, <1>2 DEF Staged
<1>4. \A q \in Positions : d \in Claimants(q) <=> q = p
  BY <1>2, <1>3 DEF Claimants
<1>5. slot[p].entry = Vacant
  BY <1>1, <1>4 DEF Excludes
<1>6. task[d].records.generation # 0 /\ task[d].admission.generation = 0 /\ task[d].run = run
      /\ task[d].records.position \in Positions /\ task[d].records \in Identities
  BY <1>1, <1>2 DEF Staged, Stored, Registering, Tasks
<1>7. ASSUME NEW t \in Tasks, Grown(p), task' = [task EXCEPT ![d] = t], t.pc \in {"sending", "clearing"},
             t.run = run, t.records = task[d].records, t.heard = task[d].heard, Staged(t),
             Owns(d, t.admission, "admission")' \/ t.admission.generation = 0
      PROVE  RemoteInv'
  <2>1. task'[d] = t /\ \A f \in Deliveries \ {d} : task'[f] = task[f] /\ SameIds(f)
    BY <1>1, <1>7, TaskChanges
  <2>2. \A q \in Positions : d \notin Claimants(q)'
    BY <1>7, <2>1 DEF Claimants
  <2>3. \A q \in Positions : Excludes(q)'
    BY <1>1, <1>4, <1>7, <2>1, <2>2, GrownExcludes
  <2>4. Owns(d, task[d].records, "records") /\ Kept(d)
    BY <1>6 DEF RemoteInv, Own
  <2>5. Owns(d, task[d].records, "records")'
    <3>1. PICK id \in Identities : id = task[d].records /\ id.position \in Positions
      BY <1>6
    <3>2. Owns(d, id, "records") /\ task'[d].records = id
      BY <1>7, <2>1, <2>4, <3>1
    <3>3. id.generation # 0 =>
            /\ slot'[id.position].generation >= id.generation
            /\ slot'[id.position].generation = id.generation /\ slot'[id.position].entry # Vacant
               => slot'[id.position].entry.kind = "records" /\ slot'[id.position].entry.delivery = d
      BY <1>1, <1>7, <3>1, <3>2, GrownOwns
    <3> QED
      BY <3>2, <3>3 DEF Owns
  <2>6. Own(d)'
    <3>1. task'[d].admission = t.admission
      BY <2>1
    <3>2. Owns(d, t.admission, "admission")'
      BY <1>7 DEF Owns
    <3> QED
      BY <2>5, <3>1, <3>2 DEF Own
  <2>7. Kept(d)'
    <3>1. ASSUME NEW r \in Rows, settled'[d][r] = "pending"
          PROVE  RowFound(task[d].records, r)'
      <4>1. RowFound(task[d].records, r)
        BY <1>2, <2>4, <3>1 DEF Kept
      <4>2. slot[task[d].records.position].entry # Vacant
        BY <4>1 DEF RowFound, EntryRow, Found
      <4>3. slot'[task[d].records.position] = slot[task[d].records.position]
        BY <1>5, <1>6, <1>7, <4>2 DEF Grown
      <4> QED
        BY <1>7, <2>1, <4>1, <4>3 DEF RowFound, EntryRow, Found
    <3> QED
      BY <1>2, <1>6, <1>7, <2>1, <3>1 DEF Kept
  <2>8. \A f \in Deliveries \ {d} : Own(f)' /\ Kept(f)'
    BY <1>2, <1>7, <2>1, GrownOthers
  <2>9. settled' \in [Deliveries -> [Rows -> Outcomes]] /\ UNCHANGED settled
    BY <1>1, <1>2 DEF Shape
  <2>10. Shut' /\ Sorted' /\ RegistryTypeOK' /\ stopping' \in [phase : StopPhases, left : SUBSET Positions]
    BY <1>1, <1>7, GrownShut
  <2> QED
    BY <1>2, <1>6, <1>7, <2>3, <2>6, <2>7, <2>8, <2>9, <2>10, OneMoves
<1>8. CASE /\ Occupy(p, [kind |-> "admission", delivery |-> d])
           /\ task' = [task EXCEPT ![d] = [@ EXCEPT !.pc = "sending",
                        !.admission = [position |-> p, generation |-> NextGeneration(p)]]]
  <2>1. PICK e : e = [kind |-> "admission", delivery |-> d]
    OBVIOUS
  <2>2. e \in Entries /\ e # Vacant /\ e.kind = "admission" /\ e.delivery = d
    BY <2>1, AdmissionEntry
  <2>3. /\ Grown(p) /\ slot'[p].entry = e /\ slot'[p].generation = NextGeneration(p)
        /\ slot'[p].open /\ NextGeneration(p) \in Nat \ {0}
    BY <1>1, <1>5, <1>8, <2>1, <2>2, OccupyGrows
  <2>4. PICK id : id = [position |-> p, generation |-> NextGeneration(p)]
    OBVIOUS
  <2>5. id \in Identities /\ id.position = p /\ id.generation = NextGeneration(p)
    BY <2>3, <2>4 DEF Identities
  <2>6. PICK t : t = [task[d] EXCEPT !.pc = "sending", !.admission = id]
    OBVIOUS
  <2>7. /\ t \in Tasks /\ t.pc = "sending" /\ t.run = run /\ t.records = task[d].records
        /\ t.admission = id /\ t.heard = task[d].heard
    BY <1>2, <1>6, <2>5, <2>6 DEF Tasks, TaskSteps, Registering
  <2>8. task' = [task EXCEPT ![d] = t]
    BY <1>1, <1>8, <2>4, <2>6 DEF Shape
  <2>9. Staged(t)
    BY <1>1, <1>6, <2>3, <2>5, <2>7 DEF Staged, Stored, Registering
  <2>10. slot'[id.position].generation = id.generation /\ slot'[id.position].entry.kind = "admission"
         /\ slot'[id.position].entry.delivery = d /\ id.generation \in Nat
    BY <2>2, <2>3, <2>5
  <2>11. Owns(d, t.admission, "admission")'
    BY <2>7, <2>10 DEF Owns
  <2> QED
    BY <1>7, <2>3, <2>7, <2>8, <2>9, <2>11
<1>9. CASE OccupyRefused(p) /\ task' = Step(d, "clearing")
  <2>1. Grown(p)
    BY <1>1, <1>5, <1>9, RefusedGrows
  <2>2. PICK t : t = [task[d] EXCEPT !.pc = "clearing"]
    OBVIOUS
  <2>3. /\ t \in Tasks /\ t.pc = "clearing" /\ t.run = run /\ t.records = task[d].records
        /\ t.admission = task[d].admission /\ t.heard = task[d].heard
    BY <1>2, <1>6, <2>2 DEF Tasks, TaskSteps, Registering
  <2>4. task' = [task EXCEPT ![d] = t]
    BY <1>1, <1>9, <2>2 DEF Step, Shape
  <2>5. Staged(t)
    BY <1>1, <1>6, <2>3 DEF Staged, Stored, Registering
  <2> QED
    BY <1>6, <1>7, <2>1, <2>3, <2>4, <2>5
<1> QED
  BY <1>3, <1>8, <1>9 DEF RegisterAdmission

\* What does not change while the deliveries rest and the slots stay as they are.
LEMMA RegistryMoves ==
    ASSUME Limits, RemoteInv, UNCHANGED deliveryVars, UNCHANGED slot, RegistryTypeOK',
           stopping' \in [phase : StopPhases, left : SUBSET Positions],
           Sorted', Shut', \A p \in Positions : Excludes(p)'
    PROVE  RemoteInv'
<1>1. Shape /\ \A d \in Deliveries : Staged(task[d]) /\ Own(d) /\ Kept(d)
  BY DEF RemoteInv
<1>2. UNCHANGED <<run, task, settled, remote, watch, answers>>
  BY DEF deliveryVars
<1>3. /\ task' \in [Deliveries -> Tasks] /\ settled' \in [Deliveries -> [Rows -> Outcomes]]
      /\ run' \in 1 .. MaxRuns
  BY <1>1, <1>2 DEF Shape
<1>4. \A d \in Deliveries : SameIds(d)
  BY <1>2 DEF SameIds
<1>5. \A d \in Deliveries : Staged(task[d])' /\ Own(d)' /\ Kept(d)'
  <2> TAKE d \in Deliveries
  <2>1. Staged(task[d])'
    BY <1>1, <1>2 DEF Staged
  <2>2. Own(d)'
    BY <1>1, <1>2, <1>4, OwnElsewhere
  <2>3. Kept(d)'
    BY <1>1, <1>2, <1>4, RowsElsewhere
  <2> QED
    BY <2>1, <2>2, <2>3
<1>6. Settles
  BY <1>2 DEF Settles
<1>7. \A d \in Deliveries : Follows(task[d].pc, task'[d].pc) /\ task'[d].heard = task[d].heard
  BY <1>2 DEF Follows
<1> QED
  BY <1>2, <1>3, <1>4, <1>5, <1>6, <1>7, Moving

\* An emptied position goes back to its queue, unless shutdown closed that.
LEMMA RecycleHolds ==
    ASSUME Limits, RemoteInv, NEW p \in Positions, Recycle(p), UNCHANGED deliveryVars
    PROVE  RemoteInv'
<1>1. Shape /\ Sorted /\ Shut /\ RegistryTypeOK /\ \A q \in Positions : Excludes(q)
  BY DEF RemoteInv, Shape
<1>2. /\ p \in returning /\ returning' = returning \ {p} /\ UNCHANGED task
      /\ UNCHANGED <<slot, queueOpen, claims, sealed, stopping>>
  BY DEF Recycle, deliveryVars
<1>3. ~Free(p) /\ Claimants(p) = {} /\ slot[p].entry = Vacant /\ HandedOut(p) /\ Side(p) \in Sides
  BY <1>1, <1>2, PositionSide DEF Excludes
<1>4. \A q \in Positions : Claimants(q)' = Claimants(q) /\ (HandedOut(q)' <=> HandedOut(q))
  BY <1>2 DEF Claimants, HandedOut, Side
<1>5. stopping' \in [phase : StopPhases, left : SUBSET Positions] /\ Shut'
  BY <1>1, <1>2, <1>4 DEF Shape, Shut
<1>6. CASE queueOpen[Side(p)]
  <2>1. PICK s \in Sides : s = Side(p)
    BY <1>3
  <2>2. PICK f : f = free[s] /\ f \in Seq(Positions)
    BY <1>1, <2>1 DEF RegistryTypeOK
  <2>3. PICK g : g = Append(f, p)
    OBVIOUS
  <2>4. free' = [free EXCEPT ![s] = g]
    BY <1>1, <1>6, <2>1, <2>2, <2>3 DEF Recycle, RegistryTypeOK
  <2>5. /\ g \in Seq(Positions) /\ Len(g) = Len(f) + 1 /\ Len(f) \in Nat
        /\ DOMAIN g = 1 .. Len(g) /\ DOMAIN f = 1 .. Len(f) /\ g[Len(f) + 1] = p
        /\ \A i \in 1 .. Len(f) : g[i] = f[i]
    BY <2>2, <2>3, AppendProperties
  <2>6. free' \in [Sides -> Seq(Positions)] /\ free'[s] = g /\ \A u \in Sides \ {s} : free'[u] = free[u]
    BY <1>1, <2>4, <2>5 DEF RegistryTypeOK
  <2>7. \A i \in DOMAIN f : f[i] # p
    BY <1>3, <2>1, <2>2 DEF Free
  <2>8. Sorted'
    <3>1. \A i \in DOMAIN g : Side(g[i]) = s
      BY <1>1, <2>1, <2>2, <2>5 DEF Sorted
    <3> QED
      BY <1>1, <2>6, <3>1 DEF Sorted, Side
  <2>9. ASSUME NEW q \in Positions PROVE Excludes(q)'
    <3>1. Side(q) \in Sides /\ Excludes(q)
      BY <1>1, PositionSide
    <3>2. CASE q = p
      <4>1. Free(q)'
        <5>1. Len(f) + 1 \in DOMAIN g /\ g[Len(f) + 1] = q
          BY <2>5, <3>2
        <5> QED
          BY <2>1, <2>6, <3>2, <5>1 DEF Free, Side
      <4>2. \A i, j \in DOMAIN free'[Side(q)] : free'[Side(q)][i] = q /\ free'[Side(q)][j] = q => i = j
        <5>1. \A i \in DOMAIN g : g[i] = p => i = Len(f) + 1
          BY <2>5, <2>7
        <5> QED
          BY <2>1, <2>6, <3>2, <5>1
      <4>3. Claimants(q)' = {} /\ q \notin returning' /\ slot'[q].entry = Vacant /\ HandedOut(q)'
        BY <1>2, <1>3, <1>4, <3>2
      <4> QED
        BY <4>1, <4>2, <4>3 DEF Excludes, Side
    <3>3. CASE q # p
      <4>1. q \in returning' <=> q \in returning
        BY <1>2, <3>3
      <4>2. (Free(q)' <=> Free(q))
            /\ \A i, j \in DOMAIN free'[Side(q)] : free'[Side(q)][i] = q /\ free'[Side(q)][j] = q => i = j
        <5>1. CASE Side(q) # s
          <6>1. free'[Side(q)] = free[Side(q)]
            BY <2>6, <3>1, <5>1
          <6> QED
            BY <3>1, <6>1 DEF Free, Side, Excludes
        <5>2. CASE Side(q) = s
          <6>1. \A i \in DOMAIN g : g[i] = q => i \in DOMAIN f /\ f[i] = q
            BY <2>5, <3>3
          <6>2. \A i \in DOMAIN f : i \in DOMAIN g /\ g[i] = f[i]
            BY <2>5
          <6>3. \A i, j \in DOMAIN f : f[i] = q /\ f[j] = q => i = j
            BY <2>2, <3>1, <5>2 DEF Excludes
          <6>4. Free(q)' <=> Free(q)
            BY <2>2, <2>6, <5>2, <6>1, <6>2 DEF Free, Side
          <6> QED
            BY <2>6, <5>2, <6>1, <6>3, <6>4
        <5> QED
          BY <5>1, <5>2
      <4> QED
        BY <1>2, <1>4, <3>1, <4>1, <4>2 DEF Excludes, Side
    <3> QED
      BY <3>2, <3>3
  <2>10. RegistryTypeOK'
    BY <1>1, <1>2, <2>6 DEF RegistryTypeOK
  <2> QED
    BY <1>2, <1>5, <2>8, <2>9, <2>10, RegistryMoves
<1>7. CASE ~queueOpen[Side(p)]
  <2>1. UNCHANGED free /\ stopping.phase # "running"
    BY <1>1, <1>3, <1>7 DEF Recycle, Shut
  <2>2. Sorted' /\ RegistryTypeOK'
    BY <1>1, <1>2, <2>1 DEF Sorted, RegistryTypeOK, Side
  <2>3. ASSUME NEW q \in Positions PROVE Excludes(q)'
    <3>1. Excludes(q) /\ (Free(q)' <=> Free(q)) /\ UNCHANGED free[Side(q)]
      BY <1>1, <2>1 DEF Free, Side
    <3>2. q \in returning' => q \in returning
      BY <1>2
    <3> QED
      BY <1>2, <1>4, <2>1, <3>1, <3>2 DEF Excludes
  <2> QED
    BY <1>2, <1>5, <2>2, <2>3, RegistryMoves
<1> QED
  BY <1>6, <1>7

\* Shutdown goes on without touching a position.
LEMMA Stops ==
    ASSUME Limits, RemoteInv, UNCHANGED deliveryVars, UNCHANGED <<slot, free, claims, returning>>,
           stopping' \in [phase : StopPhases, left : SUBSET Positions],
           queueOpen' \in [Sides -> BOOLEAN], sealed' \in [Sides -> BOOLEAN],
           Shut', stopping'.phase # "running"
    PROVE  RemoteInv'
<1>1. Shape /\ Sorted /\ RegistryTypeOK /\ \A q \in Positions : Excludes(q)
  BY DEF RemoteInv, Shape
<1>2. RegistryTypeOK' /\ Sorted'
  BY <1>1 DEF RegistryTypeOK, Sorted, Side
<1>3. ASSUME NEW q \in Positions PROVE Excludes(q)'
  <2>1. Excludes(q) /\ Claimants(q)' = Claimants(q) /\ (HandedOut(q)' <=> HandedOut(q))
        /\ (Free(q)' <=> Free(q)) /\ UNCHANGED free[Side(q)]
    BY <1>1 DEF Claimants, HandedOut, Free, Side, deliveryVars
  <2> QED
    BY <2>1 DEF Excludes
<1> QED
  BY <1>2, <1>3, RegistryMoves

\* The seals, the closing of the queues and the end of the scan.
LEMMA StopStepsHold ==
    ASSUME Limits, RemoteInv, UNCHANGED deliveryVars, SealClaims \/ CloseQueues \/ EndShutdown
    PROVE  RemoteInv'
<1>1. Shape /\ Shut /\ RegistryTypeOK
  BY DEF RemoteInv, Shape
<1>2. /\ stopping \in [phase : StopPhases, left : SUBSET Positions] /\ stopping.left \subseteq Positions
      /\ sealed \in [Sides -> BOOLEAN] /\ queueOpen \in [Sides -> BOOLEAN]
  BY <1>1 DEF Shape, RegistryTypeOK
<1>3. UNCHANGED <<slot, free, claims, returning>>
  BY DEF SealClaims, CloseQueues, EndShutdown
<1>4. \A q \in Positions : HandedOut(q)' <=> HandedOut(q)
  BY <1>3 DEF HandedOut, Side
<1>5. CASE /\ stopping.phase = "running"
           /\ sealed' = [sealed EXCEPT !["records"] = TRUE]
           /\ stopping' = [stopping EXCEPT !.phase = "sealedRecords"] /\ UNCHANGED queueOpen
  <2>1. /\ stopping' \in [phase : StopPhases, left : SUBSET Positions]
        /\ stopping'.phase = "sealedRecords"
    BY <1>2, <1>5 DEF StopPhases
  <2>2. sealed' \in [Sides -> BOOLEAN] /\ sealed'["records"]
    BY <1>2, <1>5 DEF Sides
  <2>3. Shut'
    BY <2>1, <2>2 DEF Shut
  <2> QED
    BY <1>2, <1>3, <1>5, <2>1, <2>2, <2>3, Stops
<1>6. CASE /\ stopping.phase = "sealedRecords"
           /\ sealed' = [sealed EXCEPT !["admission"] = TRUE]
           /\ stopping' = [phase |-> "sealed", left |-> ClaimedPositions] /\ UNCHANGED queueOpen
  <2>1. /\ stopping' \in [phase : StopPhases, left : SUBSET Positions]
        /\ stopping'.phase = "sealed" /\ stopping'.left = ClaimedPositions
    BY <1>6 DEF StopPhases, ClaimedPositions
  <2>2. sealed' \in [Sides -> BOOLEAN] /\ sealed'["records"] /\ sealed'["admission"]
    BY <1>1, <1>2, <1>6 DEF Sides, Shut
  <2>3. Shut'
    BY <1>4, <2>1, <2>2 DEF Shut, ClaimedPositions
  <2> QED
    BY <1>2, <1>3, <1>6, <2>1, <2>2, <2>3, Stops
<1>7. ASSUME stopping.phase \in {"sealed", "closedRecords", "ending"}, UNCHANGED sealed,
             queueOpen' \in [Sides -> BOOLEAN],
             NEW phase \in {"closedRecords", "ending", "ended"},
             stopping' = [stopping EXCEPT !.phase = phase], phase = "ended" => stopping.left = {}
      PROVE  RemoteInv'
  <2>1. /\ stopping' \in [phase : StopPhases, left : SUBSET Positions]
        /\ stopping'.phase = phase /\ stopping'.left = stopping.left
    BY <1>2, <1>7 DEF StopPhases
  <2>2. Shut'
    BY <1>1, <1>3, <1>4, <1>7, <2>1 DEF Shut
  <2> QED
    BY <1>2, <1>3, <1>7, <2>1, <2>2, Stops
<1>8. CASE SealClaims
  BY <1>5, <1>6, <1>8 DEF SealClaims
<1>9. CASE CloseQueues
  <2>1. queueOpen' \in [Sides -> BOOLEAN]
    BY <1>2, <1>9 DEF CloseQueues
  <2> QED
    BY <1>7, <1>9, <2>1 DEF CloseQueues
<1>10. CASE EndShutdown
  BY <1>2, <1>7, <1>10 DEF EndShutdown
<1> QED
  BY <1>8, <1>9, <1>10

\* The scan ends a position, the rows of its records and the wait for its admission.
EndsAt(p) ==
    LET entry == slot[p].entry IN
    /\ EndPosition(p)
    /\ settled' = IF entry.kind = "records"
                  THEN [settled EXCEPT ![entry.delivery] =
                         [r \in Rows |-> IF entry.rows[r] = NoRow
                                         THEN settled[entry.delivery][r] ELSE "ended"]]
                  ELSE settled
    /\ task' = IF entry.kind = "admission"
               THEN [task EXCEPT ![entry.delivery].heard = "Rejected"] ELSE task
    /\ UNCHANGED <<run, remote, watch, answers>>

\* The scan ends the wait of the delivery that holds the position, and no other.
LEMMA EndsTasks ==
    ASSUME Shape, RegistryTypeOK, NEW p \in Positions, EndsAt(p)
    PROVE  /\ task' \in [Deliveries -> Tasks]
           /\ \A d \in Deliveries :
                /\ SameIds(d) /\ task'[d].pc = task[d].pc
                /\ task'[d].heard = "Admitted" => task[d].heard = "Admitted"
<1>1. slot[p].entry \in Entries
  BY SlotFields
<1>2. CASE slot[p].entry.kind = "admission"
  <2>1. PICK d \in Deliveries : d = slot[p].entry.delivery
    BY <1>1, <1>2, EntryKinds, VacantEntry
  <2>2. task[d] \in Tasks
    BY DEF Shape
  <2>3. PICK t : t = [task[d] EXCEPT !.heard = "Rejected"]
    OBVIOUS
  <2>4. /\ t \in Tasks /\ t.pc = task[d].pc /\ t.run = task[d].run /\ t.records = task[d].records
        /\ t.admission = task[d].admission /\ t.heard = "Rejected"
    BY <2>2, <2>3 DEF Tasks
  <2>5. task' = [task EXCEPT ![d] = t]
    BY <1>2, <2>1, <2>3 DEF EndsAt, Shape
  <2>6. task' \in [Deliveries -> Tasks] /\ task'[d] = t
        /\ \A e \in Deliveries \ {d} : task'[e] = task[e] /\ SameIds(e)
    BY <2>4, <2>5, TaskChanges
  <2>7. SameIds(d)
    BY <2>4, <2>6 DEF SameIds
  <2> QED
    BY <2>4, <2>6, <2>7
<1>3. CASE slot[p].entry.kind # "admission"
  <2>1. task' = task
    BY <1>3 DEF EndsAt
  <2> QED
    BY <2>1 DEF Shape, SameIds
<1> QED
  BY <1>2, <1>3

\* It settles the rows that are left in the position, and no other.
LEMMA EndsRows ==
    ASSUME Shape, RegistryTypeOK, NEW p \in Positions, EndsAt(p)
    PROVE  /\ settled' \in [Deliveries -> [Rows -> Outcomes]]
           /\ \A d \in Deliveries, r \in Rows :
                /\ settled'[d][r] \in {settled[d][r], "ended"}
                /\ r \in RowsAt(p) /\ slot[p].entry.delivery = d => settled'[d][r] = "ended"
<1>1. slot[p].entry \in Entries
  BY SlotFields
<1>2. CASE slot[p].entry.kind = "records"
  <2>1. PICK d \in Deliveries : d = slot[p].entry.delivery
    BY <1>1, <1>2, EntryKinds, VacantEntry
  <2>2. PICK f : f = [r \in Rows |-> IF slot[p].entry.rows[r] = NoRow THEN settled[d][r] ELSE "ended"]
    OBVIOUS
  <2>3. settled' = [settled EXCEPT ![d] = f]
    BY <1>2, <2>1, <2>2 DEF EndsAt
  <2>4. /\ f \in [Rows -> Outcomes]
        /\ \A r \in Rows : f[r] \in {settled[d][r], "ended"}
        /\ \A r \in RowsAt(p) : f[r] = "ended"
    BY <2>2 DEF Shape, Outcomes, RowsAt
  <2>5. settled' \in [Deliveries -> [Rows -> Outcomes]] /\ settled'[d] = f
        /\ \A e \in Deliveries \ {d} : settled'[e] = settled[e]
    BY <2>3, <2>4 DEF Shape
  <2> QED
    BY <2>1, <2>4, <2>5
<1>3. CASE slot[p].entry.kind # "records"
  <2>1. settled' = settled /\ RowsAt(p) = {}
    BY <1>3 DEF EndsAt, RowsAt
  <2> QED
    BY <2>1 DEF Shape
<1> QED
  BY <1>2, <1>3

\* So a row it does not settle is still kept where it was.
LEMMA EndPositionHolds ==
    ASSUME Limits, RemoteInv, NEW p \in Positions, EndsAt(p) PROVE RemoteInv'
<1>1. Shape /\ RegistryTypeOK /\ Shut /\ Sorted /\ OwnSettled
      /\ (\A q \in Positions : Excludes(q))
      /\ \A d \in Deliveries : Staged(task[d]) /\ Own(d) /\ Kept(d)
  BY DEF RemoteInv, Shape
<1>2. /\ stopping.phase = "ending" /\ p \in stopping.left
      /\ UNCHANGED <<free, queueOpen, claims, sealed, returning>>
      /\ UNCHANGED <<run, remote, watch, answers>>
  BY DEF EndsAt, EndPosition
<1>3. PICK h : h = [slot[p] EXCEPT !.open = FALSE, !.entry = Vacant]
  OBVIOUS
<1>4. h \in SlotStates /\ ~h.open /\ h.generation = slot[p].generation /\ h.entry = Vacant
  BY <1>1, <1>3, SlotFields, VacantEntry DEF SlotStates
<1>5. slot' = [slot EXCEPT ![p] = h]
  BY <1>1, <1>3 DEF EndsAt, EndPosition, RegistryTypeOK
<1>6. slot'[p] = h /\ slot' \in [Positions -> SlotStates] /\ \A q \in Positions \ {p} : slot'[q] = slot[q]
  BY <1>1, <1>4, <1>5 DEF RegistryTypeOK
<1>7. PICK left : left = stopping.left \ {p}
  OBVIOUS
<1>8. stopping' = [stopping EXCEPT !.left = left] /\ left \subseteq Positions
  BY <1>1, <1>7 DEF EndsAt, EndPosition, RegistryTypeOK
<1>9. /\ stopping' \in [phase : StopPhases, left : SUBSET Positions]
      /\ stopping'.phase = "ending" /\ stopping'.left = left
  BY <1>1, <1>2, <1>8 DEF Shape
<1>10. RegistryTypeOK' /\ Sorted'
  BY <1>1, <1>2, <1>6, <1>9 DEF RegistryTypeOK, Sorted, Side
<1>11. \A q \in Positions : (HandedOut(q)' <=> HandedOut(q)) /\ (Free(q)' <=> Free(q))
                            /\ UNCHANGED free[Side(q)]
  BY <1>2 DEF HandedOut, Free, Side
<1>12. Shut'
  <2>1. \A q \in Positions : HandedOut(q)' => q \in left \/ (~slot'[q].open /\ slot'[q].entry = Vacant)
    BY <1>1, <1>2, <1>4, <1>6, <1>7, <1>11 DEF Shut
  <2> QED
    BY <1>1, <1>2, <1>9, <2>1 DEF Shut
<1>13. /\ task' \in [Deliveries -> Tasks]
       /\ \A d \in Deliveries :
            /\ SameIds(d) /\ task'[d].pc = task[d].pc
            /\ task'[d].heard = "Admitted" => task[d].heard = "Admitted"
  BY <1>1, EndsTasks
<1>14. /\ settled' \in [Deliveries -> [Rows -> Outcomes]]
       /\ \A d \in Deliveries, r \in Rows :
            /\ settled'[d][r] \in {settled[d][r], "ended"}
            /\ r \in RowsAt(p) /\ slot[p].entry.delivery = d => settled'[d][r] = "ended"
  BY <1>1, EndsRows
<1>15. ASSUME NEW q \in Positions PROVE Excludes(q)'
  <2>1. Claimants(q)' = Claimants(q)
    BY <1>13 DEF Claimants, SameIds
  <2>2. Excludes(q) /\ (slot'[q].entry # Vacant => slot[q].entry # Vacant)
        /\ (slot[q].entry = Vacant => slot'[q].entry = Vacant)
    BY <1>1, <1>4, <1>6
  <2> QED
    BY <1>2, <1>9, <1>11, <2>1, <2>2 DEF Excludes
<1>16. Settles
  BY <1>14 DEF Settles
<1>17. ASSUME NEW d \in Deliveries PROVE Staged(task[d])' /\ Own(d)' /\ Kept(d)'
  <2>1. Staged(task[d]) /\ Own(d) /\ Kept(d) /\ SameIds(d) /\ task'[d].pc = task[d].pc
    BY <1>1, <1>13
  <2>2. /\ task'[d].run = task[d].run /\ task'[d].records = task[d].records
        /\ task'[d].admission = task[d].admission
    BY <2>1 DEF SameIds
  <2>3. Staged(task[d])'
    BY <1>2, <2>1, <2>2 DEF Staged
  <2>4. /\ task[d].records.generation # 0 => task[d].records.position \in Positions
        /\ task[d].admission.generation # 0 => task[d].admission.position \in Positions
    BY <2>1 DEF Staged
  <2>5. \A q \in Positions : slot'[q].generation = slot[q].generation
                             /\ (slot'[q].entry # Vacant => slot'[q] = slot[q])
    BY <1>4, <1>6
  <2>6. task'[d].run = run' => Owns(d, task[d].records, "records")'
    BY <1>2, <2>1, <2>2, <2>4, <2>5 DEF Own, Owns
  <2>7. task'[d].run = run' => Owns(d, task[d].admission, "admission")'
    BY <1>2, <2>1, <2>2, <2>4, <2>5 DEF Own, Owns
  <2>8. Own(d)'
    BY <2>6, <2>7 DEF Own
  <2>9. ASSUME NEW r \in Rows, task'[d].pc \notin {"idle", "storing"}, settled'[d][r] = "pending"
        PROVE  /\ task'[d].run = run' /\ task'[d].records.generation # 0
               /\ RowFound(task[d].records, r)'
    <3>1. settled[d][r] = "pending" /\ ~(r \in RowsAt(p) /\ slot[p].entry.delivery = d)
      BY <1>14, <2>9
    <3>2. /\ task[d].run = run /\ task[d].records.generation # 0 /\ RowFound(task[d].records, r)
      BY <2>1, <2>9, <3>1 DEF Kept
    <3>3. /\ Found(task[d].records) /\ r \in RowsAt(task[d].records.position)
          /\ task[d].records.position \in Positions
      BY <2>4, <3>2, FoundAt
    <3>4. slot[task[d].records.position].entry.delivery = d
      BY <2>1, <3>2, <3>3 DEF Own, Owns, Found
    <3>5. slot'[task[d].records.position] = slot[task[d].records.position]
      BY <1>6, <3>1, <3>3, <3>4
    <3> QED
      BY <1>2, <2>2, <3>2, <3>5 DEF RowFound, EntryRow, Found
  <2>10. Kept(d)'
    BY <2>9 DEF Kept
  <2> QED
    BY <2>3, <2>8, <2>10
<1>18. \A d \in Deliveries : Follows(task[d].pc, task'[d].pc)
  BY <1>13 DEF Follows
<1>19. run' \in 1 .. MaxRuns
  BY <1>1, <1>2 DEF Shape
<1> QED
  BY <1>2, <1>9, <1>10, <1>12, <1>13, <1>14, <1>15, <1>16, <1>17, <1>18, <1>19, Moving

\* A registry that was just built.
LEMMA BuiltRegistry ==
    ASSUME Limits
    PROVE  /\ RegistryBuilt.slot \in [Positions -> SlotStates]
           /\ \A p \in Positions : /\ RegistryBuilt.slot[p].entry = Vacant
                                   /\ RegistryBuilt.slot[p].generation = 0
           /\ RegistryBuilt.free \in [Sides -> Seq(Positions)]
           /\ \A s \in Sides : RegistryBuilt.free[s] = << >>
           /\ RegistryBuilt.queueOpen \in [Sides -> BOOLEAN] /\ \A s \in Sides : RegistryBuilt.queueOpen[s]
           /\ RegistryBuilt.claims \in [Sides -> 0 .. Capacity] /\ \A s \in Sides : RegistryBuilt.claims[s] = 0
           /\ RegistryBuilt.sealed \in [Sides -> BOOLEAN]
<1>1. PICK e : e = [open |-> TRUE, generation |-> 0, entry |-> Vacant]
  OBVIOUS
<1>2. e \in SlotStates /\ e.entry = Vacant /\ e.generation = 0
  BY <1>1, VacantEntry DEF SlotStates, Limits
<1>3. RegistryBuilt.slot = [p \in Positions |-> e]
  BY <1>1 DEF RegistryBuilt
<1>4. /\ RegistryBuilt.slot \in [Positions -> SlotStates]
      /\ \A p \in Positions : /\ RegistryBuilt.slot[p].entry = Vacant
                              /\ RegistryBuilt.slot[p].generation = 0
  BY <1>2, <1>3
<1>5. /\ RegistryBuilt.free = [s \in Sides |-> << >>] /\ RegistryBuilt.queueOpen = [s \in Sides |-> TRUE]
      /\ RegistryBuilt.claims = [s \in Sides |-> 0] /\ RegistryBuilt.sealed = [s \in Sides |-> FALSE]
  BY DEF RegistryBuilt
<1>6. << >> \in Seq(Positions) /\ 0 \in 0 .. Capacity
  BY DEF Limits
<1> QED
  BY <1>4, <1>5, <1>6

\* A registry that was just built, without a registrar.
Built ==
    /\ RegistryInit
    /\ \A d \in Deliveries : task[d].pc \notin {"storing", "asking"}
\* What the invariant says of the registry alone.
Ready ==
    /\ RegistryTypeOK /\ stopping \in [phase : StopPhases, left : SUBSET Positions]
    /\ Sorted /\ Shut /\ \A p \in Positions : Excludes(p)

\* It holds of a registry that was just built.
LEMMA BuiltHolds == Limits /\ Built => Ready
<1> SUFFICES ASSUME Limits, Built PROVE Ready
  OBVIOUS
<1>0. /\ slot = RegistryBuilt.slot /\ free = RegistryBuilt.free
      /\ queueOpen = RegistryBuilt.queueOpen /\ claims = RegistryBuilt.claims
      /\ sealed = RegistryBuilt.sealed /\ returning = {}
      /\ stopping = [phase |-> "running", left |-> {}]
      /\ \A d \in Deliveries : task[d].pc \notin {"storing", "asking"}
  BY DEF Built, RegistryInit
<1>1. stopping.phase = "running" /\ stopping.left = {}
      /\ stopping \in [phase : StopPhases, left : SUBSET Positions]
  BY <1>0 DEF StopPhases
<1>2. RegistryTypeOK
  BY <1>0, <1>1, BuiltRegistry DEF RegistryTypeOK, StopPhases
<1>3. \A s \in Sides : free[s] = << >> /\ DOMAIN free[s] = {} /\ claims[s] = 0 /\ queueOpen[s]
  BY <1>0, BuiltRegistry
<1>4. Sorted /\ Shut
  BY <1>1, <1>3 DEF Sorted, Shut
<1>5. ASSUME NEW p \in Positions PROVE Excludes(p)
  <2>1. Side(p) \in Sides /\ p[2] \in 1 .. Capacity
    BY PositionSide
  <2>2. ~HandedOut(p)
    BY <1>3, <2>1 DEF HandedOut, Limits
  <2>3. Claimants(p) = {} /\ slot[p].entry = Vacant /\ ~Free(p)
    BY <1>0, <1>3, <2>1, BuiltRegistry DEF Claimants, Free
  <2> QED
    BY <1>0, <1>3, <2>1, <2>2, <2>3 DEF Excludes
<1> QED
  BY <1>1, <1>2, <1>4, <1>5 DEF Ready

\* After a restart no earlier delivery has an identity of the new run.
LEMMA RestartHolds == ASSUME Limits, RemoteInv, RestartSender PROVE RemoteInv'
<1>1. Shape /\ \A d \in Deliveries : Staged(task[d])
  BY DEF RemoteInv
<1>2. /\ run' = run + 1 /\ run < MaxRuns /\ RegistryRestart /\ UNCHANGED <<remote, watch, answers>>
  BY DEF RestartSender
<1>3. run \in Nat /\ run' \in 1 .. MaxRuns
  BY <1>1, <1>2 DEF Shape, Limits
<1>4. ASSUME NEW d \in Deliveries
      PROVE  /\ task'[d] \in Tasks /\ SameIds(d) /\ task'[d].heard = task[d].heard
             /\ \/ task[d].pc \in {"idle", "delivered", "undelivered"} /\ task'[d].pc = task[d].pc
                \/ task[d].pc \notin {"idle", "delivered", "undelivered"} /\ task'[d].pc = "lost"
  <2>1. task[d] \in Tasks
    BY <1>1 DEF Shape
  <2>2. PICK t : t = [task[d] EXCEPT !.pc = "lost"]
    OBVIOUS
  <2>3. /\ t \in Tasks /\ t.pc = "lost" /\ t.run = task[d].run /\ t.records = task[d].records
        /\ t.admission = task[d].admission /\ t.heard = task[d].heard
    BY <2>1, <2>2 DEF Tasks, TaskSteps
  <2>4. task'[d] = IF task[d].pc \in {"idle", "delivered", "undelivered"} THEN task[d] ELSE t
    BY <2>2 DEF RestartSender
  <2> QED
    BY <2>1, <2>3, <2>4 DEF SameIds
<1>5. task' \in [Deliveries -> Tasks]
  <2>1. PICK f : f = [d \in Deliveries |->
                  IF task[d].pc \in {"idle", "delivered", "undelivered"}
                  THEN task[d] ELSE [task[d] EXCEPT !.pc = "lost"]]
    OBVIOUS
  <2>2. task' = f /\ DOMAIN f = Deliveries /\ f = [d \in Deliveries |-> f[d]]
    BY <2>1 DEF RestartSender
  <2> QED
    BY <1>4, <2>2
<1>6. ASSUME NEW d \in Deliveries, NEW r \in Rows
      PROVE  settled'[d][r] = IF task[d].pc # "idle" /\ settled[d][r] = "pending"
                              THEN "lost" ELSE settled[d][r]
  BY DEF RestartSender
<1>7. settled' \in [Deliveries -> [Rows -> Outcomes]]
  BY <1>1 DEF RestartSender, Shape, Outcomes
<1>8. Settles
  BY <1>6 DEF Settles
<1>9. Built'
  BY <1>2, <1>4 DEF Built, RegistryRestart, RegistryInit, RegistryBuilt
<1>10. Ready'
  BY <1>9, BuiltHolds, PTL
<1>11. /\ RegistryTypeOK' /\ stopping' \in [phase : StopPhases, left : SUBSET Positions]
       /\ Sorted' /\ Shut' /\ \A p \in Positions : Excludes(p)'
  BY <1>10 DEF Ready
<1>12. ASSUME NEW d \in Deliveries PROVE Staged(task[d])' /\ Own(d)' /\ Kept(d)'
  <2>1. Staged(task[d]) /\ task'[d].run \in Nat /\ task'[d].run <= run
    BY <1>1, <1>4 DEF Staged, SameIds, Tasks
  <2>2. task'[d].run # run'
    BY <1>2, <1>3, <2>1
  <2>3. Own(d)'
    BY <2>2 DEF Own
  <2>4. Kept(d)'
    BY <1>4, <1>6 DEF Kept
  <2>5. Staged(task[d])'
    BY <1>2, <1>3, <1>4, <2>1 DEF Staged, SameIds, Stored, Registering
  <2> QED
    BY <2>3, <2>4, <2>5
<1>13. \A d \in Deliveries : Follows(task[d].pc, task'[d].pc) \/ task'[d].pc \in {"undelivered", "lost"}
  BY <1>4 DEF Follows
<1> QED
  BY <1>2, <1>3, <1>4, <1>5, <1>7, <1>8, <1>11, <1>12, <1>13, Moving

\* The invariant holds at first.
LEMMA InitRemote == ASSUME Limits, Init PROVE RemoteInv
<1>1. /\ run = 1 /\ task = [d \in Deliveries |-> Idle]
      /\ settled = [d \in Deliveries |-> [r \in Rows |-> "pending"]]
      /\ remote = [d \in Deliveries |-> "unseen"] /\ answers = {}
  BY DEF Init
<1>2. NoId \in Identities /\ NoId.generation = 0
  BY DEF NoId, Identities
<1>3. /\ Idle \in Tasks /\ Idle.pc = "idle" /\ Idle.run = 0 /\ Idle.records = NoId
      /\ Idle.admission = NoId /\ Idle.heard = "Pending"
  BY <1>2 DEF Idle, Tasks, TaskSteps
<1>4. task \in [Deliveries -> Tasks] /\ \A d \in Deliveries : task[d] = Idle
  BY <1>1, <1>3
<1>5. Built
  BY <1>3, <1>4 DEF Built, Init
<1>6. Ready
  BY <1>5, BuiltHolds
<1>7. PICK w : w = [state |-> "none", root |-> "open", told |-> FALSE, held |-> FALSE,
                    registrar |-> "undiscovered"]
  OBVIOUS
<1>8. w \in Watches /\ w.state = "none" /\ w.root = "open" /\ w.held = FALSE
  BY <1>7 DEF Watches
<1>9. watch = [d \in Deliveries |-> [r \in Rows |-> w]]
  BY <1>7 DEF Init
<1>10. watch \in [Deliveries -> [Rows -> Watches]] /\ \A d \in Deliveries, r \in Rows : watch[d][r] = w
  BY <1>8, <1>9
<1>11. settled \in [Deliveries -> [Rows -> Outcomes]]
       /\ \A d \in Deliveries, r \in Rows : settled[d][r] = "pending"
  BY <1>1 DEF Outcomes
<1>12. Shape
  BY <1>1, <1>4, <1>6, <1>10, <1>11 DEF Shape, Ready, Limits
<1>13. OwnSettled
  BY <1>3, <1>4, <1>11 DEF OwnSettled
<1>14. ASSUME NEW d \in Deliveries PROVE Staged(task[d]) /\ Received(d) /\ Own(d) /\ Kept(d)
  <2>1. Staged(task[d])
    BY <1>1, <1>2, <1>3, <1>4 DEF Staged, Stored, Registering
  <2>2. Received(d)
    BY <1>1, <1>8, <1>10 DEF Received
  <2>3. Own(d)
    BY <1>1, <1>3, <1>4 DEF Own
  <2>4. Kept(d)
    BY <1>3, <1>4 DEF Kept
  <2> QED
    BY <2>1, <2>2, <2>3, <2>4
<1> QED
  BY <1>1, <1>6, <1>12, <1>13, <1>14 DEF RemoteInv, Ready

\* The steps of the sender's task keep it.
LEMMA ForwardHolds ==
    ASSUME Limits, RemoteInv, NEW d \in Deliveries, Forward(d) PROVE RemoteInv'
BY TaskActions, RefuseRecordsHolds, ClaimRecordsHolds, StoreRecordsHolds, ClaimAdmissionHolds,
   RegisterAdmissionHolds, AwaitFailedHolds, AdmitDeliveryHolds, ClearRowHolds DEF Forward

\* So do the receiver's.
LEMMA ReceiveHolds ==
    ASSUME Limits, RemoteInv, NEW d \in Deliveries, Receive(d) PROVE RemoteInv'
BY ReceiveBodyHolds, PayloadHolds, DecideRootHolds, LookReleaseHolds, LookHoldHolds,
     LookReportHolds DEF Receive, Look

\* So does a step in which nothing changes.
LEMMA RestingHolds == ASSUME Limits, RemoteInv, UNCHANGED vars PROVE RemoteInv'
<1>1. Shape /\ RegistryTypeOK /\ Sorted /\ Shut /\ \A p \in Positions : Excludes(p)
  BY DEF RemoteInv, Shape
<1>2. UNCHANGED registryVars /\ UNCHANGED deliveryVars /\ UNCHANGED slot
  BY DEF vars, registryVars, deliveryVars
<1>3. Thins /\ \A p \in Positions : Claimants(p)' = Claimants(p)
  BY <1>2 DEF Thins, Claimants, deliveryVars
<1> QED
  BY <1>1, <1>2, <1>3, ThinsType, ThinsShut, ThinsExcludes, RegistryMoves

\* Every step keeps the invariant.
LEMMA RemoteSteps == ASSUME Limits, RemoteInv, [Next]_vars PROVE RemoteInv'
<1>1. CASE \E d \in Deliveries : Forward(d) \/ DropDelivery(d) \/ Receive(d)
  BY <1>1, ForwardHolds, TaskActions, ReceiveHolds
<1>2. CASE Deliver
  BY <1>2, ResolveRowHolds, ResolveAdmissionHolds DEF Deliver
<1>3. CASE \E p \in Positions : (Recycle(p) /\ UNCHANGED deliveryVars) \/ SweepPosition(p)
  BY <1>3, RecycleHolds, SweepHolds
<1>4. CASE Shutdown
  BY <1>4, StopStepsHold, EndPositionHolds DEF Shutdown, EndsAt
<1>5. CASE RestartSender
  BY <1>5, RestartHolds
<1>6. CASE UNCHANGED vars
  BY <1>6, RestingHolds
<1> QED
  BY <1>1, <1>2, <1>3, <1>4, <1>5, <1>6 DEF Next

\* What holds a position excludes the rest, so there is one holder.
LEMMA HoldersExclude ==
    ASSUME RemoteInv, NEW p \in Positions
    PROVE  /\ \A a, b \in Holders(p) : a = b
           /\ Holders(p) # {} => HandedOut(p)
           /\ HandedOut(p) /\ slot[p].open /\ stopping.phase = "running" => Holders(p) # {}
<1>1. Excludes(p) /\ Shape
  BY DEF RemoteInv
<1>0. Registrars(p) = Claimants(p)
  BY <1>1 DEF Shape, Registrars, Claimants
<1>2. ASSUME NEW a
      PROVE  a \in Holders(p) <=>
               \/ \E i \in DOMAIN free[Side(p)] : free[Side(p)][i] = p /\ a = <<"free", i>>
               \/ \E d \in Claimants(p) : a = <<"registrar", d>>
               \/ p \in returning /\ a = <<"returning", p>>
               \/ slot[p].entry # Vacant /\ a = <<"occupied", p>>
  BY <1>0 DEF Holders
<1>3. ASSUME NEW a \in Holders(p), NEW b \in Holders(p) PROVE a = b
  <2>1. /\ a \in Holders(p) /\ b \in Holders(p)
    BY <1>3
  <2>2. CASE Free(p)
    BY <1>1, <1>2, <2>1, <2>2 DEF Excludes
  <2>3. CASE ~Free(p)
    BY <1>1, <1>2, <2>1, <2>3 DEF Excludes, Free
  <2> QED
    BY <2>2, <2>3
<1>4. Holders(p) # {} <=> Free(p) \/ Claimants(p) # {} \/ p \in returning \/ slot[p].entry # Vacant
  <2>1. Free(p) => Holders(p) # {}
    BY <1>2 DEF Free
  <2>2. Claimants(p) # {} => Holders(p) # {}
    BY <1>2
  <2>3. p \in returning \/ slot[p].entry # Vacant => Holders(p) # {}
    BY <1>2
  <2>4. ASSUME NEW a \in Holders(p)
        PROVE  Free(p) \/ Claimants(p) # {} \/ p \in returning \/ slot[p].entry # Vacant
    BY <1>2, <2>4 DEF Free
  <2> QED
    BY <2>1, <2>2, <2>3, <2>4
<1> QED
  BY <1>1, <1>3, <1>4 DEF Excludes

\* The invariant implies the property.
LEMMA RemoteImplies == ASSUME Limits, RemoteInv PROVE TypeOK /\ AnswersReachOwnRows
<1>1. Shape /\ RegistryTypeOK /\ OwnSettled /\ Shut
      /\ \A d \in Deliveries : Staged(task[d]) /\ Kept(d)
  BY DEF RemoteInv, Shape
<1>2. TypeOK
  BY <1>1 DEF Shape, TypeOK, Tasks, Watches
<1>3. OneHolder
  BY HoldersExclude DEF OneHolder
<1>4. ASSUME stopping.phase = "ended" PROVE \A p \in Positions : slot[p].entry = Vacant
  <2> TAKE p \in Positions
  <2>1. Excludes(p)
    BY DEF RemoteInv
  <2> QED
    BY <1>1, <1>4, <2>1 DEF Shut, Excludes
<1>5. NothingAfterShutdown
  <2>1. ASSUME stopping.phase = "ended", NEW d \in Deliveries, NEW r \in Rows,
               task[d].pc \notin {"idle", "storing"}, settled[d][r] = "pending"
        PROVE  FALSE
    <3>1. task[d].records.generation # 0 /\ RowFound(task[d].records, r)
      BY <1>1, <2>1 DEF Kept
    <3>2. task[d].records.position \in Positions /\ slot[task[d].records.position].entry # Vacant
      BY <1>1, <3>1 DEF Staged, RowFound, EntryRow, Found
    <3> QED
      BY <1>4, <2>1, <3>2
  <2> QED
    BY <1>1, <1>4, <2>1 DEF NothingAfterShutdown, Shape
<1>6. SettledByOwn
  BY <1>1 DEF SettledByOwn, OwnSettled, Shape
<1> QED
  BY <1>2, <1>3, <1>5, <1>6 DEF AnswersReachOwnRows

\* The registry and the two ends of a delivery keep their types, whatever the capacities and
\* the numbers of rows, reuses and restarts are.
THEOREM RemoteTypesHold == ASSUME Limits PROVE Spec => []TypeOK
<1>1. Init => RemoteInv
  BY InitRemote
<1>2. RemoteInv /\ [Next]_vars => RemoteInv'
  BY RemoteSteps
<1>3. RemoteInv => TypeOK
  BY RemoteImplies
<1> QED
  BY <1>1, <1>2, <1>3, PTL DEF Spec

\* Whatever is lost, repeated or late, and however often positions are used again: a row is
\* settled by an answer to itself or by its own delivery, a claimed position has exactly one
\* holder, and once shutdown returned every stored row is settled (remote_ack_owner.rs,
\* RemoteDispatchRegistry::register, take, recycle and shutdown; remote_dispatch.rs, registered).
THEOREM AnswersReachTheirRows == ASSUME Limits PROVE Spec => []AnswersReachOwnRows
<1>1. Init => RemoteInv
  BY InitRemote
<1>2. RemoteInv /\ [Next]_vars => RemoteInv'
  BY RemoteSteps
<1>3. RemoteInv => AnswersReachOwnRows
  BY RemoteImplies
<1> QED
  BY <1>1, <1>2, <1>3, PTL DEF Spec

-----------------------------------------------------------------------------
(***************************************************************************)
(* Relay admission.                                                        *)
(***************************************************************************)
\* What a record, a watermark and an owner are made of.
RecordStates == {"reserved", "reading", "received", "admitted", "rejected", "cancelled"}
AdmissionRecords == [channel : Channels, sequence : SequenceNumbers, state : RecordStates]
Watermarks == [sequence : SequenceNumbers \cup {-1}, status : Statuses]
Owners == [bound : BOOLEAN, first : BOOLEAN, attempts : SUBSET Nat, grants : SUBSET Nat,
           active : [Channels -> Int], marks : [Channels -> Watermarks],
           order : Seq(Channels), floor : Nat]

OutboundSlots ==
    {u \in [channel : 0 .. MaxChannel, next : 0 .. (MaxSequence + 1),
               pc : {"idle", "sending", "resolving"}] :
       u.pc # "idle" => u.channel # 0 /\ u.next # 0}

AdmissionShape ==
    /\ outbound \in [Slots -> OutboundSlots]
    /\ opened \in 0 .. MaxChannel
    /\ outcome \in [Ids -> {"unknown", "admitted", "failed"}]
    /\ asked \cup cancelled \cup heard \subseteq Ids
    /\ replies \subseteq [id : Ids, status : Statuses]
    /\ records \in Seq(AdmissionRecords)
    /\ handling \subseteq [id : Ids, step : {"retired", "existing", "position", "register"}]

\* A watermark below every position is none, and the order lists each retained one once.
Listed(o) ==
    /\ \A c \in Channels : o.marks[c].sequence = -1 => o.marks[c] = NoMark
    /\ \A c \in Channels : o.marks[c] # NoMark <=> \E i \in DOMAIN o.order : o.order[i] = c
    /\ \A i, j \in DOMAIN o.order : o.order[i] = o.order[j] => i = j

\* A channel has one attempt, at the position after its watermark.
Core(o) ==
    /\ o \in Owners /\ o.attempts \subseteq DOMAIN records /\ o.grants \subseteq o.attempts
    /\ Listed(o)
    /\ \A r \in o.attempts : records[r].sequence = o.marks[records[r].channel].sequence + 1
    /\ \A r, q \in o.attempts : records[r].channel = records[q].channel => r = q
    /\ Cardinality(o.attempts) <= AttemptCapacity
    /\ Cardinality(Retained(o)) <= WatermarkCapacity

\* A delivery that is over for the owner: at or below the watermark of its channel, or of
\* a channel that was forgotten.
Passed(o, id) ==
    \/ o.marks[id.channel] # NoMark /\ id.sequence <= o.marks[id.channel].sequence
    \/ Forgotten(o, id.channel)
Past(o) == \A r \in DOMAIN records : r \in o.attempts \/ Passed(o, IdOf(r))

\* What is undecided is the owner's, and watermarks tell what was decided.
Attended(o) == \A r \in DOMAIN records : Unadmitted(r) => r \in o.attempts
Told(id, status) ==
    /\ status = "Admitted" => AdmittedRecords(id) # {}
    /\ status \in {"Rejected", "Cancelled"} => AdmittedRecords(id) = {}
MarksTell(o) ==
    \A c \in Channels : o.marks[c] # NoMark =>
      Told([channel |-> c, sequence |-> o.marks[c].sequence], o.marks[c].status)

\* A delivery that failed for good: it is not admitted, and no other record of it comes.
Failed(o, id) ==
    /\ \A r \in DOMAIN records : IdOf(r) = id => records[r].state \in {"rejected", "cancelled"}
    /\ AttemptAt(o, id) # {} \/ Passed(o, id)
Final(o, id, status) ==
    /\ status = "Admitted" => AdmittedRecords(id) # {}
    /\ status \in {"Rejected", "Cancelled"} => Failed(o, id)
Conclusions ==
    /\ \A id \in heard : AdmittedRecords(id) # {}
    /\ \A reply \in replies : Final(owner, reply.id, reply.status)
    /\ \A id \in Ids : /\ outcome[id] = "failed" => Failed(owner, id)
                       /\ outcome[id] = "admitted" => AdmittedRecords(id) # {}

\* The inductive invariant.
AdmissionInv ==
    /\ AdmissionShape /\ Core(owner) /\ Attended(owner) /\ OneUndecided
    /\ owner.first => ChannelOrder /\ Past(owner) /\ MarksTell(owner) /\ Conclusions

\* The order without a channel lists the others, each once.
Lists(order, d) == \E i \in DOMAIN order : order[i] = d
Distinct(order) == \A i, j \in DOMAIN order : order[i] = order[j] => i = j

\* Without a channel the order lists the others, each once.
LEMMA WithoutOne ==
    ASSUME NEW order \in Seq(Channels), Distinct(order), NEW c
    PROVE  /\ Without(order, c) \in Seq(Channels) /\ Distinct(Without(order, c))
           /\ \A d : Lists(Without(order, c), d) <=> d # c /\ Lists(order, d)
<1>1. CASE ~Lists(order, c)
  BY <1>1 DEF Without, Lists
<1>2. CASE Lists(order, c)
  <2>1. PICK k \in DOMAIN order :
          /\ order[k] = c
          /\ Without(order, c) =
               [i \in 1 .. (Len(order) - 1) |-> IF i < k THEN order[i] ELSE order[i + 1]]
    <3> DEFINE k == CHOOSE i \in DOMAIN order : order[i] = c
    <3>1. k \in DOMAIN order /\ order[k] = c
      BY <1>2 DEF Lists
    <3>2. Without(order, c) =
            [i \in 1 .. (Len(order) - 1) |-> IF i < k THEN order[i] ELSE order[i + 1]]
      BY <1>2 DEF Without, Lists
    <3> HIDE DEF k
    <3> QED
      BY <3>1, <3>2
  <2> DEFINE n == Len(order) - 1
             w == [i \in 1 .. n |-> IF i < k THEN order[i] ELSE order[i + 1]]
  <2>2. n \in Nat /\ k \in 1 .. (n + 1) /\ DOMAIN order = 1 .. (n + 1)
        /\ \A i \in 1 .. (n + 1) : order[i] \in Channels
    BY <2>1
  <2> HIDE DEF n
  <2>3. w \in [1 .. n -> Channels]
    BY <2>2
  <2>4. w \in Seq(Channels) /\ DOMAIN w = 1 .. n
    BY <2>2, <2>3, SeqDef
  <2>5. Distinct(w)
    <3> SUFFICES ASSUME NEW i \in 1 .. n, NEW j \in 1 .. n, w[i] = w[j] PROVE i = j
      BY <2>4 DEF Distinct
    <3>1. PICK a \in 1 .. (n + 1) : a = IF i < k THEN i ELSE i + 1
      BY <2>2
    <3>2. PICK b \in 1 .. (n + 1) : b = IF j < k THEN j ELSE j + 1
      BY <2>2
    <3>3. order[a] = order[b]
      BY <3>1, <3>2
    <3>4. a = b
      BY <2>2, <3>3 DEF Distinct
    <3> QED
      BY <2>2, <3>1, <3>2, <3>4
  <2>6. ASSUME NEW d, Lists(w, d) PROVE d # c /\ Lists(order, d)
    <3>1. PICK i \in 1 .. n : w[i] = d
      BY <2>4, <2>6 DEF Lists
    <3>2. PICK j \in 1 .. (n + 1) : j # k /\ order[j] = d
      BY <2>2, <3>1
    <3> QED
      BY <2>1, <2>2, <3>2 DEF Distinct, Lists
  <2>7. ASSUME NEW d, d # c, Lists(order, d) PROVE Lists(w, d)
    <3>1. PICK j \in 1 .. (n + 1) : order[j] = d /\ j # k
      BY <2>1, <2>2, <2>7 DEF Lists
    <3>2. CASE j < k
      BY <2>2, <2>4, <3>1, <3>2 DEF Lists
    <3>3. CASE j > k
      <4>1. j - 1 \in 1 .. n /\ w[j - 1] = d
        BY <2>2, <3>1, <3>3
      <4> QED
        BY <2>4, <4>1 DEF Lists
    <3> QED
      BY <2>2, <3>1, <3>2, <3>3
  <2>8. Without(order, c) = w
    BY <2>1 DEF n
  <2> QED
    BY <2>4, <2>5, <2>6, <2>7, <2>8
<1> QED
  BY <1>1, <1>2

\* A channel that is used becomes the last of the order.
LEMMA AppendOne ==
    ASSUME NEW order \in Seq(Channels), Distinct(order), NEW c \in Channels
    PROVE  LET w == Append(Without(order, c), c) IN
           /\ w \in Seq(Channels) /\ Distinct(w)
           /\ \A d : Lists(w, d) <=> d = c \/ Lists(order, d)
<1> DEFINE v == Without(order, c)
           w == Append(v, c)
<1>1. v \in Seq(Channels) /\ Distinct(v) /\ \A d : Lists(v, d) <=> d # c /\ Lists(order, d)
  BY WithoutOne
<1> HIDE DEF v
<1>2. /\ w \in Seq(Channels) /\ Len(w) = Len(v) + 1 /\ Len(v) \in Nat
      /\ DOMAIN v = 1 .. Len(v) /\ DOMAIN w = 1 .. (Len(v) + 1)
      /\ \A i \in 1 .. Len(v) : w[i] = v[i]
      /\ w[Len(v) + 1] = c
  BY <1>1
<1> HIDE DEF w
<1>3. \A i \in 1 .. Len(v) : v[i] # c
  BY <1>1, <1>2 DEF Lists
<1>4. Distinct(w)
  BY <1>1, <1>2, <1>3 DEF Distinct
<1>5. \A d : Lists(w, d) <=> d = c \/ Lists(v, d)
  BY <1>2 DEF Lists
<1> QED
  BY <1>1, <1>2, <1>4, <1>5 DEF v, w

\* A set of numbers has a least one.
LEMMA LeastNumber == ASSUME NEW T \in SUBSET Nat, T # {} PROVE \E x \in T : \A y \in T : x <= y
<1> DEFINE R == {ss \in Nat \X Nat : ss[1] < ss[2]}
<1>1. IsWellFoundedOn(R, Nat)
  BY NatLessThanWellFounded DEF OpToRel
<1>2. PICK x \in T : \A y \in T : ~(<<y, x>> \in R)
  BY <1>1, WFMin
<1>3. ASSUME NEW y \in T PROVE x <= y
  <2>1. y \in Nat /\ x \in Nat /\ ~(<<y, x>> \in R)
    BY <1>2
  <2>2. <<y, x>> \in R <=> y < x
    BY <2>1
  <2> QED
    BY <2>1, <2>2
<1> QED
  BY <1>3

\* If a retained channel has no attempt, the owner finds one to forget.
LEMMA IdleFound ==
    ASSUME NEW o \in Owners, Listed(o), NEW c \in Retained(o), ~HoldsAttempt(o, c)
    PROVE  HasIdle(o)
<1> DEFINE T == {i \in DOMAIN o.order : ~HoldsAttempt(o, o.order[i])}
<1>1. /\ o.order \in Seq(Channels) /\ o.marks \in [Channels -> Watermarks]
      /\ DOMAIN o.order = 1 .. Len(o.order) /\ Len(o.order) \in Nat
  BY DEF Owners
<1>2. T # {} /\ T \in SUBSET Nat
  BY <1>1 DEF Listed, Retained
<1>3. PICK i \in T : \A j \in T : i <= j
  BY <1>2, LeastNumber
<1>4. \A j \in 1 .. (i - 1) : HoldsAttempt(o, o.order[j])
  <2> TAKE j \in 1 .. (i - 1)
  <2>1. j \in DOMAIN o.order /\ ~(i <= j)
    BY <1>1, <1>3
  <2>2. j \notin T
    BY <1>3, <2>1
  <2> QED
    BY <2>1, <2>2
<1>5. LeastRecent(o, o.order[i]) /\ o.order[i] \in DOMAIN o.marks
  BY <1>1, <1>3, <1>4 DEF LeastRecent
<1> QED
  BY <1>5 DEF HasIdle

\* What a change of watermarks leaves alone.
Alike(o, p) ==
    /\ p.attempts = o.attempts /\ p.grants = o.grants /\ p.active = o.active
    /\ p.bound = o.bound /\ p.first = o.first /\ p.floor >= o.floor

\* Whether a channel has an attempt is told by the attempts alone.
LEMMA HoldsAlike ==
    ASSUME NEW o, NEW p, p.attempts = o.attempts, NEW c
    PROVE  HoldsAttempt(p, c) <=> HoldsAttempt(o, c)
BY DEF HoldsAttempt, AttemptsOn

\* Forgetting takes one watermark, and raises the floor to its channel.
LEMMA ForgetOne ==
    ASSUME NEW o \in Owners, Listed(o), NEW d \in Channels
    PROVE  LET p == Forget(o, d) IN
           /\ p \in Owners /\ Listed(p) /\ Alike(o, p) /\ d <= p.floor
           /\ p.marks[d] = NoMark /\ \A c \in Channels \ {d} : p.marks[c] = o.marks[c]
           /\ Retained(p) = Retained(o) \ {d}
<1> DEFINE p == Forget(o, d)
<1>1. /\ o.order \in Seq(Channels) /\ o.marks \in [Channels -> Watermarks] /\ o.floor \in Nat
      /\ Distinct(o.order) /\ Channels \subseteq Nat
  BY AdmissionAssumption DEF Owners, Listed, Distinct, Channels
<1>2. NoMark \in Watermarks
  BY DEF NoMark, Watermarks, Statuses
<1>3. /\ p.marks = [o.marks EXCEPT ![d] = NoMark] /\ p.order = Without(o.order, d)
      /\ p.floor = IF o.floor >= d THEN o.floor ELSE d
      /\ p.attempts = o.attempts /\ p.grants = o.grants /\ p.active = o.active
      /\ p.bound = o.bound /\ p.first = o.first
  BY DEF Forget, Owners
<1>4. Without(o.order, d) \in Seq(Channels)
  BY <1>1, WithoutOne
<1>5. p \in Owners
  BY <1>1, <1>2, <1>4 DEF Forget, Owners
<1> HIDE DEF p
<1>6. /\ p.marks[d] = NoMark /\ \A c \in Channels \ {d} : p.marks[c] = o.marks[c]
      /\ DOMAIN p.marks = Channels /\ DOMAIN o.marks = Channels
  BY <1>1, <1>3
<1>7. Distinct(p.order) /\ \A c : Lists(p.order, c) <=> c # d /\ Lists(o.order, c)
  BY <1>1, <1>3, WithoutOne
<1>8. \A c \in Channels : o.marks[c] # NoMark <=> Lists(o.order, c)
  BY DEF Listed, Lists
<1>9. Listed(p)
  <2>1. \A c \in Channels : p.marks[c].sequence = -1 => p.marks[c] = NoMark
    BY <1>6 DEF Listed
  <2>2. \A c \in Channels : p.marks[c] # NoMark <=> Lists(p.order, c)
    BY <1>6, <1>7, <1>8
  <2> QED
    BY <1>7, <2>1, <2>2 DEF Listed, Lists, Distinct
<1>10. Retained(p) = Retained(o) \ {d}
  BY <1>6 DEF Retained
<1>11. Alike(o, p) /\ d <= p.floor
  BY <1>1, <1>3 DEF Alike
<1> QED
  BY <1>5, <1>6, <1>9, <1>10, <1>11 DEF p

\* The retained channels and the attempts are finite in number.
LEMMA CountsFinite ==
    ASSUME NEW o \in Owners
    PROVE  /\ IsFiniteSet(Retained(o)) /\ Cardinality(Retained(o)) \in Nat
           /\ AdmissionShape /\ o.attempts \subseteq DOMAIN records =>
                IsFiniteSet(o.attempts) /\ Cardinality(o.attempts) \in Nat
<1>1. IsFiniteSet(Channels) /\ Retained(o) \subseteq Channels
  <2>1. 1 \in Int /\ MaxChannel \in Int
    BY AdmissionAssumption
  <2> QED
    BY <2>1, FS_Interval DEF Channels, Retained, Owners
<1>2. ASSUME AdmissionShape, o.attempts \subseteq DOMAIN records
      PROVE  IsFiniteSet(DOMAIN records)
  <2>1. DOMAIN records = 1 .. Len(records) /\ Len(records) \in Nat
    BY <1>2 DEF AdmissionShape
  <2> QED
    BY <2>1, FS_Interval
<1> QED
  BY <1>1, <1>2, FS_Subset, FS_CardinalityType

\* More retained channels than attempts: one of them has none.
LEMMA IdleAmong ==
    ASSUME AdmissionShape, NEW o \in Owners, o.attempts \subseteq DOMAIN records,
           Cardinality(o.attempts) < Cardinality(Retained(o))
    PROVE  \E c \in Retained(o) : ~HoldsAttempt(o, c)
<1> SUFFICES ASSUME \A c \in Retained(o) : HoldsAttempt(o, c) PROVE FALSE
  OBVIOUS
<1> DEFINE f == [c \in Retained(o) |-> CHOOSE r \in o.attempts : records[r].channel = c]
<1>1. \A c \in Retained(o) : f[c] \in o.attempts /\ records[f[c]].channel = c
  BY DEF HoldsAttempt, AttemptsOn
<1>2. f \in [Retained(o) -> o.attempts]
  BY <1>1
<1> HIDE DEF f
<1>3. \E c, d \in Retained(o) : c # d /\ f[c] = f[d]
  BY <1>2, CountsFinite, FS_PigeonHole
<1> QED
  BY <1>1, <1>3

\* Room for a channel without a watermark, at the cost of one without an attempt.
LEMMA RoomMade ==
    ASSUME AdmissionShape, NEW o \in Owners, Listed(o), o.attempts \subseteq DOMAIN records,
           Cardinality(o.attempts) <= AttemptCapacity,
           Cardinality(Retained(o)) <= WatermarkCapacity, NEW c \in Channels
    PROVE  LET p == RoomFor(o, c) IN
           /\ p \in Owners /\ Listed(p) /\ Alike(o, p) /\ p.marks[c] = o.marks[c]
           /\ \A d \in Channels : \/ p.marks[d] = o.marks[d]
                                  \/ p.marks[d] = NoMark /\ d <= p.floor /\ ~HoldsAttempt(o, d)
           /\ Cardinality(Retained(p)) <= WatermarkCapacity
           /\ o.marks[c] = NoMark => Cardinality(Retained(p)) < WatermarkCapacity
<1> DEFINE p == RoomFor(o, c)
<1>0. o.floor \in Nat /\ DOMAIN o.marks = Channels
  BY DEF Owners
<1>1. Cardinality(Retained(o)) \in Nat /\ Cardinality(o.attempts) \in Nat /\ IsFiniteSet(Retained(o))
  BY CountsFinite
<1>2. CASE o.marks[c] = NoMark /\ Cardinality(Retained(o)) >= WatermarkCapacity
  <2>1. HasIdle(o)
    <3>1. Cardinality(o.attempts) < Cardinality(Retained(o))
      BY <1>1, <1>2, AdmissionAssumption
    <3> QED
      BY <3>1, IdleAmong, IdleFound
  <2>2. PICK d \in Channels : LeastRecent(o, d) /\ p = Forget(o, d)
    BY <1>0, <1>2, <2>1 DEF RoomFor, ForgetLeastRecent, HasIdle
  <2>3. ~HoldsAttempt(o, d) /\ d \in Retained(o) /\ d # c
    BY <1>0, <1>2, <2>2 DEF LeastRecent, Listed, Retained
  <2> HIDE DEF p
  <2>4. /\ p \in Owners /\ Listed(p) /\ Alike(o, p) /\ d <= p.floor
        /\ p.marks[d] = NoMark /\ \A e \in Channels \ {d} : p.marks[e] = o.marks[e]
        /\ Retained(p) = Retained(o) \ {d}
    BY <2>2, ForgetOne
  <2>5. Cardinality(Retained(p)) = Cardinality(Retained(o)) - 1
    BY <1>1, <2>3, <2>4, FS_RemoveElement
  <2>6. Cardinality(Retained(p)) < WatermarkCapacity
    BY <1>1, <2>5, AdmissionAssumption
  <2>7. Cardinality(Retained(p)) <= WatermarkCapacity
    BY <1>1, <2>5, <2>6, AdmissionAssumption
  <2> QED
    BY <2>3, <2>4, <2>6, <2>7 DEF p
<1>3. CASE ~(o.marks[c] = NoMark /\ Cardinality(Retained(o)) >= WatermarkCapacity)
  <2>1. p = o
    BY <1>3 DEF RoomFor
  <2> QED
    BY <1>0, <1>1, <1>3, <2>1, AdmissionAssumption DEF Alike
<1> QED
  BY <1>2, <1>3

\* A consultation changes nothing but the order.
LEMMA TouchedOne ==
    ASSUME NEW o \in Owners, Listed(o), NEW c \in Channels, o.marks[c] # NoMark
    PROVE  LET p == Touched(o, c) IN
           p \in Owners /\ Listed(p) /\ Alike(o, p) /\ p.marks = o.marks /\ p.floor = o.floor
<1> DEFINE p == Touched(o, c)
<1>1. /\ o.order \in Seq(Channels) /\ Distinct(o.order) /\ o.floor \in Nat
      /\ \A d \in Channels : o.marks[d] # NoMark <=> Lists(o.order, d)
  BY DEF Owners, Listed, Distinct, Lists
<1>2. /\ p.order = Append(Without(o.order, c), c) /\ p.marks = o.marks /\ p.floor = o.floor
      /\ p.attempts = o.attempts /\ p.grants = o.grants /\ p.active = o.active
      /\ p.bound = o.bound /\ p.first = o.first
  BY DEF Touched, Owners
<1>3. /\ p.order \in Seq(Channels) /\ Distinct(p.order)
      /\ \A d : Lists(p.order, d) <=> d = c \/ Lists(o.order, d)
  BY <1>1, <1>2, AppendOne
<1>4. p \in Owners
  BY <1>2, <1>3 DEF Touched, Owners
<1>5. Listed(p)
  <2>1. \A d \in Channels : p.marks[d] # NoMark <=> Lists(p.order, d)
    BY <1>1, <1>2, <1>3
  <2> QED
    BY <1>2, <1>3, <2>1 DEF Listed, Lists, Distinct
<1> QED
  BY <1>1, <1>2, <1>4, <1>5 DEF Alike

\* The types of what owners and deliveries are made of.
LEMMA IdFields ==
    ASSUME NEW id \in Ids
    PROVE  /\ id.channel \in Channels /\ id.channel \in Nat
           /\ id.sequence \in SequenceNumbers /\ id.sequence \in Nat
           /\ id = [channel |-> id.channel, sequence |-> id.sequence]
BY AdmissionAssumption DEF Ids, Channels, SequenceNumbers

\* What the watermarks of an owner are.
LEMMA OwnerFields ==
    ASSUME NEW o \in Owners
    PROVE  /\ o.floor \in Nat /\ DOMAIN o.marks = Channels /\ Channels \subseteq Nat
           /\ \A d \in Channels : /\ o.marks[d] \in Watermarks /\ o.marks[d].status \in Statuses
                                  /\ o.marks[d].sequence \in Int /\ o.marks[d].sequence >= -1
<1>1. ASSUME NEW m \in Watermarks PROVE m.status \in Statuses /\ m.sequence \in Int /\ m.sequence >= -1
  BY AdmissionAssumption DEF Watermarks, SequenceNumbers
<1> QED
  BY <1>1, AdmissionAssumption DEF Owners, Channels

\* Watermarks of other channels are kept, or forgotten without an attempt.
Thinner(o, p, c) ==
    /\ p.floor >= o.floor
    /\ \A d \in Channels \ {c} : \/ p.marks[d] = o.marks[d]
                                 \/ p.marks[d] = NoMark /\ d <= p.floor /\ ~HoldsAttempt(o, d)

\* The next position of a channel is recorded.
LEMMA RecordOne ==
    ASSUME AdmissionShape, NEW o \in Owners, Listed(o), o.attempts \subseteq DOMAIN records,
           Cardinality(o.attempts) <= AttemptCapacity,
           Cardinality(Retained(o)) <= WatermarkCapacity,
           NEW id \in Ids, NEW status \in Statuses,
           id.sequence = o.marks[id.channel].sequence + 1
    PROVE  LET p == Record(o, id, status) IN
           /\ p \in Owners /\ Listed(p) /\ Alike(o, p) /\ Thinner(o, p, id.channel)
           /\ p.marks[id.channel] = [sequence |-> id.sequence, status |-> status]
           /\ Cardinality(Retained(p)) <= WatermarkCapacity
<1> DEFINE c == id.channel
           mark == [sequence |-> id.sequence, status |-> status]
           q == RoomFor(o, c)
           p == Record(o, id, status)
<1>1. c \in Channels /\ id.sequence \in SequenceNumbers /\ id.sequence \in Nat
  BY AdmissionAssumption DEF Ids, SequenceNumbers
<1>2. /\ q \in Owners /\ Listed(q) /\ Alike(o, q) /\ q.marks[c] = o.marks[c]
      /\ \A d \in Channels : \/ q.marks[d] = o.marks[d]
                             \/ q.marks[d] = NoMark /\ d <= q.floor /\ ~HoldsAttempt(o, d)
      /\ Cardinality(Retained(q)) <= WatermarkCapacity
      /\ o.marks[c] = NoMark => Cardinality(Retained(q)) < WatermarkCapacity
  BY <1>1, RoomMade
<1>3. mark \in Watermarks /\ mark # NoMark /\ mark.sequence = id.sequence
  BY <1>1 DEF Watermarks, NoMark
<1>4. o.marks[c] \in Watermarks /\ o.marks[c].sequence \in Int
  BY <1>1, AdmissionAssumption DEF Owners, Watermarks, SequenceNumbers
<1>5. p = Touched([q EXCEPT !.marks = [@ EXCEPT ![c] = mark]], c)
  BY <1>1, <1>4 DEF Record
<1> HIDE DEF q, mark
<1>6. /\ q.order \in Seq(Channels) /\ Distinct(q.order) /\ q.marks \in [Channels -> Watermarks]
      /\ \A d \in Channels : q.marks[d] # NoMark <=> Lists(q.order, d)
  BY <1>2 DEF Owners, Listed, Distinct, Lists
<1>7. /\ p.order = Append(Without(q.order, c), c) /\ p.marks = [q.marks EXCEPT ![c] = mark]
      /\ p.floor = q.floor /\ p.attempts = q.attempts /\ p.grants = q.grants
      /\ p.active = q.active /\ p.bound = q.bound /\ p.first = q.first
  BY <1>2, <1>5 DEF Touched, Owners
<1>8. /\ Append(Without(q.order, c), c) \in Seq(Channels)
      /\ Distinct(Append(Without(q.order, c), c))
      /\ \A d : Lists(Append(Without(q.order, c), c), d) <=> d = c \/ Lists(q.order, d)
  BY <1>1, <1>6, AppendOne
<1>9. p \in Owners
  <2> DEFINE m == [q EXCEPT !.marks = [@ EXCEPT ![c] = mark]]
  <2>1. m \in Owners /\ m.order = q.order
    BY <1>1, <1>2, <1>3, <1>6 DEF Owners
  <2> HIDE DEF m
  <2>2. [m EXCEPT !.order = Append(Without(q.order, c), c)] \in Owners
    BY <1>8, <2>1 DEF Owners
  <2> QED
    BY <1>5, <2>1, <2>2 DEF Touched, m
<1> HIDE DEF p
<1>10. p.marks[c] = mark /\ \A d \in Channels \ {c} : p.marks[d] = q.marks[d]
  BY <1>1, <1>6, <1>7
<1>11. Listed(p)
  <2>1. \A d \in Channels : p.marks[d] # NoMark <=> Lists(p.order, d)
    BY <1>1, <1>3, <1>6, <1>7, <1>8, <1>10
  <2>2. \A d \in Channels : p.marks[d].sequence = -1 => p.marks[d] = NoMark
    BY <1>1, <1>2, <1>3, <1>10 DEF Listed
  <2> QED
    BY <1>7, <1>8, <2>1, <2>2 DEF Listed, Lists, Distinct
<1>12. Retained(p) = Retained(q) \cup {c}
  BY <1>1, <1>3, <1>6, <1>7, <1>10 DEF Retained
<1>13. Cardinality(Retained(p)) <= WatermarkCapacity
  <2>1. IsFiniteSet(Retained(q)) /\ Cardinality(Retained(q)) \in Nat
    BY <1>2, CountsFinite
  <2>2. Cardinality(Retained(p)) =
          IF c \in Retained(q) THEN Cardinality(Retained(q)) ELSE Cardinality(Retained(q)) + 1
    BY <1>12, <2>1, FS_AddElement
  <2>3. c \in Retained(q) <=> o.marks[c] # NoMark
    BY <1>1, <1>2, <1>6 DEF Retained
  <2> QED
    BY <1>2, <2>1, <2>2, <2>3, AdmissionAssumption
<1>14. Alike(o, p) /\ Thinner(o, p, c)
  BY <1>2, <1>7, <1>10 DEF Alike, Thinner
<1> QED
  BY <1>9, <1>10, <1>11, <1>13, <1>14 DEF p, mark

\* What is over stays over as watermarks move on.
LEMMA PassedKept ==
    ASSUME NEW o \in Owners, NEW p \in Owners, p.attempts \subseteq o.attempts,
           NEW c \in Channels, Thinner(o, p, c), ~Forgotten(o, c),
           p.marks[c] # NoMark, p.marks[c].sequence >= o.marks[c].sequence,
           NEW id \in Ids, Passed(o, id)
    PROVE  Passed(p, id)
<1>1. /\ id.channel \in Channels /\ id.sequence \in Int /\ id.channel \in Int
      /\ o.floor \in Int /\ p.floor \in Int
      /\ \A d \in Channels : o.marks[d].sequence \in Int /\ p.marks[d].sequence \in Int
  BY IdFields, OwnerFields
<1>2. \A d : HoldsAttempt(p, d) => HoldsAttempt(o, d)
  BY DEF HoldsAttempt, AttemptsOn
<1>3. CASE id.channel = c
  BY <1>1, <1>3 DEF Passed
<1>4. CASE id.channel # c
  <2>1. CASE p.marks[id.channel] = o.marks[id.channel]
    BY <1>1, <1>2, <2>1 DEF Passed, Forgotten, Thinner
  <2>2. CASE p.marks[id.channel] = NoMark /\ id.channel <= p.floor /\ ~HoldsAttempt(o, id.channel)
    BY <1>2, <2>2 DEF Passed, Forgotten
  <2> QED
    BY <1>1, <1>4, <2>1, <2>2 DEF Thinner
<1> QED
  BY <1>3, <1>4

\* What an admission record is.
LEMMA RecordFields ==
    ASSUME AdmissionShape, NEW r \in DOMAIN records
    PROVE  /\ records[r] \in AdmissionRecords /\ IdOf(r) \in Ids /\ r \in Nat
           /\ records[r].channel \in Channels /\ records[r].sequence \in Nat
           /\ IdOf(r).channel = records[r].channel /\ IdOf(r).sequence = records[r].sequence
           /\ records[r].state \in RecordStates
<1>1. records[r] \in AdmissionRecords /\ r \in Nat
  BY DEF AdmissionShape
<1> QED
  BY <1>1, AdmissionAssumption DEF AdmissionRecords, IdOf, Ids, SequenceNumbers

\* A record is told by its delivery, in the owner's order of a channel.
LEMMA OneOfId ==
    ASSUME AdmissionShape, ChannelOrder, NEW r \in DOMAIN records, NEW q \in DOMAIN records,
           IdOf(r) = IdOf(q)
    PROVE  r = q
<1>1. /\ r \in Nat /\ q \in Nat /\ records[r].channel = records[q].channel
      /\ records[r].sequence = records[q].sequence /\ records[r].sequence \in Nat
  BY RecordFields
<1> QED
  BY <1>1 DEF ChannelOrder

\* What the owner knows of records, and its watermarks tell while it is the first.
OwnerInv(o) == Core(o) /\ Attended(o) /\ (o.first => Past(o) /\ MarksTell(o))

\* No delivery that was over, or that an attempt was at, is let go of.
Moved(o, p) ==
    /\ p.first = o.first /\ p.attempts \subseteq o.attempts
    /\ \A id \in Ids : Passed(o, id) => Passed(p, id)
    /\ \A r \in o.attempts : r \in p.attempts \/ Passed(p, IdOf(r))

\* Two moves of the owner are one.
LEMMA MovedOn == ASSUME NEW o, NEW p, NEW q, Moved(o, p), Moved(p, q), AdmissionShape,
                        o.attempts \subseteq DOMAIN records
                 PROVE  Moved(o, q)
<1>1. \A r \in o.attempts : IdOf(r) \in Ids
  BY RecordFields
<1> QED
  BY <1>1 DEF Moved

\* Another order, and fewer grants.
Resembles(o, p) ==
    /\ p \in Owners /\ Listed(p) /\ p.attempts = o.attempts /\ p.grants \subseteq o.grants
    /\ p.first = o.first /\ p.marks = o.marks /\ p.floor = o.floor

\* An owner that resembles another knows what it knew.
LEMMA ResemblesMoves ==
    ASSUME NEW o, NEW p, OwnerInv(o), Resembles(o, p)
    PROVE  OwnerInv(p) /\ Moved(o, p) /\ \A id : Passed(p, id) <=> Passed(o, id)
<1>1. \A id : Passed(p, id) <=> Passed(o, id)
  BY DEF Resembles, Passed, Forgotten, HoldsAttempt, AttemptsOn
<1>2. Core(p) /\ Attended(p)
  BY DEF OwnerInv, Resembles, Core, Retained, Attended
<1> QED
  BY <1>1, <1>2 DEF OwnerInv, Resembles, Past, MarksTell, Moved

\* An attempt is retired with a status: its channel's watermark moves on to it.
LEMMA RetireOne ==
    ASSUME AdmissionShape, NEW o, Core(o), NEW r \in o.attempts, NEW status \in Statuses
    PROVE  LET p == Retire(o, r, status)
               c == records[r].channel IN
           /\ Core(p) /\ Moved(o, p) /\ Thinner(o, p, c) /\ p.attempts = o.attempts \ {r}
           /\ p.marks[c] = [sequence |-> records[r].sequence, status |-> status]
           /\ Passed(p, IdOf(r)) /\ p.bound = o.bound
<1> DEFINE c == records[r].channel
           w == Record(o, IdOf(r), status)
           p == Retire(o, r, status)
<1>1. o \in Owners /\ Listed(o) /\ o.attempts \subseteq DOMAIN records /\ r \in DOMAIN records
  BY DEF Core
<1>2. /\ IdOf(r) \in Ids /\ IdOf(r).channel = c /\ IdOf(r).sequence = records[r].sequence
      /\ c \in Channels /\ records[r].sequence \in Nat
  BY <1>1, RecordFields
<1>3. records[r].sequence = o.marks[c].sequence + 1
  BY DEF Core
<1>4. /\ w \in Owners /\ Listed(w) /\ Alike(o, w) /\ Thinner(o, w, c)
      /\ w.marks[c] = [sequence |-> records[r].sequence, status |-> status]
      /\ Cardinality(Retained(w)) <= WatermarkCapacity
  <2>1. Cardinality(o.attempts) <= AttemptCapacity /\ Cardinality(Retained(o)) <= WatermarkCapacity
    BY DEF Core
  <2> QED
    BY <1>1, <1>2, <1>3, <2>1, RecordOne
<1>5. /\ p \in Owners /\ p.attempts = w.attempts \ {r} /\ p.grants = w.grants \ {r}
      /\ p.marks = w.marks /\ p.order = w.order /\ p.floor = w.floor
      /\ p.first = w.first /\ p.bound = w.bound
  <2> HIDE DEF w
  <2> DEFINE g == IF w.active[c] = records[r].sequence THEN [w.active EXCEPT ![c] = -1] ELSE w.active
  <2>1. p = [w EXCEPT !.attempts = @ \ {r}, !.grants = @ \ {r}, !.active = g]
    BY DEF Retire, w
  <2>2. g \in [Channels -> Int]
    BY <1>2, <1>4 DEF Owners
  <2>3. w.attempts \ {r} \in SUBSET Nat /\ w.grants \ {r} \in SUBSET Nat
    BY <1>4 DEF Owners
  <2> HIDE DEF g
  <2> QED
    BY <1>4, <2>1, <2>2, <2>3 DEF Owners
<1> HIDE DEF w, p
<1>6. Thinner(o, p, c) /\ p.attempts = o.attempts \ {r} /\ p.first = o.first /\ p.bound = o.bound
  BY <1>4, <1>5 DEF Thinner, Alike
<1>7. Core(p)
  <2>1. \A q \in p.attempts : records[q].channel # c /\ q \in o.attempts
    BY <1>6 DEF Core
  <2>2. ASSUME NEW q \in p.attempts
        PROVE  records[q].sequence = p.marks[records[q].channel].sequence + 1
    <3>1. records[q].channel \in Channels \ {c} /\ q \in o.attempts
      BY <1>1, <2>1, RecordFields
    <3>2. HoldsAttempt(o, records[q].channel)
      BY <3>1 DEF HoldsAttempt, AttemptsOn
    <3>3. p.marks[records[q].channel] = o.marks[records[q].channel]
      BY <1>6, <3>1, <3>2 DEF Thinner
    <3> QED
      BY <3>1, <3>3 DEF Core
  <2>3. Listed(p) /\ Retained(p) = Retained(w)
    BY <1>4, <1>5 DEF Listed, Retained
  <2>4. Cardinality(p.attempts) <= AttemptCapacity
    <3>1. IsFiniteSet(o.attempts) /\ Cardinality(o.attempts) \in Nat
      BY <1>1, CountsFinite
    <3>2. Cardinality(p.attempts) = Cardinality(o.attempts) - 1
      BY <1>6, <3>1, FS_RemoveElement
    <3> QED
      BY <3>1, <3>2, AdmissionAssumption DEF Core
  <2>5. p.attempts \subseteq DOMAIN records /\ p.grants \subseteq p.attempts
    BY <1>1, <1>4, <1>5, <1>6 DEF Core, Alike
  <2>6. \A q, x \in p.attempts : records[q].channel = records[x].channel => q = x
    BY <2>1 DEF Core
  <2> QED
    BY <1>4, <1>5, <2>2, <2>3, <2>4, <2>5, <2>6 DEF Core
<1>8. p.marks[c] = [sequence |-> records[r].sequence, status |-> status] /\ p.marks[c] # NoMark
  BY <1>2, <1>4, <1>5 DEF NoMark
<1>9. Passed(p, IdOf(r))
  BY <1>2, <1>8 DEF Passed
<1>10. \A id \in Ids : Passed(o, id) => Passed(p, id)
  <2>1. HoldsAttempt(o, c)
    BY DEF HoldsAttempt, AttemptsOn
  <2>2. p.marks[c].sequence >= o.marks[c].sequence
    BY <1>1, <1>2, <1>3, <1>8, OwnerFields
  <2> QED
    BY <1>1, <1>2, <1>5, <1>6, <1>8, <2>1, <2>2, PassedKept DEF Forgotten
<1>11. Moved(o, p)
  BY <1>6, <1>9, <1>10 DEF Moved
<1> QED
  BY <1>6, <1>7, <1>8, <1>9, <1>11 DEF p

\* The status of a record is told by its state.
LEMMA StatusOf ==
    ASSUME AdmissionShape, NEW r \in DOMAIN records
    PROVE  /\ Status(r) \in Statuses
           /\ Status(r) = "Admitted" <=> records[r].state = "admitted"
           /\ Status(r) \in {"Rejected", "Cancelled"} <=> records[r].state \in {"rejected", "cancelled"}
<1>1. records[r].state \in RecordStates
  BY RecordFields
<1> QED
  BY <1>1 DEF RecordStates, Status, Statuses

\* The state of a record that is the only one of its delivery.
LEMMA StatusTells ==
    ASSUME AdmissionShape, ChannelOrder, NEW r \in DOMAIN records, ~Unadmitted(r)
    PROVE  Told(IdOf(r), Status(r))
<1>1. Status(r) = "Admitted" => r \in AdmittedRecords(IdOf(r))
  BY StatusOf DEF AdmittedRecords, AdmittedRecord
<1>2. Status(r) \in {"Rejected", "Cancelled"} => AdmittedRecords(IdOf(r)) = {}
  BY StatusOf, OneOfId DEF AdmittedRecords, AdmittedRecord
<1> QED
  BY <1>1, <1>2 DEF Told

\* A decided attempt is retired with its status.
LEMMA RetireDecided ==
    ASSUME AdmissionShape, NEW o, OwnerInv(o), o.first => ChannelOrder,
           NEW r \in o.attempts, ~Unadmitted(r)
    PROVE  LET p == Retire(o, r, Status(r)) IN
           OwnerInv(p) /\ Moved(o, p) /\ p.attempts = o.attempts \ {r} /\ p.bound = o.bound
<1> DEFINE c == records[r].channel
           p == Retire(o, r, Status(r))
<1>1. Core(o) /\ r \in DOMAIN records /\ o.attempts \subseteq DOMAIN records
  BY DEF OwnerInv, Core
<1>2. Status(r) \in Statuses
  BY <1>1, StatusOf
<1>3. /\ Core(p) /\ Moved(o, p) /\ Thinner(o, p, c) /\ p.attempts = o.attempts \ {r}
      /\ p.marks[c] = [sequence |-> records[r].sequence, status |-> Status(r)]
      /\ Passed(p, IdOf(r)) /\ p.bound = o.bound
  BY <1>1, <1>2, RetireOne
<1> HIDE DEF p
<1>4. Attended(p)
  BY <1>3 DEF OwnerInv, Attended
<1>5. ASSUME p.first PROVE Past(p) /\ MarksTell(p)
  <2>1. o.first /\ Past(o) /\ MarksTell(o) /\ ChannelOrder
    BY <1>3, <1>5 DEF Moved, OwnerInv
  <2>2. Past(p)
    <3> SUFFICES ASSUME NEW q \in DOMAIN records PROVE q \in p.attempts \/ Passed(p, IdOf(q))
      BY DEF Past
    <3>1. IdOf(q) \in Ids
      BY RecordFields
    <3> QED
      BY <1>3, <2>1, <3>1 DEF Past, Moved
  <2>3. ASSUME NEW d \in Channels, p.marks[d] # NoMark
        PROVE  Told([channel |-> d, sequence |-> p.marks[d].sequence], p.marks[d].status)
    <3>1. CASE d = c
      <4>1. [channel |-> d, sequence |-> p.marks[d].sequence] = IdOf(r) /\ p.marks[d].status = Status(r)
        BY <1>3, <3>1 DEF IdOf
      <4> QED
        BY <1>1, <2>1, <4>1, StatusTells
    <3>2. CASE d # c
      BY <1>3, <2>1, <2>3, <3>2 DEF Thinner, MarksTell
    <3> QED
      BY <3>1, <3>2
  <2> QED
    BY <2>2, <2>3 DEF MarksTell
<1> QED
  BY <1>3, <1>4, <1>5 DEF OwnerInv, p

\* An owner that stays lets go of nothing.
LEMMA MovesToItself == ASSUME NEW o PROVE Moved(o, o)
BY DEF Moved

\* A resolved predecessor is retired, or nothing is.
LEMMA PredecessorRetired ==
    ASSUME AdmissionShape, NEW o, OwnerInv(o), o.first => ChannelOrder, NEW id \in Ids
    PROVE  LET p == RetireResolvedPredecessor(o, id) IN
           OwnerInv(p) /\ Moved(o, p) /\ p.bound = o.bound
<1> DEFINE before == {r \in AttemptsOn(o, id.channel) :
                        records[r].sequence = id.sequence - 1 /\ ~Unadmitted(r)}
<1>1. CASE before = {}
  BY <1>1, MovesToItself DEF RetireResolvedPredecessor
<1>2. CASE before # {}
  <2>1. PICK r \in before : RetireResolvedPredecessor(o, id) = Retire(o, r, Status(r))
    BY <1>2 DEF RetireResolvedPredecessor
  <2>2. r \in o.attempts /\ ~Unadmitted(r)
    BY <2>1 DEF AttemptsOn
  <2> QED
    BY <2>1, <2>2, RetireDecided
<1> QED
  BY <1>1, <1>2

\* Consulting a watermark, and freeing a channel.
LEMMA ConsultedSame ==
    ASSUME NEW o, OwnerInv(o), NEW c \in Channels
    PROVE  Resembles(o, Consulted(o, c)) /\ Resembles(o, Freed(o, c))
<1>1. o \in Owners /\ Listed(o)
  BY DEF OwnerInv, Core
<1>2. Resembles(o, o)
  BY <1>1 DEF Resembles
<1>3. Resembles(o, Consulted(o, c))
  BY <1>1, <1>2, TouchedOne DEF Consulted, Resembles, Alike
<1>4. Freed(o, c) \in Owners /\ Freed(o, c).marks = o.marks /\ Freed(o, c).order = o.order
      /\ Freed(o, c).attempts = o.attempts /\ Freed(o, c).grants = o.grants
      /\ Freed(o, c).first = o.first /\ Freed(o, c).floor = o.floor
  <2> DEFINE g == [o.active EXCEPT ![c] = -1]
  <2>1. o.active \in [Channels -> Int]
    BY <1>1 DEF Owners
  <2>2. g \in [Channels -> Int]
    BY <2>1
  <2>3. Freed(o, c) = [o EXCEPT !.active = g]
    BY DEF Freed
  <2> HIDE DEF g
  <2> QED
    BY <1>1, <2>2, <2>3 DEF Owners
<1>5. Listed(Freed(o, c))
  BY <1>1, <1>4 DEF Listed
<1> QED
  BY <1>3, <1>4, <1>5 DEF Resembles

\* A retired status is final, and there is none of what is not over.
LEMMA RetiredTells ==
    ASSUME AdmissionShape, NEW o, OwnerInv(o), NEW id \in Ids
    PROVE  /\ RetiredStatus(o, id) = "None" <=> ~Passed(o, id)
           /\ RetiredStatus(o, id) \in Statuses \cup {"None"}
           /\ o.first => Final(o, id, RetiredStatus(o, id))
<1> DEFINE c == id.channel
           mark == o.marks[c]
<1>1. /\ o \in Owners /\ c \in Channels /\ id.sequence \in Nat
      /\ mark.sequence \in Int /\ mark.status \in Statuses
  BY IdFields, OwnerFields DEF OwnerInv, Core
<1>2. "None" \notin Statuses /\ "Retired" \in Statuses /\ "Retired" \notin {"None", "Admitted", "Rejected", "Cancelled"}
  BY DEF Statuses
<1>3. RetiredStatus(o, id) = "None" <=> ~Passed(o, id)
  BY <1>1, <1>2 DEF RetiredStatus, Passed, Forgotten
<1>4. RetiredStatus(o, id) \in Statuses \cup {"None"}
  BY <1>1, <1>2 DEF RetiredStatus
<1>5. ASSUME o.first, mark # NoMark, id.sequence = mark.sequence, RetiredStatus(o, id) = mark.status
      PROVE  Final(o, id, mark.status)
  <2>1. Told(id, mark.status)
    <3>1. id = [channel |-> c, sequence |-> mark.sequence]
      BY <1>5, IdFields
    <3> QED
      BY <1>1, <1>5, <3>1 DEF OwnerInv, MarksTell
  <2>2. \A r \in DOMAIN records : IdOf(r) = id => ~Unadmitted(r)
    <3> SUFFICES ASSUME NEW r \in DOMAIN records, IdOf(r) = id, Unadmitted(r) PROVE FALSE
      OBVIOUS
    <3>1. r \in o.attempts /\ records[r].channel = c /\ records[r].sequence = mark.sequence
      BY <1>5, RecordFields DEF OwnerInv, Attended
    <3>2. records[r].sequence = mark.sequence + 1
      BY <3>1 DEF OwnerInv, Core
    <3> QED
      BY <1>1, <3>1, <3>2
  <2>3. ASSUME AdmittedRecords(id) = {} PROVE Failed(o, id)
    <3>1. \A r \in DOMAIN records : IdOf(r) = id => records[r].state \in {"rejected", "cancelled"}
      BY <2>2, <2>3, RecordFields DEF AdmittedRecords, AdmittedRecord, Unadmitted, RecordStates
    <3>2. Passed(o, id)
      BY <1>1, <1>5 DEF Passed
    <3> QED
      BY <3>1, <3>2 DEF Failed
  <2> QED
    BY <2>1, <2>3 DEF Told, Final
<1>6. o.first => Final(o, id, RetiredStatus(o, id))
  <2>1. CASE mark # NoMark /\ id.sequence = mark.sequence
    <3>1. RetiredStatus(o, id) = mark.status
      BY <1>1, <2>1 DEF RetiredStatus
    <3> QED
      BY <1>5, <2>1, <3>1
  <2>2. CASE ~(mark # NoMark /\ id.sequence = mark.sequence)
    <3>1. RetiredStatus(o, id) \in {"None", "Retired"}
      BY <1>1, <2>2 DEF RetiredStatus
    <3> QED
      BY <3>1 DEF Final
  <2> QED
    BY <2>1, <2>2
<1> QED
  BY <1>3, <1>4, <1>6

\* What may follow is the next position, and not over.
LEMMA FollowsNext ==
    ASSUME NEW o, OwnerInv(o), NEW id \in Ids, CanFollow(o, id)
    PROVE  /\ id.sequence = o.marks[id.channel].sequence + 1
           /\ ~Forgotten(o, id.channel) /\ ~Passed(o, id)
<1>1. /\ o \in Owners /\ id.channel \in Channels /\ id.sequence \in Nat
      /\ o.marks[id.channel].sequence \in Int
  BY IdFields, OwnerFields DEF OwnerInv, Core
<1>2. NoMark.sequence = -1
  BY DEF NoMark
<1> QED
  BY <1>1, <1>2 DEF CanFollow, Passed, Forgotten

\* Records keep what they are of, and what was decided.
Decides ==
    /\ DOMAIN records' = DOMAIN records
    /\ \A r \in DOMAIN records :
         /\ records'[r].channel = records[r].channel /\ records'[r].sequence = records[r].sequence
         /\ records'[r] = records[r] \/ Unadmitted(r)

\* Deciding records changes neither deliveries, attempts nor what is over.
LEMMA DecidesSame ==
    ASSUME Decides, NEW p, p.attempts \subseteq DOMAIN records
    PROVE  /\ \A r \in DOMAIN records : IdOf(r)' = IdOf(r)
           /\ \A id : AttemptAt(p, id)' = AttemptAt(p, id)
           /\ \A c : HoldsAttempt(p, c)' <=> HoldsAttempt(p, c)
           /\ \A id : Passed(p, id)' <=> Passed(p, id)
           /\ \A r \in DOMAIN records : Unadmitted(r)' => Unadmitted(r)
           /\ \A id : AdmittedRecords(id) \subseteq AdmittedRecords(id)'
<1>1. \A r \in DOMAIN records : IdOf(r)' = IdOf(r)
  BY DEF Decides, IdOf
<1>2. \A id : AttemptAt(p, id)' = AttemptAt(p, id)
  BY <1>1 DEF AttemptAt
<1>3. \A c : HoldsAttempt(p, c)' <=> HoldsAttempt(p, c)
  BY DEF Decides, HoldsAttempt, AttemptsOn
<1>4. \A id : Passed(p, id)' <=> Passed(p, id)
  BY <1>3 DEF Passed, Forgotten
<1>5. \A r \in DOMAIN records : Unadmitted(r)' => Unadmitted(r)
  BY DEF Decides, Unadmitted
<1>6. \A id : AdmittedRecords(id) \subseteq AdmittedRecords(id)'
  BY <1>1 DEF Decides, AdmittedRecords, AdmittedRecord, Unadmitted
<1> QED
  BY <1>1, <1>2, <1>3, <1>4, <1>5, <1>6

\* What failed stays failed.
LEMMA FailedKept ==
    ASSUME AdmissionShape, Decides, NEW o, NEW p, Moved(o, p), o.attempts \subseteq DOMAIN records,
           NEW id \in Ids, Failed(o, id)
    PROVE  Failed(p, id)'
<1>1. /\ \A r \in DOMAIN records : IdOf(r)' = IdOf(r)
      /\ p.attempts \subseteq DOMAIN records
      /\ AttemptAt(p, id)' = AttemptAt(p, id) /\ (Passed(p, id)' <=> Passed(p, id))
  BY DecidesSame DEF Moved
<1>2. \A r \in DOMAIN records : IdOf(r) = id => records'[r] = records[r]
  BY DEF Decides, Failed, Unadmitted
<1>3. ASSUME NEW r \in DOMAIN records', IdOf(r)' = id PROVE records'[r].state \in {"rejected", "cancelled"}
  BY <1>1, <1>2, <1>3 DEF Decides, Failed
<1>4. AttemptAt(p, id) # {} \/ Passed(p, id)
  BY DEF Failed, Moved, AttemptAt
<1> QED
  BY <1>1, <1>3, <1>4 DEF Failed

\* Deciding records leaves the owner's watermarks and attempts in agreement.
LEMMA CoreKept ==
    ASSUME Decides, NEW p, Core(p)
    PROVE  Core(p)'
<1>1. p \in Owners /\ p.attempts \subseteq DOMAIN records /\ p.grants \subseteq p.attempts /\ Listed(p)
  BY DEF Core
<1>2. \A r \in p.attempts : records'[r].sequence = p.marks[records'[r].channel].sequence + 1
  BY <1>1 DEF Core, Decides
<1>3. \A r, q \in p.attempts : records'[r].channel = records'[q].channel => r = q
  BY <1>1 DEF Core, Decides
<1> QED
  BY <1>1, <1>2, <1>3 DEF Core, Decides

\* A watermark tells of records that are decided.
LEMMA ToldKept ==
    ASSUME AdmissionShape, Decides, NEW o, Core(o), Attended(o), MarksTell(o),
           NEW c \in Channels, o.marks[c] # NoMark
    PROVE  Told([channel |-> c, sequence |-> o.marks[c].sequence], o.marks[c].status)'
<1> DEFINE id == [channel |-> c, sequence |-> o.marks[c].sequence]
<1>1. Told(id, o.marks[c].status)
  BY DEF MarksTell
<1>2. o.attempts \subseteq DOMAIN records /\ o.marks[c].sequence \in Int
  BY OwnerFields DEF Core
<1>3. \A r \in DOMAIN records : IdOf(r)' = IdOf(r)
  BY <1>2, DecidesSame
<1>4. ASSUME NEW r \in DOMAIN records, IdOf(r) = id PROVE records'[r] = records[r]
  <2> SUFFICES ASSUME Unadmitted(r) PROVE FALSE
    BY DEF Decides
  <2>1. r \in o.attempts /\ records[r].channel = c /\ records[r].sequence = o.marks[c].sequence
    BY <1>4 DEF Attended, IdOf
  <2> QED
    BY <1>2, <2>1 DEF Core
<1>5. AdmittedRecords(id)' = AdmittedRecords(id)
  BY <1>3, <1>4 DEF AdmittedRecords, AdmittedRecord, Decides
<1> QED
  BY <1>1, <1>5 DEF Told

\* A step of the owner that may decide records.
LEMMA DecidingStep ==
    ASSUME AdmissionInv, AdmissionShape', Decides, NEW p, p = owner', Core(p), Moved(owner, p),
           \A r \in owner.attempts \ p.attempts : ~Unadmitted(r)',
           owner.first =>
             \A c \in Channels : \/ p.marks[c] \in {owner.marks[c], NoMark}
                                 \/ Told([channel |-> c, sequence |-> p.marks[c].sequence],
                                         p.marks[c].status)',
           owner.first => \A id \in heard' \ heard : AdmittedRecords(id)' # {},
           owner.first => \A reply \in replies' \ replies : Final(p, reply.id, reply.status)',
           owner.first => \A id \in Ids : \/ outcome'[id] = outcome[id]
                                          \/ outcome'[id] = "failed" /\ Failed(p, id)'
                                          \/ outcome'[id] = "admitted" /\ AdmittedRecords(id)' # {}
    PROVE  AdmissionInv'
<1>1. /\ AdmissionShape /\ Core(owner) /\ Attended(owner) /\ OneUndecided
      /\ owner.first => ChannelOrder /\ Past(owner) /\ MarksTell(owner) /\ Conclusions
  BY DEF AdmissionInv
<1>2. /\ owner.attempts \subseteq DOMAIN records /\ p.attempts \subseteq DOMAIN records
      /\ DOMAIN records' = DOMAIN records
  BY <1>1 DEF Core, Decides
<1>3. /\ \A r \in DOMAIN records : IdOf(r)' = IdOf(r)
      /\ \A id : Passed(p, id)' <=> Passed(p, id)
      /\ \A r \in DOMAIN records : Unadmitted(r)' => Unadmitted(r)
      /\ \A id : AdmittedRecords(id) \subseteq AdmittedRecords(id)'
  BY <1>2, DecidesSame
<1>4. Core(owner)'
  BY CoreKept
<1>5. Attended(owner)'
  BY <1>1, <1>2, <1>3 DEF Attended
<1>6. OneUndecided'
  BY <1>1, <1>2, <1>3 DEF OneUndecided, Decides
<1>7. ASSUME owner'.first PROVE (ChannelOrder /\ Past(owner) /\ MarksTell(owner) /\ Conclusions)'
  <2>1. owner.first /\ ChannelOrder /\ Past(owner) /\ MarksTell(owner) /\ Conclusions
    BY <1>1, <1>7 DEF Moved
  <2>2. ChannelOrder'
    BY <2>1 DEF ChannelOrder, Decides
  <2>3. Past(owner)'
    <3> SUFFICES ASSUME NEW r \in DOMAIN records PROVE r \in p.attempts \/ Passed(p, IdOf(r))
      BY <1>2, <1>3 DEF Past
    <3>1. IdOf(r) \in Ids
      BY <1>1, RecordFields
    <3> QED
      BY <2>1, <3>1 DEF Past, Moved
  <2>4. MarksTell(owner)'
    <3> SUFFICES ASSUME NEW c \in Channels, p.marks[c] # NoMark
                 PROVE  Told([channel |-> c, sequence |-> p.marks[c].sequence], p.marks[c].status)'
      BY DEF MarksTell
    <3>2. CASE p.marks[c] = owner.marks[c]
      <4>1. PICK o : o = owner
        OBVIOUS
      <4>2. Core(o) /\ Attended(o) /\ MarksTell(o) /\ o.marks[c] = p.marks[c] /\ o.marks[c] # NoMark
        BY <1>1, <2>1, <3>2, <4>1
      <4>3. Told([channel |-> c, sequence |-> o.marks[c].sequence], o.marks[c].status)'
        BY <1>1, <4>2, ToldKept
      <4> QED
        BY <4>2, <4>3
    <3>3. CASE p.marks[c] # owner.marks[c]
      BY <2>1, <3>3
    <3> QED
      BY <3>2, <3>3
  <2>5. \A id \in Ids : Failed(owner, id) => Failed(p, id)'
    <3>1. PICK o : o = owner
      OBVIOUS
    <3>2. Moved(o, p) /\ o.attempts \subseteq DOMAIN records
      BY <1>2, <3>1
    <3>3. \A id \in Ids : Failed(o, id) => Failed(p, id)'
      BY <1>1, <3>2, FailedKept
    <3> QED
      BY <3>1, <3>3
  <2>6. \A id \in heard' : AdmittedRecords(id)' # {}
    BY <1>3, <2>1 DEF Conclusions
  <2>7. ASSUME NEW reply \in replies' PROVE Final(p, reply.id, reply.status)'
    <3>1. CASE reply \in replies
      <4>1. Final(owner, reply.id, reply.status) /\ reply.id \in Ids
        BY <1>1, <2>1, <3>1 DEF Conclusions, AdmissionShape
      <4> QED
        BY <1>3, <2>5, <4>1 DEF Final
    <3>2. CASE reply \notin replies
      BY <2>1, <2>7, <3>2
    <3> QED
      BY <3>1, <3>2
  <2>8. ASSUME NEW id \in Ids
        PROVE  /\ outcome'[id] = "failed" => Failed(p, id)'
               /\ outcome'[id] = "admitted" => AdmittedRecords(id)' # {}
    BY <1>3, <2>1, <2>5, <2>8 DEF Conclusions
  <2>9. Conclusions'
    BY <2>6, <2>7, <2>8 DEF Conclusions
  <2> QED
    BY <2>2, <2>3, <2>4, <2>9
<1> QED
  BY <1>4, <1>5, <1>6, <1>7 DEF AdmissionInv

\* A step that leaves the records alone.
LEMMA OwnerStep ==
    ASSUME AdmissionInv, AdmissionShape', UNCHANGED records, NEW p, p = owner',
           OwnerInv(p), Moved(owner, p),
           owner.first => \A id \in heard' \ heard : AdmittedRecords(id) # {},
           owner.first => \A reply \in replies' \ replies : Final(p, reply.id, reply.status),
           owner.first => \A id \in Ids : \/ outcome'[id] = outcome[id]
                                          \/ outcome'[id] = "failed" /\ Failed(p, id)
                                          \/ outcome'[id] = "admitted" /\ AdmittedRecords(id) # {}
    PROVE  AdmissionInv'
<1>1. Decides
  BY DEF Decides
<1>2. /\ \A r : IdOf(r)' = IdOf(r) /\ (Unadmitted(r)' <=> Unadmitted(r))
      /\ \A id : AdmittedRecords(id)' = AdmittedRecords(id) /\ AttemptAt(p, id)' = AttemptAt(p, id)
      /\ \A id : Passed(p, id)' <=> Passed(p, id)
  BY DEF IdOf, Unadmitted, AdmittedRecords, AdmittedRecord, AttemptAt, Passed, Forgotten,
         HoldsAttempt, AttemptsOn
<1>3. \A id : Failed(p, id)' <=> Failed(p, id)
  BY <1>2 DEF Failed
<1>4. \A id, status : (Final(p, id, status)' <=> Final(p, id, status))
                      /\ (Told(id, status)' <=> Told(id, status))
  BY <1>2, <1>3 DEF Final, Told
<1>5. \A r \in owner.attempts \ p.attempts : ~Unadmitted(r)'
  BY <1>2 DEF OwnerInv, Attended, AdmissionInv, Core
<1>6. owner.first =>
        \A c \in Channels : \/ p.marks[c] \in {owner.marks[c], NoMark}
                            \/ Told([channel |-> c, sequence |-> p.marks[c].sequence],
                                    p.marks[c].status)'
  BY <1>4 DEF OwnerInv, MarksTell, Moved
<1> QED
  BY <1>1, <1>2, <1>3, <1>4, <1>5, <1>6, DecidingStep DEF OwnerInv

\* The steps of a sender.
LEMMA CurrentId ==
    ASSUME AdmissionShape, NEW s \in Slots, outbound[s].pc # "idle"
    PROVE  Current(s) \in Ids
<1>1. /\ outbound[s].channel \in 0 .. MaxChannel /\ outbound[s].channel # 0
      /\ outbound[s].next \in 0 .. (MaxSequence + 1) /\ outbound[s].next # 0
  BY DEF AdmissionShape, OutboundSlots
<1>2. outbound[s].channel \in Channels /\ outbound[s].next - 1 \in SequenceNumbers
  BY <1>1, AdmissionAssumption DEF Channels, SequenceNumbers
<1> QED
  BY <1>2 DEF Current, Ids

\* A slot that is replaced by one of its type.
LEMMA SlotKept ==
    ASSUME AdmissionShape, NEW s \in Slots, NEW v \in OutboundSlots,
           outbound' = [outbound EXCEPT ![s] = v]
    PROVE  outbound' \in [Slots -> OutboundSlots]
BY DEF AdmissionShape

\* A slot that goes on to wait, or comes to rest.
LEMMA SlotWaits ==
    ASSUME AdmissionShape, NEW s \in Slots, NEW pc \in {"idle", "resolving"},
           outbound[s].pc # "idle" \/ pc = "idle",
           outbound' = [outbound EXCEPT ![s].pc = pc]
    PROVE  outbound' \in [Slots -> OutboundSlots]
<1>1. outbound[s] \in OutboundSlots
  BY DEF AdmissionShape
<1>2. PICK u : u = outbound[s]
  OBVIOUS
<1>3. [u EXCEPT !.pc = pc] \in OutboundSlots
  BY <1>1, <1>2 DEF OutboundSlots
<1>4. outbound' = [outbound EXCEPT ![s] = [u EXCEPT !.pc = pc]]
  BY <1>2
<1> QED
  BY <1>3, <1>4, SlotKept

\* A sender keeps the types.
LEMMA SenderShape ==
    ASSUME AdmissionShape, NEW s \in Slots, Sender(s)
    PROVE  AdmissionShape'
<1>0. MaxChannel \in Nat /\ MaxSequence \in Nat
  BY AdmissionAssumption
<1>1. outbound[s] \in OutboundSlots /\ opened \in 0 .. MaxChannel /\ outcome \in [Ids -> {"unknown", "admitted", "failed"}]
  BY DEF AdmissionShape
<1>2. [channel |-> 0, next |-> 0, pc |-> "idle"] \in OutboundSlots
  BY <1>0 DEF OutboundSlots
<1>3. CASE Open(s)
  <2>1. opened + 1 \in 0 .. MaxChannel
    BY <1>0, <1>1, <1>3 DEF Open
  <2>2. [channel |-> opened + 1, next |-> 0, pc |-> "idle"] \in OutboundSlots
    BY <1>0, <2>1 DEF OutboundSlots
  <2>3. outbound' \in [Slots -> OutboundSlots]
    BY <1>1, <2>2, <1>3, SlotKept DEF Open
  <2> QED
    BY <1>3, <2>1, <2>3 DEF Open, AdmissionShape, receiverVars
<1>4. CASE StartDelivery(s)
  <2> DEFINE id == [channel |-> outbound[s].channel, sequence |-> outbound[s].next]
  <2>1. /\ outbound[s].channel \in 0 .. MaxChannel /\ outbound[s].channel # 0
        /\ outbound[s].next \in 0 .. (MaxSequence + 1) /\ outbound[s].next <= MaxSequence
    BY <1>1, <1>4 DEF StartDelivery, OutboundSlots
  <2>2. id \in Ids
    BY <1>0, <2>1 DEF Ids, Channels, SequenceNumbers
  <2>4. [channel |-> id.channel, next |-> id.sequence + 1, pc |-> "sending"] \in OutboundSlots
    BY <1>0, <2>1 DEF OutboundSlots
  <2>5. outbound' = [outbound EXCEPT ![s] = [channel |-> id.channel, next |-> id.sequence + 1,
                                             pc |-> "sending"]]
    BY <1>4 DEF StartDelivery
  <2>6. outbound' \in [Slots -> OutboundSlots]
    BY <2>4, <2>5, SlotKept
  <2>7. asked' = asked \cup {id}
    BY <1>4 DEF StartDelivery
  <2> HIDE DEF id
  <2> QED
    BY <1>4, <2>2, <2>6, <2>7 DEF StartDelivery, AdmissionShape, receiverVars
<1>5. CASE HearAdmitted(s)
  <2>1. outbound' \in [Slots -> OutboundSlots]
    BY <1>5, SlotWaits DEF HearAdmitted
  <2>2. outcome' \in [Ids -> {"unknown", "admitted", "failed"}]
    BY <1>1, <1>5 DEF HearAdmitted, Concluded
  <2> QED
    BY <1>5, <2>1, <2>2 DEF HearAdmitted, AdmissionShape, receiverVars
<1>6. CASE GiveUp(s)
  <2>1. outbound' \in [Slots -> OutboundSlots]
    BY <1>6, SlotWaits DEF GiveUp
  <2>2. Current(s) \in Ids
    BY <1>6, CurrentId DEF GiveUp
  <2> QED
    BY <1>6, <2>1, <2>2 DEF GiveUp, AdmissionShape, receiverVars
<1>7. CASE Abandon(s)
  <2>1. outbound' \in [Slots -> OutboundSlots]
    BY <1>7, SlotWaits DEF Abandon
  <2>2. Current(s) \in Ids
    BY <1>7, CurrentId DEF Abandon
  <2> QED
    BY <1>7, <2>1, <2>2 DEF Abandon, AdmissionShape, receiverVars
<1>8. CASE LearnOutcome(s)
  <2>1. outbound' \in [Slots -> OutboundSlots]
    BY <1>8, SlotWaits DEF LearnOutcome
  <2>2. outcome' \in [Ids -> {"unknown", "admitted", "failed"}]
    BY <1>1, <1>8 DEF LearnOutcome, Concluded
  <2> QED
    BY <1>8, <2>1, <2>2 DEF LearnOutcome, Resolved, AdmissionShape, receiverVars
<1>9. CASE LearnNothing(s)
  <2>1. outbound' \in [Slots -> OutboundSlots]
    BY <1>2, <1>9, SlotKept DEF LearnNothing
  <2> QED
    BY <1>9, <2>1 DEF LearnNothing, Resolved, AdmissionShape, receiverVars
<1> QED
  BY <1>3, <1>4, <1>5, <1>6, <1>7, <1>8, <1>9 DEF Sender

\* What the inductive invariant says of the owner as it stands.
LEMMA OwnerItself == AdmissionInv => /\ OwnerInv(owner) /\ Moved(owner, owner) /\ AdmissionShape
                                     /\ owner.first => ChannelOrder /\ Conclusions
BY MovesToItself DEF AdmissionInv, OwnerInv

\* A sender concludes only what was said for good.
LEMMA SenderStep ==
    ASSUME AdmissionInv, NEW s \in Slots, Sender(s)
    PROVE  AdmissionInv'
<1>1. AdmissionShape /\ OwnerInv(owner) /\ Moved(owner, owner) /\ (owner.first => Conclusions)
  BY OwnerItself
<1>2. AdmissionShape'
  BY <1>1, SenderShape
<1>3. UNCHANGED <<records, owner>> /\ heard' \subseteq heard /\ replies' \subseteq replies
  BY DEF Sender, Open, StartDelivery, HearAdmitted, GiveUp, Abandon, LearnOutcome, LearnNothing,
         Resolved, receiverVars
<1>4. ASSUME owner.first, NEW id \in Ids
      PROVE  \/ outcome'[id] = outcome[id]
             \/ outcome'[id] = "failed" /\ Failed(owner, id)
             \/ outcome'[id] = "admitted" /\ AdmittedRecords(id) # {}
  <2>1. outcome \in [Ids -> {"unknown", "admitted", "failed"}]
    BY <1>1 DEF AdmissionShape
  <2>2. CASE Open(s) \/ StartDelivery(s) \/ GiveUp(s) \/ Abandon(s) \/ LearnNothing(s)
    BY <2>2 DEF Open, StartDelivery, GiveUp, Abandon, LearnNothing
  <2>3. CASE HearAdmitted(s)
    <3>1. AdmittedRecords(Current(s)) # {}
      BY <1>1, <1>4, <2>3 DEF HearAdmitted, Conclusions
    <3> QED
      BY <2>1, <2>3, <3>1 DEF HearAdmitted, Concluded
  <2>4. CASE LearnOutcome(s)
    <3>1. PICK reply \in replies :
            /\ reply.id = Current(s)
            /\ \/ reply.status = "Admitted" /\ outcome' = Concluded(s, "admitted")
               \/ reply.status \in {"Rejected", "Cancelled"} /\ outcome' = Concluded(s, "failed")
      BY <2>4 DEF LearnOutcome
    <3>2. Final(owner, Current(s), reply.status)
      BY <1>1, <1>4, <3>1 DEF Conclusions
    <3>3. CASE outcome' = Concluded(s, "admitted") /\ reply.status = "Admitted"
      BY <2>1, <3>2, <3>3 DEF Final, Concluded
    <3>4. CASE outcome' = Concluded(s, "failed") /\ reply.status \in {"Rejected", "Cancelled"}
      BY <2>1, <3>2, <3>4 DEF Final, Concluded
    <3> QED
      BY <3>1, <3>3, <3>4
  <2> QED
    BY <2>2, <2>3, <2>4 DEF Sender
<1>5. PICK p : p = owner'
  OBVIOUS
<1>6. p = owner
  BY <1>3, <1>5
<1> QED
  BY <1>1, <1>2, <1>3, <1>4, <1>5, <1>6, OwnerStep

Handles == [id : Ids, step : {"retired", "existing", "position", "register"}]

\* The steps of the receiver that leave the records alone.
LEMMA QuietStep ==
    ASSUME AdmissionInv, UNCHANGED <<senderVars, records>>, handling' \subseteq Handles,
           NEW p, p = owner', OwnerInv(p), Moved(owner, p)
    PROVE  AdmissionInv'
<1>1. AdmissionShape'
  BY DEF AdmissionInv, AdmissionShape, senderVars, Handles
<1> QED
  BY <1>1, OwnerStep DEF senderVars

\* A sender is told of an admission.
LEMMA HeardStep ==
    ASSUME AdmissionInv, UNCHANGED <<outbound, opened, outcome, asked, cancelled, replies, records>>,
           handling' \subseteq Handles, NEW p, p = owner', OwnerInv(p), Moved(owner, p),
           NEW id \in Ids, NEW status, heard' = Heard(id, status),
           owner.first /\ status = "Admitted" => AdmittedRecords(id) # {}
    PROVE  AdmissionInv'
<1>1. heard' \subseteq heard \cup {id} /\ (status # "Admitted" => heard' = heard)
  BY DEF Heard
<1>2. AdmissionShape'
  BY <1>1 DEF AdmissionInv, AdmissionShape, Handles
<1>3. owner.first => \A d \in heard' \ heard : AdmittedRecords(d) # {}
  BY <1>1
<1> QED
  BY <1>2, <1>3, OwnerStep

\* A sender is answered to its cancellation.
LEMMA ReplyStep ==
    ASSUME AdmissionInv, UNCHANGED <<outbound, opened, outcome, asked, cancelled, heard, handling, records>>,
           NEW p, p = owner', OwnerInv(p), Moved(owner, p),
           NEW id \in Ids, NEW status \in Statuses, replies' \in {replies, Reply(id, status)},
           owner.first => Final(p, id, status)
    PROVE  AdmissionInv'
<1>1. replies' \subseteq replies \cup {[id |-> id, status |-> status]}
  BY DEF Reply
<1>2. AdmissionShape'
  BY <1>1 DEF AdmissionInv, AdmissionShape
<1>3. owner.first => \A reply \in replies' \ replies : Final(p, reply.id, reply.status)
  BY <1>1
<1> QED
  BY <1>2, <1>3, OwnerStep

\* The handler of a grant goes from section to section.
LEMMA HandlesKept ==
    ASSUME AdmissionShape, NEW h \in handling,
           NEW step \in {"retired", "existing", "position", "register"}
    PROVE  h.id \in Ids /\ Advance(h, step) \subseteq Handles /\ handling \ {h} \subseteq Handles
BY DEF AdmissionShape, Handles, Advance, Handle

\* The answer of an attempt that is there.
LEMMA AttemptTells ==
    ASSUME AdmissionInv, NEW id \in Ids, NEW r \in AttemptAt(owner, id), Status(r) = "Admitted"
    PROVE  AdmittedRecords(id) # {}
<1>1. AdmissionShape /\ r \in DOMAIN records /\ IdOf(r) = id
  BY DEF AttemptAt, AdmissionInv, Core
<1> QED
  BY <1>1, StatusOf DEF AdmittedRecords, AdmittedRecord

\* Consulting a watermark loses nothing.
LEMMA ConsultedMoves ==
    ASSUME AdmissionInv, NEW c \in Channels
    PROVE  /\ OwnerInv(Consulted(owner, c)) /\ Moved(owner, Consulted(owner, c))
           /\ \A id : Passed(Consulted(owner, c), id) <=> Passed(owner, id)
           /\ Consulted(owner, c).attempts = owner.attempts
<1>1. OwnerInv(owner)
  BY OwnerItself
<1>2. Resembles(owner, Consulted(owner, c))
  BY <1>1, ConsultedSame
<1> QED
  BY <1>1, <1>2, ResemblesMoves DEF Resembles

\* The retired status is looked up first.
LEMMA GrantRetiredStep ==
    ASSUME AdmissionInv, NEW h \in handling, GrantRetired(h)
    PROVE  AdmissionInv'
<1>1. AdmissionShape /\ OwnerInv(owner)
  BY OwnerItself
<1>2. h.id \in Ids /\ h.id.channel \in Channels
  BY <1>1, HandlesKept, IdFields
<1>3. handling' \subseteq Handles
  BY <1>1, HandlesKept DEF GrantRetired
<1>4. PICK p : p = owner'
  OBVIOUS
<1>5. OwnerInv(p) /\ Moved(owner, p)
  BY <1>2, <1>4, ConsultedMoves DEF GrantRetired
<1>6. owner.first /\ RetiredStatus(owner, h.id) = "Admitted" => AdmittedRecords(h.id) # {}
  BY <1>1, <1>2, RetiredTells DEF Final
<1>7. PICK id : id = h.id
  OBVIOUS
<1>8. PICK status : status = RetiredStatus(owner, h.id)
  OBVIOUS
<1> QED
  BY <1>2, <1>3, <1>4, <1>5, <1>6, <1>7, <1>8, HeardStep DEF GrantRetired

\* A repeated grant is answered by its attempt.
LEMMA AnswerStep ==
    ASSUME AdmissionInv, NEW h \in handling, NEW r \in AttemptAt(owner, h.id), AnswerExisting(h, r),
           UNCHANGED <<outbound, opened, outcome, asked, cancelled, replies, records, owner>>
    PROVE  AdmissionInv'
<1>1. AdmissionShape /\ OwnerInv(owner) /\ Moved(owner, owner)
  BY OwnerItself
<1>2. h.id \in Ids /\ handling' \subseteq Handles
  BY <1>1, HandlesKept DEF AnswerExisting
<1>3. Status(r) = "Admitted" => AdmittedRecords(h.id) # {}
  BY <1>2, AttemptTells
<1>4. PICK p : p = owner'
  OBVIOUS
<1>5. p = owner
  BY <1>4
<1>6. PICK status : status = Status(r)
  OBVIOUS
<1> QED
  BY <1>1, <1>2, <1>3, <1>4, <1>5, <1>6, HeardStep DEF AnswerExisting

\* Then the attempt.
LEMMA GrantExistingStep ==
    ASSUME AdmissionInv, NEW h \in handling, GrantExisting(h)
    PROVE  AdmissionInv'
<1>1. AdmissionShape /\ OwnerInv(owner) /\ Moved(owner, owner)
  BY OwnerItself
<1>2. CASE AttemptAt(owner, h.id) = {}
  <2>1. handling' \subseteq Handles /\ UNCHANGED <<senderVars, records, owner>>
    BY <1>1, <1>2, HandlesKept DEF GrantExisting, senderVars
  <2>2. PICK p : p = owner'
    OBVIOUS
  <2>3. p = owner
    BY <2>1, <2>2
  <2> QED
    BY <1>1, <2>1, <2>2, <2>3, QuietStep
<1>3. CASE AttemptAt(owner, h.id) # {}
  <2>1. PICK r \in AttemptAt(owner, h.id) : AnswerExisting(h, r)
    BY <1>3 DEF GrantExisting
  <2> QED
    BY <2>1, AnswerStep DEF GrantExisting
<1> QED
  BY <1>2, <1>3

\* Then the position, behind a resolved predecessor.
LEMMA GrantPositionStep ==
    ASSUME AdmissionInv, NEW h \in handling, GrantPosition(h)
    PROVE  AdmissionInv'
<1> DEFINE o == Freed(owner, h.id.channel)
           q == RetireResolvedPredecessor(o, h.id)
<1>1. AdmissionShape /\ OwnerInv(owner) /\ Moved(owner, owner) /\ (owner.first => ChannelOrder)
  BY OwnerItself
<1>2. h.id \in Ids /\ h.id.channel \in Channels
  BY <1>1, HandlesKept, IdFields
<1>3. handling' \subseteq Handles
  BY <1>1, HandlesKept DEF GrantPosition
<1>4. Resembles(owner, o)
  BY <1>1, <1>2, ConsultedSame
<1>5. OwnerInv(o) /\ Moved(owner, o)
  BY <1>1, <1>4, ResemblesMoves
<1>6. o.first => ChannelOrder
  BY <1>1, <1>5 DEF Moved
<1> HIDE DEF o
<1>7. OwnerInv(q) /\ Moved(o, q)
  BY <1>1, <1>2, <1>5, <1>6, PredecessorRetired
<1>8. Moved(owner, q)
  <2>1. owner.attempts \subseteq DOMAIN records
    BY <1>1 DEF OwnerInv, Core
  <2> HIDE DEF q
  <2> QED
    BY <1>1, <1>5, <1>7, <2>1, MovedOn
<1>9. owner' \in {owner, q}
  BY DEF GrantPosition, o
<1>10. PICK p : p = owner'
  OBVIOUS
<1>11. OwnerInv(p) /\ Moved(owner, p)
  BY <1>1, <1>7, <1>8, <1>9, <1>10
<1> QED
  BY <1>3, <1>10, <1>11, QuietStep DEF GrantPosition

\* A decided attempt is retired.
LEMMA RetireRecordStep ==
    ASSUME AdmissionInv, NEW r, RetireRecord(r)
    PROVE  AdmissionInv'
<1>1. AdmissionShape /\ OwnerInv(owner) /\ (owner.first => ChannelOrder)
  BY OwnerItself
<1>2. OwnerInv(owner') /\ Moved(owner, owner')
  BY <1>1, RetireDecided DEF RetireRecord
<1>3. PICK p : p = owner'
  OBVIOUS
<1>4. handling' \subseteq Handles
  BY <1>1 DEF RetireRecord, AdmissionShape, Handles
<1> QED
  BY <1>2, <1>3, <1>4, QuietStep DEF RetireRecord

\* A watermark without an attempt is forgotten.
LEMMA ForgetMoves ==
    ASSUME AdmissionShape, NEW o, OwnerInv(o), HasIdle(o)
    PROVE  OwnerInv(ForgetLeastRecent(o)) /\ Moved(o, ForgetLeastRecent(o))
<1>1. /\ o \in Owners /\ Listed(o) /\ DOMAIN o.marks = Channels /\ o.attempts \subseteq DOMAIN records
      /\ o.floor \in Nat /\ Channels \subseteq Nat
  BY OwnerFields DEF OwnerInv, Core
<1>2. PICK d \in Channels : LeastRecent(o, d) /\ ForgetLeastRecent(o) = Forget(o, d)
  BY <1>1 DEF HasIdle, ForgetLeastRecent
<1> DEFINE p == Forget(o, d)
<1>3. /\ p \in Owners /\ Listed(p) /\ Alike(o, p) /\ d <= p.floor
      /\ p.marks[d] = NoMark /\ \A c \in Channels \ {d} : p.marks[c] = o.marks[c]
      /\ Retained(p) = Retained(o) \ {d}
  BY <1>1, ForgetOne
<1> HIDE DEF p
<1>4. ~HoldsAttempt(o, d) /\ p.floor \in Nat
  BY <1>2, <1>3, OwnerFields DEF LeastRecent
<1>5. \A c : HoldsAttempt(p, c) <=> HoldsAttempt(o, c)
  BY <1>3, HoldsAlike DEF Alike
<1>6. ASSUME NEW id \in Ids, Passed(o, id) PROVE Passed(p, id)
  <2>1. id.channel \in Channels /\ id.channel \in Nat
    BY IdFields
  <2>2. CASE id.channel = d
    BY <1>3, <1>4, <1>5, <2>2 DEF Passed, Forgotten
  <2>3. CASE id.channel # d
    <3>1. p.marks[id.channel] = o.marks[id.channel]
      BY <1>3, <2>1, <2>3
    <3>2. id.channel <= o.floor => id.channel <= p.floor
      BY <1>1, <1>3, <1>4, <2>1 DEF Alike
    <3> QED
      BY <1>5, <1>6, <3>1, <3>2 DEF Passed, Forgotten
  <2> QED
    BY <2>2, <2>3
<1>7. Moved(o, p)
  BY <1>3, <1>6 DEF Moved, Alike
<1>8. Cardinality(Retained(p)) <= WatermarkCapacity
  <2>1. IsFiniteSet(Retained(o)) /\ Cardinality(Retained(o)) \in Nat /\ Cardinality(Retained(p)) \in Nat
    BY <1>1, <1>3, CountsFinite
  <2>2. Cardinality(Retained(p)) <= Cardinality(Retained(o))
    BY <1>3, <2>1, FS_Subset
  <2>3. Cardinality(Retained(o)) <= WatermarkCapacity /\ WatermarkCapacity \in Nat
    BY AdmissionAssumption DEF OwnerInv, Core
  <2> QED
    BY <2>1, <2>2, <2>3
<1>9. ASSUME NEW r \in p.attempts PROVE records[r].sequence = p.marks[records[r].channel].sequence + 1
  <2>1. r \in o.attempts /\ records[r].channel # d /\ records[r].channel \in Channels
    BY <1>1, <1>3, <1>4, <1>9, RecordFields DEF Alike, HoldsAttempt, AttemptsOn
  <2> QED
    BY <1>3, <2>1 DEF OwnerInv, Core
<1>10. Core(p)
  BY <1>3, <1>8, <1>9 DEF Core, OwnerInv, Alike
<1>11. Attended(p)
  BY <1>3 DEF OwnerInv, Attended, Alike
<1>12. ASSUME p.first PROVE Past(p) /\ MarksTell(p)
  <2>1. Past(o) /\ MarksTell(o)
    BY <1>3, <1>12 DEF OwnerInv, Alike
  <2>2. Past(p)
    BY <1>3, <1>6, <2>1, RecordFields DEF Past, Alike
  <2>3. MarksTell(p)
    BY <1>3, <2>1 DEF MarksTell
  <2> QED
    BY <2>2, <2>3
<1> QED
  BY <1>2, <1>7, <1>10, <1>11, <1>12 DEF OwnerInv, p

\* A watermark expires.
LEMMA ExpireWatermarkStep ==
    ASSUME AdmissionInv, ExpireWatermark
    PROVE  AdmissionInv'
<1>1. AdmissionShape /\ OwnerInv(owner)
  BY OwnerItself
<1>2. OwnerInv(owner') /\ Moved(owner, owner')
  BY <1>1, ForgetMoves DEF ExpireWatermark
<1>3. PICK p : p = owner'
  OBVIOUS
<1>4. handling' \subseteq Handles
  BY <1>1 DEF ExpireWatermark, AdmissionShape, Handles
<1> QED
  BY <1>2, <1>3, <1>4, QuietStep DEF ExpireWatermark

\* A connection is bound again.
LEMMA RejoinStep ==
    ASSUME AdmissionInv, Rejoin
    PROVE  AdmissionInv'
<1>1. AdmissionShape /\ OwnerInv(owner) /\ owner \in Owners /\ Listed(owner)
  BY OwnerItself DEF OwnerInv, Core
<1>2. /\ owner' \in Owners /\ owner'.attempts = owner.attempts /\ owner'.grants = owner.grants
      /\ owner'.first = owner.first /\ owner'.marks = owner.marks /\ owner'.floor = owner.floor
      /\ owner'.order = owner.order
  BY <1>1 DEF Rejoin, Owners
<1>3. PICK p : p = owner'
  OBVIOUS
<1>4. Listed(p)
  BY <1>1, <1>2, <1>3 DEF Listed
<1>5. Resembles(owner, p)
  BY <1>2, <1>3, <1>4 DEF Resembles
<1>6. OwnerInv(p) /\ Moved(owner, p)
  BY <1>1, <1>5, ResemblesMoves
<1>7. handling' \subseteq Handles
  BY <1>1 DEF Rejoin, AdmissionShape, Handles
<1> QED
  BY <1>3, <1>6, <1>7, QuietStep DEF Rejoin

\* An admission is announced.
LEMMA AnnounceStep ==
    ASSUME AdmissionInv, NEW r \in DOMAIN records, Announce(r)
    PROVE  AdmissionInv'
<1>1. AdmissionShape /\ OwnerInv(owner) /\ Moved(owner, owner)
  BY OwnerItself
<1>2. IdOf(r) \in Ids /\ AdmittedRecords(IdOf(r)) # {}
  BY <1>1, RecordFields DEF Announce, AdmittedRecords
<1>3. PICK p : p = owner'
  OBVIOUS
<1>4. p = owner
  BY <1>3 DEF Announce, receiverVars
<1>5. handling' \subseteq Handles
  BY <1>1 DEF Announce, receiverVars, AdmissionShape, Handles
<1>6. PICK id : id = IdOf(r)
  OBVIOUS
<1> QED
  BY <1>1, <1>2, <1>3, <1>4, <1>5, <1>6, HeardStep DEF Announce, receiverVars

\* The next position is fenced by a cancellation.
LEMMA FenceMoves ==
    ASSUME AdmissionShape, NEW o, OwnerInv(o), NEW id \in Ids, CanFollow(o, id), AttemptAt(o, id) = {}
    PROVE  LET p == Record(o, id, "Cancelled") IN
           OwnerInv(p) /\ Moved(o, p) /\ (o.first => Final(p, id, "Cancelled"))
<1> DEFINE c == id.channel
           p == Record(o, id, "Cancelled")
<1>1. /\ Core(o) /\ o \in Owners /\ Listed(o) /\ o.attempts \subseteq DOMAIN records
      /\ Cardinality(o.attempts) <= AttemptCapacity /\ Cardinality(Retained(o)) <= WatermarkCapacity
  BY DEF OwnerInv, Core
<1>2. c \in Channels /\ id.sequence \in Nat /\ id = [channel |-> c, sequence |-> id.sequence]
  BY IdFields
<1>3. id.sequence = o.marks[c].sequence + 1 /\ ~Forgotten(o, c) /\ ~Passed(o, id)
  BY FollowsNext
<1>4. "Cancelled" \in Statuses
  BY DEF Statuses
<1>5. /\ p \in Owners /\ Listed(p) /\ Alike(o, p) /\ Thinner(o, p, c)
      /\ p.marks[c] = [sequence |-> id.sequence, status |-> "Cancelled"]
      /\ Cardinality(Retained(p)) <= WatermarkCapacity
  BY <1>1, <1>3, <1>4, RecordOne
<1> HIDE DEF p
<1>6. p.marks[c] # NoMark /\ p.marks[c].sequence = id.sequence /\ p.marks[c].status = "Cancelled"
  BY <1>5 DEF NoMark
<1>7. \A r \in o.attempts : records[r].channel # c
  BY <1>1, <1>2, <1>3 DEF Core, AttemptAt, IdOf
<1>8. o.marks[c].sequence \in Int
  BY <1>1, <1>2, OwnerFields
<1>9. \A d \in Ids : Passed(o, d) => Passed(p, d)
  BY <1>1, <1>2, <1>3, <1>5, <1>6, <1>8, PassedKept DEF Alike
<1>10. Moved(o, p)
  BY <1>5, <1>9 DEF Moved, Alike
<1>11. ASSUME NEW r \in p.attempts PROVE records[r].sequence = p.marks[records[r].channel].sequence + 1
  <2>1. r \in o.attempts /\ records[r].channel # c /\ records[r].channel \in Channels
    BY <1>1, <1>5, <1>7, <1>11, RecordFields DEF Alike
  <2>2. HoldsAttempt(o, records[r].channel)
    BY <2>1 DEF HoldsAttempt, AttemptsOn
  <2>3. p.marks[records[r].channel] = o.marks[records[r].channel]
    BY <1>5, <2>1, <2>2 DEF Thinner
  <2> QED
    BY <1>1, <2>1, <2>3 DEF Core
<1>12. Core(p)
  BY <1>1, <1>5, <1>11 DEF Core, Alike
<1>13. Attended(p)
  BY <1>5 DEF OwnerInv, Attended, Alike
<1>14. Passed(p, id)
  BY <1>2, <1>6 DEF Passed
<1>15. ASSUME o.first PROVE Past(p) /\ MarksTell(p) /\ Final(p, id, "Cancelled")
  <2>1. Past(o) /\ MarksTell(o)
    BY <1>15 DEF OwnerInv
  <2>2. Past(p)
    BY <1>5, <1>9, <2>1, RecordFields DEF Past, Alike
  <2>3. \A r \in DOMAIN records : IdOf(r) # id
    BY <1>3, <2>1 DEF Past, AttemptAt
  <2>4. AdmittedRecords(id) = {}
    BY <2>3 DEF AdmittedRecords
  <2>5. ASSUME NEW d \in Channels, p.marks[d] # NoMark
        PROVE  Told([channel |-> d, sequence |-> p.marks[d].sequence], p.marks[d].status)
    <3>1. CASE d = c
      BY <1>2, <1>6, <2>4, <3>1 DEF Told
    <3>2. CASE d # c
      BY <1>5, <2>1, <2>5, <3>2 DEF Thinner, MarksTell
    <3> QED
      BY <3>1, <3>2
  <2>6. Final(p, id, "Cancelled")
    BY <1>14, <2>3 DEF Final, Failed
  <2> QED
    BY <2>2, <2>5, <2>6 DEF MarksTell
<1> QED
  BY <1>5, <1>10, <1>12, <1>13, <1>15 DEF OwnerInv, p, Alike

\* Cancelling decides what was undecided, and leaves the rest.
LEMMA CancelDecides ==
    ASSUME AdmissionShape, NEW rs, records' = CancelledRecords(rs)
    PROVE  /\ Decides /\ records' \in Seq(AdmissionRecords)
           /\ \A r \in DOMAIN records : r \in rs => ~Unadmitted(r)'
           /\ \A r \in DOMAIN records : r \in rs /\ Unadmitted(r) => records'[r].state = "cancelled"
<1>1. /\ records \in Seq(AdmissionRecords) /\ DOMAIN records = 1 .. Len(records)
      /\ Len(records) \in Nat
  BY DEF AdmissionShape
<1>2. ASSUME NEW r \in DOMAIN records
      PROVE  /\ records'[r] \in AdmissionRecords
             /\ records'[r].channel = records[r].channel /\ records'[r].sequence = records[r].sequence
             /\ records'[r] = records[r] \/ Unadmitted(r)
             /\ r \in rs /\ Unadmitted(r) => records'[r].state = "cancelled"
             /\ ~(r \in rs /\ Unadmitted(r)) => records'[r] = records[r]
  <2>1. records[r] \in AdmissionRecords
    BY <1>1
  <2>2. records'[r] = IF r \in rs /\ Unadmitted(r) THEN [records[r] EXCEPT !.state = "cancelled"]
                                                  ELSE records[r]
    BY DEF CancelledRecords
  <2> QED
    BY <2>1, <2>2 DEF AdmissionRecords, RecordStates
<1>3. DOMAIN records' = DOMAIN records
  BY DEF CancelledRecords
<1>4. records' \in [1 .. Len(records) -> AdmissionRecords]
  BY <1>1, <1>2, <1>3 DEF CancelledRecords
<1>5. records' \in Seq(AdmissionRecords)
  BY <1>1, <1>4, SeqDef
<1>6. \A r \in DOMAIN records : r \in rs => ~Unadmitted(r)'
  BY <1>2 DEF Unadmitted
<1> QED
  BY <1>2, <1>3, <1>5, <1>6 DEF Decides

\* What a cancellation returns is final.
LEMMA CancelTells ==
    ASSUME AdmissionShape, ChannelOrder, NEW r \in DOMAIN records, records' = CancelledRecords({r}),
           NEW id, id = IdOf(r), NEW status, status = StatusAfterCancel(r)
    PROVE  /\ Told(id, status)' /\ (status = "Admitted" => AdmittedRecords(id)' # {})
           /\ status \in {"Rejected", "Cancelled"} =>
                \A q \in DOMAIN records : IdOf(q) = id => records'[q].state \in {"rejected", "cancelled"}
<1>1. Decides /\ (Unadmitted(r) => records'[r].state = "cancelled")
  BY CancelDecides
<1>2. /\ DOMAIN records' = DOMAIN records /\ \A q \in DOMAIN records : IdOf(q)' = IdOf(q)
      /\ \A q \in DOMAIN records : IdOf(q) = id => q = r
      /\ ~Unadmitted(r) => records'[r] = records[r]
  <2>1. \A q \in DOMAIN records : IdOf(q) = id => q = r
    BY OneOfId
  <2> QED
    BY <1>1, <2>1 DEF Decides, IdOf
<1>3. CASE Unadmitted(r)
  <2>1. status = "Cancelled" /\ records'[r].state = "cancelled"
    BY <1>1, <1>3 DEF StatusAfterCancel
  <2>2. AdmittedRecords(id)' = {}
    BY <1>2, <2>1 DEF AdmittedRecords, AdmittedRecord
  <2> QED
    BY <1>2, <2>1, <2>2 DEF Told
<1>4. CASE ~Unadmitted(r)
  <2>1. status = Status(r) /\ records'[r] = records[r]
    BY <1>2, <1>4 DEF StatusAfterCancel
  <2>2. status = "Admitted" => r \in AdmittedRecords(id)'
    BY <1>2, <2>1, StatusOf DEF AdmittedRecords, AdmittedRecord
  <2>3. status \in {"Rejected", "Cancelled"} => records'[r].state \in {"rejected", "cancelled"}
    BY <2>1, StatusOf
  <2>4. status \in {"Rejected", "Cancelled"} => AdmittedRecords(id)' = {}
    BY <1>2, <2>3 DEF AdmittedRecords, AdmittedRecord
  <2> QED
    BY <1>2, <2>2, <2>3, <2>4 DEF Told
<1> QED
  BY <1>3, <1>4

\* And a status.
LEMMA StatusAfterCancelOf ==
    ASSUME AdmissionShape, NEW r \in DOMAIN records PROVE StatusAfterCancel(r) \in Statuses
BY StatusOf DEF StatusAfterCancel, Statuses

\* An attempt expires, undecided or not.
LEMMA ExpireAttemptStep ==
    ASSUME AdmissionInv, NEW r, ExpireAttempt(r)
    PROVE  AdmissionInv'
<1>1. AdmissionShape /\ Core(owner) /\ (owner.first => ChannelOrder)
  BY OwnerItself DEF OwnerInv
<1>2. r \in owner.attempts /\ r \in DOMAIN records /\ records' = CancelledRecords({r})
  BY <1>1 DEF ExpireAttempt, Core
<1>3. /\ Decides /\ records' \in Seq(AdmissionRecords) /\ ~Unadmitted(r)'
  BY <1>1, <1>2, CancelDecides
<1>4. AdmissionShape'
  BY <1>1, <1>3 DEF ExpireAttempt, senderVars, AdmissionShape
<1>5. PICK status : status = StatusAfterCancel(r)
  OBVIOUS
<1>6. PICK c : c = records[r].channel
  OBVIOUS
<1>7. PICK p : p = owner'
  OBVIOUS
<1>8. status \in Statuses
  BY <1>1, <1>2, <1>5, StatusAfterCancelOf
<1>9. /\ Core(p) /\ Moved(owner, p) /\ Thinner(owner, p, c) /\ p.attempts = owner.attempts \ {r}
      /\ p.marks[c] = [sequence |-> records[r].sequence, status |-> status]
  BY <1>1, <1>2, <1>5, <1>6, <1>7, <1>8, RetireOne DEF ExpireAttempt
<1>10. ASSUME owner.first, NEW d \in Channels
       PROVE  \/ p.marks[d] \in {owner.marks[d], NoMark}
              \/ Told([channel |-> d, sequence |-> p.marks[d].sequence], p.marks[d].status)'
  <2>1. CASE d # c
    BY <1>9, <2>1 DEF Thinner
  <2>2. CASE d = c
    <3>1. PICK id : id = IdOf(r)
      OBVIOUS
    <3>2. Told(id, status)'
      BY <1>1, <1>2, <1>5, <1>10, <3>1, CancelTells
    <3>3. id = [channel |-> d, sequence |-> p.marks[d].sequence] /\ status = p.marks[d].status
      BY <1>6, <1>9, <2>2, <3>1 DEF IdOf
    <3> QED
      BY <3>2, <3>3
  <2> QED
    BY <2>1, <2>2
<1> QED
  BY <1>3, <1>4, <1>7, <1>9, <1>10, DecidingStep DEF ExpireAttempt, senderVars

\* A cancellation of an attempt that is there.
LEMMA CancelAttemptStep ==
    ASSUME AdmissionInv, NEW id \in Ids, NEW r \in AttemptAt(owner, id),
           records' = CancelledRecords({r}),
           owner' = IF Unadmitted(r) THEN [owner EXCEPT !.grants = @ \ {r}] ELSE owner,
           replies' = Reply(id, StatusAfterCancel(r)),
           UNCHANGED <<outbound, opened, outcome, asked, cancelled, heard, handling>>
    PROVE  AdmissionInv'
<1>1. /\ AdmissionShape /\ OwnerInv(owner) /\ (owner.first => ChannelOrder)
      /\ owner \in Owners /\ Listed(owner)
  BY OwnerItself DEF OwnerInv, Core
<1>2. r \in owner.attempts /\ r \in DOMAIN records /\ IdOf(r) = id
  BY <1>1 DEF AttemptAt, OwnerInv, Core
<1>3. Decides /\ records' \in Seq(AdmissionRecords)
  BY <1>1, <1>2, CancelDecides
<1>4. PICK status : status = StatusAfterCancel(r)
  OBVIOUS
<1>5. status \in Statuses
  BY <1>1, <1>2, <1>4, StatusAfterCancelOf
<1>6. replies' \subseteq replies \cup {[id |-> id, status |-> status]}
  BY <1>4 DEF Reply
<1>7. AdmissionShape'
  BY <1>1, <1>3, <1>5, <1>6 DEF AdmissionShape
<1>8. PICK p : p = owner'
  OBVIOUS
<1>9. /\ p \in Owners /\ p.attempts = owner.attempts /\ p.grants \subseteq owner.grants
      /\ p.first = owner.first /\ p.marks = owner.marks /\ p.floor = owner.floor
      /\ p.order = owner.order
  BY <1>1, <1>8 DEF Owners
<1>10. Listed(p)
  BY <1>1, <1>9 DEF Listed
<1>11. OwnerInv(p) /\ Moved(owner, p)
  BY <1>1, <1>9, <1>10, ResemblesMoves DEF Resembles
<1>12. ASSUME owner.first PROVE Final(p, id, status)'
  <2>1. /\ status = "Admitted" => AdmittedRecords(id)' # {}
        /\ status \in {"Rejected", "Cancelled"} =>
             \A q \in DOMAIN records : IdOf(q) = id => records'[q].state \in {"rejected", "cancelled"}
    BY <1>1, <1>2, <1>4, <1>12, CancelTells
  <2>2. /\ \A q \in DOMAIN records : IdOf(q)' = IdOf(q)
        /\ AttemptAt(p, id)' = AttemptAt(p, id) /\ DOMAIN records' = DOMAIN records
    BY <1>3, <1>11, DecidesSame DEF OwnerInv, Core, Decides
  <2>3. r \in AttemptAt(p, id)
    BY <1>2, <1>9 DEF AttemptAt
  <2> QED
    BY <2>1, <2>2, <2>3 DEF Final, Failed
<1>13. owner.first => \A reply \in replies' \ replies : Final(p, reply.id, reply.status)'
  BY <1>6, <1>12
<1> QED
  BY <1>3, <1>7, <1>8, <1>9, <1>11, <1>13, DecidingStep DEF OwnerInv

\* A cancellation is answered for an owner that ended, an attempt, a watermark, or by a fence.
LEMMA ControlCancelStep ==
    ASSUME AdmissionInv, NEW id \in Ids, ControlCancel(id)
    PROVE  AdmissionInv'
<1>1. /\ AdmissionShape /\ OwnerInv(owner) /\ Moved(owner, owner) /\ (owner.first => ChannelOrder)
      /\ id.channel \in Channels
  BY OwnerItself, IdFields
<1>2. PICK p : p = owner'
  OBVIOUS
<1>3. CASE ~owner.bound
  <2>1. replies' = Reply(id, "Indeterminate") /\ p = owner /\ UNCHANGED records
    BY <1>2, <1>3 DEF ControlCancel
  <2>2. "Indeterminate" \in Statuses /\ Final(p, id, "Indeterminate")
    BY DEF Statuses, Final
  <2> QED
    BY <1>1, <1>2, <2>1, <2>2, ReplyStep DEF ControlCancel
<1>4. CASE owner.bound /\ AttemptAt(owner, id) # {}
  <2>1. PICK r \in AttemptAt(owner, id) :
          /\ records' = CancelledRecords({r})
          /\ owner' = IF Unadmitted(r) THEN [owner EXCEPT !.grants = @ \ {r}] ELSE owner
          /\ replies' = Reply(id, StatusAfterCancel(r))
    BY <1>4 DEF ControlCancel
  <2> QED
    BY <2>1, CancelAttemptStep DEF ControlCancel
<1>5. CASE owner.bound /\ AttemptAt(owner, id) = {} /\ RetiredStatus(owner, id) # "None"
  <2>1. PICK status : status = RetiredStatus(owner, id)
    OBVIOUS
  <2>2. replies' = Reply(id, status) /\ p = Consulted(owner, id.channel) /\ UNCHANGED records
    BY <1>2, <1>5, <2>1 DEF ControlCancel
  <2>3. status \in Statuses /\ (owner.first => Final(owner, id, status))
    BY <1>1, <1>5, <2>1, RetiredTells
  <2>4. OwnerInv(p) /\ Moved(owner, p) /\ (Passed(p, id) <=> Passed(owner, id)) /\ p.attempts = owner.attempts
    BY <1>1, <2>2, ConsultedMoves
  <2>5. owner.first => Final(p, id, status)
    BY <2>3, <2>4 DEF Final, Failed, AttemptAt
  <2> QED
    BY <1>2, <2>2, <2>3, <2>4, <2>5, ReplyStep DEF ControlCancel
<1>6. CASE owner.bound /\ AttemptAt(owner, id) = {} /\ RetiredStatus(owner, id) = "None"
  <2> DEFINE o == RetireResolvedPredecessor(owner, id)
  <2>1. OwnerInv(o) /\ Moved(owner, o)
    BY <1>1, PredecessorRetired
  <2>2. UNCHANGED records /\ CancelAbsent(id)
    BY <1>6 DEF ControlCancel
  <2>3. CASE o.active[id.channel] = -1 /\ CanFollow(o, id)
    <3>1. p = Record(o, id, "Cancelled") /\ replies' = Reply(id, "Cancelled")
      BY <1>2, <2>2, <2>3 DEF CancelAbsent
    <3>2. AttemptAt(o, id) = {}
      BY <1>6, <2>1 DEF AttemptAt, Moved
    <3> HIDE DEF o
    <3>3. OwnerInv(p) /\ Moved(o, p) /\ (o.first => Final(p, id, "Cancelled"))
      BY <1>1, <2>1, <2>3, <3>1, <3>2, FenceMoves
    <3>4. Moved(owner, p) /\ (owner.first => Final(p, id, "Cancelled"))
      BY <1>1, <2>1, <3>3, MovedOn DEF OwnerInv, Core, Moved
    <3>5. "Cancelled" \in Statuses
      BY DEF Statuses
    <3> QED
      BY <1>2, <2>2, <3>1, <3>3, <3>4, <3>5, ReplyStep DEF ControlCancel
  <2>4. CASE ~(o.active[id.channel] = -1 /\ CanFollow(o, id))
    <3>1. p = o /\ UNCHANGED replies
      BY <1>2, <2>2, <2>4 DEF CancelAbsent
    <3>2. UNCHANGED <<senderVars, records>> /\ handling' \subseteq Handles
      BY <1>1, <2>2, <3>1 DEF ControlCancel, senderVars, Handles, AdmissionShape
    <3> HIDE DEF o
    <3> QED
      BY <1>2, <2>1, <3>1, <3>2, QuietStep
  <2> QED
    BY <2>3, <2>4
<1> QED
  BY <1>3, <1>4, <1>5, <1>6

\* One undecided record moves on.
LEMMA StateDecides ==
    ASSUME AdmissionShape, NEW r \in DOMAIN records, Unadmitted(r), NEW state \in RecordStates,
           records' = [records EXCEPT ![r].state = state]
    PROVE  Decides /\ records' \in Seq(AdmissionRecords)
<1>1. /\ records \in Seq(AdmissionRecords) /\ records[r] \in AdmissionRecords
      /\ DOMAIN records = 1 .. Len(records) /\ Len(records) \in Nat
      /\ \A q \in DOMAIN records : records[q] \in AdmissionRecords
  BY DEF AdmissionShape
<1>2. PICK v : v = [records[r] EXCEPT !.state = state]
  OBVIOUS
<1>3. v \in AdmissionRecords /\ v.channel = records[r].channel /\ v.sequence = records[r].sequence
  BY <1>1, <1>2 DEF AdmissionRecords
<1>4. records' = [records EXCEPT ![r] = v]
  BY <1>2
<1>5. records' \in [1 .. Len(records) -> AdmissionRecords]
  BY <1>1, <1>3, <1>4
<1>6. records' \in Seq(AdmissionRecords)
  BY <1>1, <1>5, SeqDef
<1> QED
  BY <1>1, <1>3, <1>4, <1>6 DEF Decides

\* The body comes, and the runtime decides.
LEMMA WorkStep ==
    ASSUME AdmissionInv, NEW r \in DOMAIN records,
           BodyArrives(r) \/ BodyReceived(r) \/ Reject(r) \/ Admit(r)
    PROVE  AdmissionInv'
<1>1. /\ AdmissionShape /\ OwnerInv(owner) /\ Moved(owner, owner)
      /\ owner \in Owners /\ Listed(owner)
  BY OwnerItself DEF OwnerInv, Core
<1>2. UNCHANGED <<senderVars, handling>>
  BY DEF BodyArrives, BodyReceived, Reject, Admit
<1>3. Decides /\ records' \in Seq(AdmissionRecords)
  <2>1. CASE records' = records
    BY <1>1, <2>1 DEF Decides, AdmissionShape
  <2>2. CASE records' # records
    <3>1. PICK state \in RecordStates : Unadmitted(r) /\ records' = [records EXCEPT ![r].state = state]
      BY <2>2 DEF BodyArrives, BodyReceived, Reject, Admit, Unadmitted, RecordStates
    <3> QED
      BY <1>1, <3>1, StateDecides
  <2> QED
    BY <2>1, <2>2
<1>4. AdmissionShape'
  BY <1>1, <1>2, <1>3 DEF AdmissionShape, senderVars
<1>5. PICK p : p = owner'
  OBVIOUS
<1>6. OwnerInv(p) /\ Moved(owner, p) /\ p.attempts = owner.attempts /\ p.marks = owner.marks
  <2>1. CASE p = owner
    BY <1>1, <2>1
  <2>2. CASE p # owner
    <3>1. p = [owner EXCEPT !.grants = @ \ {r}]
      BY <1>5, <2>2 DEF BodyArrives, BodyReceived, Reject, Admit
    <3>2. /\ p \in Owners /\ p.attempts = owner.attempts /\ p.grants \subseteq owner.grants
          /\ p.first = owner.first /\ p.marks = owner.marks /\ p.floor = owner.floor
          /\ p.order = owner.order
      BY <1>1, <3>1 DEF Owners
    <3>3. Resembles(owner, p)
      BY <1>1, <3>2 DEF Resembles, Listed
    <3> QED
      BY <1>1, <3>2, <3>3, ResemblesMoves
  <2> QED
    BY <2>1, <2>2
<1> QED
  BY <1>2, <1>3, <1>4, <1>5, <1>6, DecidingStep DEF senderVars, OwnerInv

\* An owner that knows nothing.
LEMMA NewOwnerFresh ==
    ASSUME NEW o, o \in {NewOwner, [NewOwner EXCEPT !.bound = FALSE, !.first = FALSE]}
    PROVE  /\ Core(o) /\ o.attempts = {} /\ \A c \in Channels : o.marks[c] = NoMark
           /\ o.floor = 0
<1>1. NoMark \in Watermarks
  BY DEF NoMark, Watermarks, Statuses
<1>2. [c \in Channels |-> NoMark] \in [Channels -> Watermarks]
      /\ [c \in Channels |-> -1] \in [Channels -> Int] /\ << >> \in Seq(Channels)
  BY <1>1
<1>3. /\ o \in Owners /\ o.attempts = {} /\ o.grants = {} /\ o.marks = [c \in Channels |-> NoMark]
      /\ o.order = << >> /\ o.floor = 0
  <2> DEFINE m == [c \in Channels |-> NoMark]
             a == [c \in Channels |-> -1]
  <2>1. NewOwner = [bound |-> TRUE, first |-> TRUE, attempts |-> {}, grants |-> {}, active |-> a,
                    marks |-> m, order |-> << >>, floor |-> 0]
    BY DEF NewOwner
  <2> HIDE DEF m, a
  <2>2. PICK b \in BOOLEAN :
          o = [bound |-> b, first |-> b, attempts |-> {}, grants |-> {}, active |-> a,
               marks |-> m, order |-> << >>, floor |-> 0]
    <3>1. CASE o = NewOwner
      BY <2>1, <3>1
    <3>2. CASE o = [NewOwner EXCEPT !.bound = FALSE, !.first = FALSE]
      BY <2>1, <3>2
    <3> QED
      BY <3>1, <3>2
  <2>3. m \in [Channels -> Watermarks] /\ a \in [Channels -> Int]
    BY <1>2 DEF m, a
  <2>4. o \in Owners /\ o.marks = m
    BY <1>2, <2>2, <2>3 DEF Owners
  <2> QED
    BY <2>2, <2>4 DEF m
<1>4. Listed(o)
  BY <1>3 DEF Listed
<1>5. Retained(o) = {}
  BY <1>3 DEF Retained
<1>6. Cardinality(o.attempts) = 0 /\ Cardinality(Retained(o)) = 0
  BY <1>3, <1>5, FS_EmptySet
<1> QED
  BY <1>3, <1>4, <1>6, AdmissionAssumption DEF Core

\* An owner ends, with every attempt it held.
LEMMA DepartStep ==
    ASSUME AdmissionInv, Depart
    PROVE  AdmissionInv'
<1>1. /\ AdmissionShape /\ OneUndecided /\ Attended(owner) /\ owner.attempts \subseteq DOMAIN records
  BY DEF AdmissionInv, Core
<1>2. /\ Decides /\ records' \in Seq(AdmissionRecords)
      /\ \A r \in DOMAIN records : r \in owner.attempts => ~Unadmitted(r)'
  BY <1>1, CancelDecides DEF Depart
<1>3. AdmissionShape'
  BY <1>1, <1>2 DEF Depart, senderVars, AdmissionShape
<1>4. PICK p : p = owner'
  OBVIOUS
<1>5. Core(p) /\ p.attempts = {}
  BY <1>4, NewOwnerFresh DEF Depart
<1>6. Core(p)'
  BY <1>2, <1>5, CoreKept
<1>7. \A r \in DOMAIN records : ~Unadmitted(r)'
  BY <1>1, <1>2, <1>5, DecidesSame DEF Attended
<1>8. Attended(owner)' /\ OneUndecided'
  BY <1>2, <1>7 DEF Attended, OneUndecided, Decides
<1>9. ~owner'.first
  BY DEF Depart, NewOwner
<1> QED
  BY <1>3, <1>4, <1>6, <1>8, <1>9 DEF AdmissionInv

\* A reservation of the next position of a channel.
LEMMA ReserveStep ==
    ASSUME AdmissionInv, NEW id \in Ids, NEW o, OwnerInv(o), Moved(owner, o),
           AttemptAt(o, id) = {}, CanFollow(o, id), Cardinality(o.attempts) < AttemptCapacity,
           records' = Append(records, [channel |-> id.channel, sequence |-> id.sequence,
                                       state |-> "reserved"]),
           owner' = [o EXCEPT !.active = [@ EXCEPT ![id.channel] = id.sequence],
                              !.attempts = @ \cup {Len(records) + 1},
                              !.grants = @ \cup {Len(records) + 1}],
           handling' \subseteq handling,
           UNCHANGED senderVars
    PROVE  AdmissionInv'
<1> DEFINE c == id.channel
<1>0. PICK m : m = Len(records) + 1
  OBVIOUS
<1>1. /\ AdmissionShape /\ OneUndecided /\ Attended(owner)
      /\ owner.first => ChannelOrder /\ Past(owner) /\ MarksTell(owner) /\ Conclusions
  BY DEF AdmissionInv
<1>2. /\ Core(o) /\ o \in Owners /\ Listed(o) /\ o.attempts \subseteq DOMAIN records
      /\ o.grants \subseteq o.attempts
  BY DEF OwnerInv, Core
<1>3. c \in Channels /\ id.sequence \in Nat /\ id.sequence \in SequenceNumbers
      /\ id = [channel |-> c, sequence |-> id.sequence]
  BY IdFields
<1>4. id.sequence = o.marks[c].sequence + 1 /\ ~Forgotten(o, c) /\ ~Passed(o, id)
  BY FollowsNext
<1>5. /\ m \in Nat \ {0} /\ DOMAIN records = 1 .. (m - 1) /\ DOMAIN records' = 1 .. m
      /\ \A r \in DOMAIN records : records'[r] = records[r]
      /\ records'[m] = [channel |-> c, sequence |-> id.sequence, state |-> "reserved"]
      /\ records' \in Seq(AdmissionRecords) /\ m \notin DOMAIN records
  <2>1. [channel |-> c, sequence |-> id.sequence, state |-> "reserved"] \in AdmissionRecords
    BY <1>3 DEF AdmissionRecords, RecordStates
  <2>2. records \in Seq(AdmissionRecords)
    BY <1>1 DEF AdmissionShape
  <2> QED
    BY <1>0, <2>1, <2>2
<1>6. AdmissionShape'
  BY <1>1, <1>5 DEF AdmissionShape, senderVars
<1>7. PICK p : p = owner'
  OBVIOUS
<1>8. /\ p \in Owners /\ p.attempts = o.attempts \cup {m} /\ p.grants = o.grants \cup {m}
      /\ p.first = o.first /\ p.marks = o.marks /\ p.floor = o.floor /\ p.order = o.order
  <2>1. PICK g : g = [o.active EXCEPT ![c] = id.sequence]
    OBVIOUS
  <2>2. g \in [Channels -> Int]
    BY <1>2, <1>3, <2>1 DEF Owners
  <2>3. p = [o EXCEPT !.active = g, !.attempts = o.attempts \cup {m}, !.grants = o.grants \cup {m}]
    BY <1>0, <1>7, <2>1
  <2>4. o.attempts \cup {m} \in SUBSET Nat /\ o.grants \cup {m} \in SUBSET Nat
    BY <1>2, <1>5 DEF Owners
  <2> QED
    BY <1>2, <2>2, <2>3, <2>4 DEF Owners
<1>9. Listed(p)
  BY <1>2, <1>8 DEF Listed
<1>10. \A r \in o.attempts : records[r].channel # c
  BY <1>2, <1>3, <1>4 DEF Core, AttemptAt, IdOf
<1>11. Core(p)'
  <2>1. p.attempts \subseteq DOMAIN records' /\ p.grants \subseteq p.attempts
    BY <1>2, <1>5, <1>8
  <2>2. \A r \in p.attempts : records'[r].sequence = p.marks[records'[r].channel].sequence + 1
    BY <1>2, <1>4, <1>5, <1>8 DEF Core
  <2>3. \A r, q \in p.attempts : records'[r].channel = records'[q].channel => r = q
    BY <1>2, <1>5, <1>8, <1>10 DEF Core
  <2>4. Cardinality(p.attempts) <= AttemptCapacity
    <3>1. IsFiniteSet(o.attempts) /\ Cardinality(o.attempts) \in Nat
      BY <1>1, <1>2, CountsFinite
    <3>2. Cardinality(p.attempts) = Cardinality(o.attempts) + 1
      <4>1. m \notin o.attempts
        BY <1>2, <1>5
      <4> QED
        BY <1>8, <3>1, <4>1, FS_AddElement
    <3> QED
      BY <3>1, <3>2, AdmissionAssumption
  <2>5. Retained(p) = Retained(o) /\ Cardinality(Retained(o)) <= WatermarkCapacity
    BY <1>2, <1>8 DEF Retained, Core
  <2> QED
    BY <1>8, <1>9, <2>1, <2>2, <2>3, <2>4, <2>5 DEF Core
<1>12. \A r \in DOMAIN records : IdOf(r)' = IdOf(r) /\ (Unadmitted(r)' <=> Unadmitted(r))
  BY <1>5 DEF IdOf, Unadmitted
<1>13. IdOf(m)' = id /\ Unadmitted(m)'
  BY <1>3, <1>5 DEF IdOf, Unadmitted
<1>14. Attended(p)'
  BY <1>5, <1>8, <1>12 DEF OwnerInv, Attended
<1>15. OneUndecided'
  <2> SUFFICES ASSUME NEW r \in DOMAIN records', NEW q \in DOMAIN records',
                      records'[r].channel = records'[q].channel, r < q, Unadmitted(r)'
               PROVE  FALSE
    BY DEF OneUndecided
  <2>1. r \in DOMAIN records /\ Unadmitted(r)
    BY <1>5, <1>12
  <2>2. r \in o.attempts
    BY <2>1 DEF OwnerInv, Attended
  <2>3. CASE q = m
    BY <1>5, <1>10, <2>1, <2>2, <2>3
  <2>4. CASE q # m
    BY <1>1, <1>5, <2>1, <2>4 DEF OneUndecided
  <2> QED
    BY <2>3, <2>4
<1>16. \A id2 : AdmittedRecords(id2)' = AdmittedRecords(id2)
  <2>1. ~AdmittedRecord(m)' /\ \A r \in DOMAIN records : AdmittedRecord(r)' <=> AdmittedRecord(r)
    BY <1>5 DEF AdmittedRecord
  <2> QED
    BY <1>5, <1>12, <2>1 DEF AdmittedRecords
<1>17. ASSUME owner'.first PROVE (ChannelOrder /\ Past(owner) /\ MarksTell(owner) /\ Conclusions)'
  <2>1. /\ o.first /\ owner.first /\ ChannelOrder /\ Conclusions
        /\ Past(o) /\ MarksTell(o)
    BY <1>1, <1>7, <1>8, <1>17 DEF Moved, OwnerInv
  <2>2. ASSUME NEW id2 \in Ids, Passed(o, id2) PROVE Passed(p, id2)'
    <3>1. CASE id2.channel = c
      <4>1. o.marks[c] # NoMark /\ id2.sequence <= o.marks[c].sequence
        BY <1>4, <2>2, <3>1 DEF Passed
      <4> QED
        BY <1>8, <3>1, <4>1 DEF Passed
    <3>2. CASE id2.channel # c
      <4>1. HoldsAttempt(p, id2.channel)' <=> HoldsAttempt(o, id2.channel)
        BY <1>2, <1>5, <1>8, <3>2 DEF HoldsAttempt, AttemptsOn
      <4> QED
        BY <1>8, <2>2, <4>1 DEF Passed, Forgotten
    <3> QED
      BY <3>1, <3>2
  <2>3. Past(owner)'
    <3> SUFFICES ASSUME NEW r \in DOMAIN records, r \notin o.attempts PROVE Passed(p, IdOf(r))'
      BY <1>5, <1>7, <1>8 DEF Past
    <3>1. Passed(o, IdOf(r)) /\ IdOf(r) \in Ids
      BY <1>1, <2>1, RecordFields DEF Past
    <3>2. PICK id2 : id2 = IdOf(r)
      OBVIOUS
    <3> QED
      BY <1>12, <2>2, <3>1, <3>2
  <2>4. ChannelOrder'
    <3> SUFFICES ASSUME NEW r \in DOMAIN records', NEW q \in DOMAIN records',
                        records'[r].channel = records'[q].channel, r < q
                 PROVE  records'[r].sequence < records'[q].sequence
      BY DEF ChannelOrder
    <3>1. r \in DOMAIN records
      BY <1>5
    <3>2. CASE q # m
      BY <1>5, <2>1, <3>1, <3>2 DEF ChannelOrder
    <3>3. CASE q = m
      <4>1. records[r].channel = c /\ r \notin o.attempts
        BY <1>5, <1>10, <3>1, <3>3
      <4>2. Passed(o, IdOf(r)) /\ IdOf(r).channel = c /\ IdOf(r).sequence = records[r].sequence
            /\ records[r].sequence \in Nat
        BY <1>1, <2>1, <3>1, <4>1, RecordFields DEF Past
      <4>3. records[r].sequence <= o.marks[c].sequence /\ o.marks[c].sequence \in Int
        BY <1>2, <1>3, <1>4, <4>2, OwnerFields DEF Passed
      <4> QED
        BY <1>4, <1>5, <3>1, <3>3, <4>2, <4>3
    <3> QED
      BY <3>2, <3>3
  <2>5. MarksTell(owner)'
    BY <1>7, <1>8, <1>16, <2>1 DEF MarksTell, Told
  <2>6. ASSUME NEW id2 \in Ids, Failed(owner, id2) PROVE Failed(p, id2)'
    <3>1. AttemptAt(o, id2) # {} \/ Passed(o, id2)
      BY <2>6 DEF Failed, Moved, AttemptAt
    <3>2. id2 # id
      BY <1>4, <3>1
    <3>3. ASSUME NEW r \in DOMAIN records', IdOf(r)' = id2 PROVE records'[r].state \in {"rejected", "cancelled"}
      BY <1>5, <1>12, <1>13, <2>6, <3>2, <3>3 DEF Failed
    <3>4. AttemptAt(o, id2) \subseteq AttemptAt(p, id2)'
      BY <1>2, <1>8, <1>12 DEF AttemptAt
    <3> QED
      BY <2>2, <3>1, <3>3, <3>4 DEF Failed
  <2>7. UNCHANGED <<heard, replies, outcome>>
    BY DEF senderVars
  <2>8. \A reply \in replies : Final(p, reply.id, reply.status)'
    BY <1>1, <1>16, <2>1, <2>6 DEF Conclusions, Final, AdmissionShape
  <2>9. Conclusions'
    BY <1>7, <1>16, <2>1, <2>6, <2>7, <2>8 DEF Conclusions
  <2> QED
    BY <2>3, <2>4, <2>5, <2>9
<1> QED
  BY <1>6, <1>7, <1>11, <1>14, <1>15, <1>17 DEF AdmissionInv

\* Registration decides everything again under one guard.
LEMMA GrantRegisterStep ==
    ASSUME AdmissionInv, NEW h \in handling, GrantRegister(h)
    PROVE  AdmissionInv'
<1>1. AdmissionShape /\ OwnerInv(owner) /\ (owner.first => ChannelOrder)
  BY OwnerItself
<1>2. PICK id : id = h.id
  OBVIOUS
<1>3. id \in Ids /\ id.channel \in Channels /\ handling \ {h} \subseteq Handles
  BY <1>1, <1>2, HandlesKept, IdFields
<1>4. CASE AttemptAt(owner, id) # {}
  <2>1. PICK r \in AttemptAt(owner, h.id) : AnswerExisting(h, r)
    BY <1>2, <1>4 DEF GrantRegister
  <2>2. UNCHANGED <<outbound, opened, outcome, asked, cancelled, replies, records, owner>>
    BY <1>2, <1>4 DEF GrantRegister
  <2> QED
    BY <2>1, <2>2, AnswerStep
<1>5. CASE AttemptAt(owner, id) = {} /\ RetiredStatus(owner, id) # "None"
  <2>1. PICK status : status = RetiredStatus(owner, id)
    OBVIOUS
  <2>2. PICK p : p = owner'
    OBVIOUS
  <2>3. /\ p = Consulted(owner, id.channel) /\ heard' = Heard(id, status) /\ handling' = handling \ {h}
        /\ UNCHANGED <<outbound, opened, outcome, asked, cancelled, replies, records>>
    BY <1>2, <1>5, <2>1, <2>2 DEF GrantRegister
  <2>4. OwnerInv(p) /\ Moved(owner, p)
    BY <1>3, <2>3, ConsultedMoves
  <2>5. owner.first /\ status = "Admitted" => AdmittedRecords(id) # {}
    BY <1>1, <1>3, <2>1, RetiredTells DEF Final
  <2> QED
    BY <1>3, <2>2, <2>3, <2>4, <2>5, HeardStep
<1>6. CASE AttemptAt(owner, id) = {} /\ RetiredStatus(owner, id) = "None"
  <2>1. PICK o : o = RetireResolvedPredecessor(owner, id)
    OBVIOUS
  <2>2. OwnerInv(o) /\ Moved(owner, o)
    BY <1>1, <1>3, <2>1, PredecessorRetired
  <2>3. AttemptAt(o, id) = {}
    BY <1>6, <2>2 DEF AttemptAt, Moved
  <2>4. UNCHANGED senderVars /\ handling' = handling \ {h}
    BY <1>2, <1>6 DEF GrantRegister, senderVars
  <2>5. CASE records' = records /\ owner' = o
    <3>1. PICK p : p = owner'
      OBVIOUS
    <3> QED
      BY <1>3, <2>2, <2>4, <2>5, <3>1, QuietStep
  <2>6. CASE /\ CanFollow(o, id) /\ Cardinality(o.attempts) < AttemptCapacity
             /\ records' = Append(records, [channel |-> id.channel, sequence |-> id.sequence,
                                            state |-> "reserved"])
             /\ owner' = [o EXCEPT !.active = [@ EXCEPT ![id.channel] = id.sequence],
                                   !.attempts = @ \cup {Len(records) + 1},
                                   !.grants = @ \cup {Len(records) + 1}]
    BY <1>3, <2>2, <2>3, <2>4, <2>6, ReserveStep
  <2> QED
    BY <1>2, <1>6, <2>1, <2>5, <2>6 DEF GrantRegister
<1> QED
  BY <1>4, <1>5, <1>6

\* Every step keeps the inductive invariant.
LEMMA AdmissionStep == AdmissionInv /\ [AdmissionNext]_admissionVars => AdmissionInv'
<1> SUFFICES ASSUME AdmissionInv, [AdmissionNext]_admissionVars PROVE AdmissionInv'
  OBVIOUS
<1>1. AdmissionShape /\ OwnerInv(owner) /\ Moved(owner, owner)
  BY OwnerItself
<1>2. CASE UNCHANGED admissionVars
  <2>1. PICK p : p = owner'
    OBVIOUS
  <2>2. UNCHANGED <<senderVars, records, owner>> /\ handling' \subseteq Handles
    BY <1>1, <1>2 DEF admissionVars, senderVars, AdmissionShape, Handles
  <2> QED
    BY <1>1, <2>1, <2>2, QuietStep
<1>3. CASE \E s \in Slots : Sender(s)
  BY <1>3, SenderStep
<1>4. ASSUME NEW id \in Ids, GrantArrives(id) PROVE AdmissionInv'
  <2>1. PICK p : p = owner'
    OBVIOUS
  <2>2. UNCHANGED <<senderVars, records, owner>> /\ handling' \subseteq Handles
    BY <1>1, <1>4 DEF GrantArrives, AdmissionShape, Handles, Handle
  <2> QED
    BY <1>1, <2>1, <2>2, QuietStep
<1>5. ASSUME NEW h \in handling, GrantRefused(h) PROVE AdmissionInv'
  <2>1. PICK p : p = owner'
    OBVIOUS
  <2>2. UNCHANGED <<senderVars, records, owner>> /\ handling' \subseteq Handles
    BY <1>1, <1>5 DEF GrantRefused, AdmissionShape, Handles
  <2> QED
    BY <1>1, <2>1, <2>2, QuietStep
<1>6. CASE \E h \in handling : Grant(h)
  BY <1>5, <1>6, GrantRetiredStep, GrantExistingStep, GrantPositionStep, GrantRegisterStep DEF Grant
<1>7. CASE \E r \in DOMAIN records : Work(r)
  BY <1>7, WorkStep, AnnounceStep, RetireRecordStep, ExpireAttemptStep DEF Work
<1> QED
  BY <1>2, <1>3, <1>4, <1>6, <1>7, ControlCancelStep, ExpireWatermarkStep, DepartStep, RejoinStep
     DEF AdmissionNext

\* It holds at the start.
LEMMA AdmissionStart == AdmissionInit => AdmissionInv
<1> SUFFICES ASSUME AdmissionInit PROVE AdmissionInv
  OBVIOUS
<1>1. records = << >> /\ DOMAIN records = {} /\ owner = NewOwner
  BY DEF AdmissionInit
<1>2. [channel |-> 0, next |-> 0, pc |-> "idle"] \in OutboundSlots
  BY AdmissionAssumption DEF OutboundSlots
<1>3. outbound \in [Slots -> OutboundSlots]
  BY <1>2 DEF AdmissionInit
<1>4. outcome \in [Ids -> {"unknown", "admitted", "failed"}] /\ \A id \in Ids : outcome[id] = "unknown"
  BY DEF AdmissionInit
<1>5. AdmissionShape
  BY <1>1, <1>3, <1>4, AdmissionAssumption DEF AdmissionInit, AdmissionShape
<1>6. Core(owner) /\ \A c \in Channels : owner.marks[c] = NoMark
  BY <1>1, NewOwnerFresh
<1>7. Attended(owner) /\ OneUndecided /\ ChannelOrder /\ Past(owner)
  BY <1>1 DEF Attended, OneUndecided, ChannelOrder, Past
<1>8. MarksTell(owner)
  BY <1>6 DEF MarksTell
<1>9. Conclusions
  BY <1>4 DEF AdmissionInit, Conclusions
<1> QED
  BY <1>5, <1>6, <1>7, <1>8, <1>9 DEF AdmissionInv

\* It implies the two properties.
LEMMA AdmissionHolds == AdmissionInv => AdmittedOnceInOrder /\ SendersToldTheTruth
<1> SUFFICES ASSUME AdmissionInv PROVE AdmittedOnceInOrder /\ SendersToldTheTruth
  OBVIOUS
<1>1. /\ AdmissionShape /\ Core(owner) /\ OneUndecided /\ owner \in Owners /\ Listed(owner)
      /\ owner.first => ChannelOrder /\ Conclusions
  BY DEF AdmissionInv, Core
<1>2. WithinCapacities
  BY <1>1 DEF Core, WithinCapacities
<1>3. Retained(owner) = {owner.order[i] : i \in DOMAIN owner.order}
  <2>1. DOMAIN owner.marks = Channels /\ owner.order \in Seq(Channels)
    BY <1>1, OwnerFields DEF Owners
  <2>2. \A i \in DOMAIN owner.order : owner.order[i] \in Channels
    BY <2>1
  <2> QED
    BY <1>1, <2>1, <2>2 DEF Retained, Listed
<1>4. DOMAIN outcome = Ids
  BY <1>1 DEF AdmissionShape
<1>5. \A s \in Slots : outbound[s].pc \in {"idle", "sending", "resolving"}
  BY <1>1 DEF AdmissionShape, OutboundSlots
<1>6. \A c \in DOMAIN owner.marks : owner.marks[c].status \in Statuses
  BY <1>1, OwnerFields
<1>7. AdmissionTypeOK
  BY <1>1, <1>3, <1>4, <1>5, <1>6 DEF AdmissionTypeOK, AdmissionShape, Core, Listed
<1>8. ASSUME owner.first PROVE AdmittedOnce
  BY <1>1, <1>8, OneOfId DEF AdmittedOnce, AdmittedRecords
<1>9. SendersToldTheTruth
  <2> SUFFICES ASSUME owner.first, NEW id \in Ids
               PROVE  /\ outcome[id] = "failed" => AdmittedRecords(id) = {}
                      /\ outcome[id] = "admitted" => AdmittedRecords(id) # {}
    BY <1>4 DEF SendersToldTheTruth
  <2>1. outcome[id] = "failed" => Failed(owner, id)
    BY <1>1 DEF Conclusions
  <2>2. Failed(owner, id) => AdmittedRecords(id) = {}
    BY DEF Failed, AdmittedRecords, AdmittedRecord
  <2> QED
    BY <1>1, <2>1, <2>2 DEF Conclusions
<1> QED
  BY <1>1, <1>2, <1>7, <1>8, <1>9 DEF AdmittedOnceInOrder

\* For any number of channels, positions, records and requests in flight, and any capacities
\* of which the watermarks' exceeds the attempts': deliveries of a channel are decided one
\* after another; while no owner of the peer ended, in the order of their positions and each
\* admitted at most once; and the owner always finds a watermark to forget
\* (RelayPeerOwner::register, retire_resolved_predecessor, can_follow, forgotten, record).
THEOREM AdmissionsInOrder == AdmissionSpec => []AdmittedOnceInOrder
BY AdmissionStart, AdmissionStep, AdmissionHolds, PTL DEF AdmissionSpec

\* And what a sender concluded is final while no owner of the peer ended: a delivery it takes
\* for failed is never admitted, whatever grant or body is still on its way, and one it takes
\* for admitted was (control, retired_status, resolve_failed_relay_admission).
THEOREM SendersKnow == AdmissionSpec => []SendersToldTheTruth
BY AdmissionStart, AdmissionStep, AdmissionHolds, PTL DEF AdmissionSpec
=============================================================================
