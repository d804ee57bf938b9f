--------------------------- MODULE RemoteDelivery ---------------------------
(***************************************************************************)
(* Deliveries forwarded to another node: the sender's side                 *)
(* (src/src/runtime/relay_boundary.rs, remote_dispatch.rs) over the        *)
(* registry of its correlations, and the receiver's watches                *)
(* (remote_dispatch.rs, remote_ack_registrar.rs).  Answers are lost,       *)
(* duplicated and delayed without bound, and the sender may restart, after *)
(* which its registry hands out the same numbers again.  The transport's   *)
(* admission of a delivery is one choice here (module RelayAdmission       *)
(* models how it is made).                                                 *)
(***************************************************************************)
EXTENDS CorrelationRegistry

CONSTANTS MaxRuns,      \* runs of the sending node that are explored
          MayStop,      \* whether the sender's registry may be shut down
          ViewMisses    \* whether the receiver's live view may miss the sender

VARIABLES
    run,      \* the incarnation of the sending node
    task,     \* delivery -> where the task that forwards it stands
    settled,  \* delivery -> row -> how its forwarded share was settled
    remote,   \* delivery -> what the receiver made of it
    watch,    \* delivery -> row -> the receiver's watch
    answers   \* terminal answers handed to the transport

deliveryVars == <<run, task, settled, remote, watch, answers>>
vars == <<registryVars, deliveryVars>>

NoId == [position |-> <<"records", 0>>, generation |-> 0]
Idle == [pc |-> "idle", run |-> 0, records |-> NoId, admission |-> NoId, heard |-> "Pending"]

\* What became of a row's share, and on whose account.
Outcomes == {"pending", "refused", "acked", "failed", "cleared", "dropped",
             "expired", "ended", "lost"}
\* The steps of a delivery's task that hold its records before admission.
Registering == {"stored", "asking", "sending", "awaiting", "resolving", "granted", "clearing"}
TaskSteps == {"idle", "storing", "dropping", "delivered", "undelivered", "lost"} \cup Registering

TypeOK ==
    /\ RegistryTypeOK
    /\ run \in 1 .. MaxRuns
    /\ \A d \in Deliveries : task[d].pc \in TaskSteps
    /\ settled \in [Deliveries -> [Rows -> Outcomes]]
    /\ remote \in [Deliveries ->
         {"unseen", "received", "admitted", "unwanted", "cancelled", "rejected"}]
    /\ watch \in [Deliveries -> [Rows ->
         [state : {"none", "watching", "ended"}, root : {"open", "ack", "noack"},
          told : BOOLEAN, held : BOOLEAN,
          registrar : {"undiscovered", "present", "missing"}]]]

Init ==
    /\ RegistryInit
    /\ run = 1
    /\ task = [d \in Deliveries |-> Idle]
    /\ settled = [d \in Deliveries |-> [r \in Rows |-> "pending"]]
    /\ remote = [d \in Deliveries |-> "unseen"]
    /\ watch = [d \in Deliveries |-> [r \in Rows |->
         [state |-> "none", root |-> "open", told |-> FALSE, held |-> FALSE,
          registrar |-> "undiscovered"]]]
    /\ answers = {}

Step(d, pc) == [task EXCEPT ![d].pc = pc]
SettleAll(d, outcome) == [settled EXCEPT ![d] = [r \in Rows |-> outcome]]
\* The share found in a position belongs to the delivery that stored it there,
\* whoever asked for it.
Holder(id) == slot[id.position].entry.delivery
Settle(id, r, outcome) == [settled EXCEPT ![Holder(id)][r] = outcome]

(***************************************************************************)
(* Storing the records and asking for the admission.                       *)
(***************************************************************************)
\* store_pending_acks refuses: no capacity, no memory, or the channel retired.
RefuseRecords(d) ==
    /\ task[d].pc = "idle"
    /\ task' = [Step(d, "undelivered") EXCEPT ![d].run = run]
    /\ settled' = SettleAll(d, "refused")
    /\ UNCHANGED <<registryVars, run, remote, watch, answers>>

ClaimRecords(d) ==
    /\ task[d].pc = "idle"
    /\ \E p \in Positions :
         /\ Claim("records", p)
         /\ task' = [task EXCEPT ![d] = [@ EXCEPT !.pc = "storing", !.run = run,
                       !.records = [position |-> p, generation |-> 0]]]
    /\ UNCHANGED <<run, settled, remote, watch, answers>>

StoreRecords(d) ==
    LET p == task[d].records.position IN
    /\ task[d].pc = "storing"
    /\ \/ /\ Occupy(p, Records(d, [r \in Rows |-> Waiting]))
          /\ task' = [task EXCEPT ![d] = [@ EXCEPT !.pc = "stored",
                        !.records = [position |-> p, generation |-> NextGeneration(p)]]]
          /\ UNCHANGED settled
       \/ /\ OccupyRefused(p)
          /\ task' = Step(d, "undelivered")
          /\ settled' = SettleAll(d, "refused")
    /\ UNCHANGED <<run, remote, watch, answers>>

\* The body cannot be encoded, or no position is left for the admission.
AbandonStored(d) ==
    /\ task[d].pc = "stored"
    /\ task' = Step(d, "clearing")
    /\ UNCHANGED <<registryVars, run, settled, remote, watch, answers>>

ClaimAdmission(d) ==
    /\ task[d].pc = "stored"
    /\ \E p \in Positions :
         /\ Claim("admission", p)
         /\ task' = [task EXCEPT ![d] = [@ EXCEPT !.pc = "asking",
                       !.admission = [position |-> p, generation |-> 0]]]
    /\ UNCHANGED <<run, settled, remote, watch, answers>>

RegisterAdmission(d) ==
    LET p == task[d].admission.position IN
    /\ task[d].pc = "asking"
    /\ \/ /\ Occupy(p, [kind |-> "admission", delivery |-> d])
          /\ task' = [task EXCEPT ![d] = [@ EXCEPT !.pc = "sending",
                        !.admission = [position |-> p, generation |-> NextGeneration(p)]]]
       \/ /\ OccupyRefused(p)
          /\ task' = Step(d, "clearing")
    /\ UNCHANGED <<run, settled, remote, watch, answers>>

\* dispatch_relay_payload
SendPayload(d) ==
    /\ task[d].pc = "sending"
    /\ task' = Step(d, "awaiting")
    /\ UNCHANGED <<registryVars, run, settled, remote, watch, answers>>

\* await_relay_admission: what the admission's channel published.
HearAdmission(d) ==
    /\ task[d].pc = "awaiting" /\ task[d].heard = "Admitted"
    /\ task' = Step(d, "granted")
    /\ UNCHANGED <<registryVars, run, settled, remote, watch, answers>>

\* The payload was not sent, the admission was rejected, its owner ended, one
\* of the two timeouts passed, or the branch was evicted: the admission is
\* cleared.
AwaitFailed(d) ==
    /\ task[d].pc = "awaiting"
    /\ task' = Step(d, "resolving")
    /\ IF Found(task[d].admission) THEN TakeAdmission(task[d].admission)
                                    ELSE UNCHANGED registryVars
    /\ UNCHANGED <<run, settled, remote, watch, answers>>

(***************************************************************************)
(* resolve_failed_relay_admission: the receiver is asked to cancel, and    *)
(* its status decides; when it cannot be learnt the delivery failed here   *)
(* whatever the receiver does.                                             *)
(***************************************************************************)
Cancelling(d) ==
    [remote EXCEPT ![d] = CASE @ = "unseen" -> "cancelled"
                            [] @ = "received" -> "unwanted"
                            [] OTHER -> @]

ResolveFailed(d) ==
    /\ task[d].pc = "resolving"
    /\ remote' = Cancelling(d)
    /\ task' = Step(d, IF remote[d] = "admitted" THEN "granted" ELSE "clearing")
    /\ UNCHANGED <<registryVars, run, settled, watch, answers>>

ResolveIndeterminate(d) ==
    /\ task[d].pc = "resolving"
    /\ task' = Step(d, "clearing")
    /\ UNCHANGED <<registryVars, run, settled, remote, watch, answers>>

\* PendingRemoteAckDelivery::admit
AdmitDelivery(d) ==
    /\ task[d].pc = "granted"
    /\ AdmitRows(task[d].records)
    /\ task' = Step(d, "delivered")
    /\ UNCHANGED <<run, settled, remote, watch, answers>>

(***************************************************************************)
(* A delivery that failed clears its rows one by one and then fails the    *)
(* batch; the owner of its registrations resolves them once more when it   *)
(* is dropped.  A delivery whose future is cancelled has only the drop.    *)
(***************************************************************************)
Rest(d) == {r \in Rows : RowFound(task[d].records, r)}

ClearRow(d, r) ==
    /\ task[d].pc = "clearing"
    /\ TakeRow(task[d].records, r)
    /\ settled' = Settle(task[d].records, r, "cleared")
    /\ UNCHANGED <<run, task, remote, watch, answers>>

ClearedAll(d) ==
    /\ task[d].pc = "clearing" /\ Rest(d) = {}
    /\ task' = Step(d, "dropping")
    /\ UNCHANGED <<registryVars, run, settled, remote, watch, answers>>

\* The future is dropped at one of its awaits.  The relay_cancellation_guard asks
\* the receiver to cancel in the background; the request may be lost.
DropDelivery(d) ==
    /\ task[d].pc \in {"stored", "sending", "awaiting", "resolving"}
    /\ task' = Step(d, "dropping")
    /\ remote' \in {remote, Cancelling(d)}
    /\ UNCHANGED <<registryVars, run, settled, watch, answers>>

DropRow(d, r) ==
    /\ task[d].pc = "dropping"
    /\ TakeRow(task[d].records, r)
    /\ settled' = Settle(task[d].records, r, "dropped")
    /\ UNCHANGED <<run, task, remote, watch, answers>>

DroppedAll(d) ==
    /\ task[d].pc = "dropping" /\ Rest(d) = {}
    /\ task' = Step(d, "undelivered")
    /\ UNCHANGED <<registryVars, run, settled, remote, watch, answers>>

(***************************************************************************)
(* The receiver.  Its watches start before it decides the admission; a     *)
(* delivery cancelled or rejected by then drops its roots, which answers   *)
(* every row negatively.                                                   *)
(***************************************************************************)
Answer(d, r, id, outcome) ==
    [run |-> task[d].run, delivery |-> d, row |-> r, id |-> id, outcome |-> outcome]

StartWatches(d, root) ==
    [watch EXCEPT ![d] =
       [r \in Rows |-> [watch[d][r] EXCEPT !.state = "watching", !.root = root]]]

\* The body arrives unless the delivery was cancelled before.
ReceiveBody(d) ==
    /\ remote[d] = "unseen" /\ task[d].admission.generation # 0
    /\ remote' = [remote EXCEPT ![d] = "received"]
    /\ UNCHANGED <<registryVars, run, task, settled, watch, answers>>

AdmitPayload(d) ==
    /\ remote[d] = "received"
    /\ remote' = [remote EXCEPT ![d] = "admitted"]
    /\ watch' = StartWatches(d, "open")
    /\ answers' = answers \cup {Answer(d, 0, task[d].admission, "Ack")}
    /\ UNCHANGED <<registryVars, run, task, settled>>

RejectPayload(d) ==
    /\ remote[d] = "received"
    /\ remote' = [remote EXCEPT ![d] = "rejected"]
    /\ watch' \in {watch, StartWatches(d, "noack")}
    /\ answers' = answers \cup {Answer(d, 0, task[d].admission, "NoAck")}
    /\ UNCHANGED <<registryVars, run, task, settled>>

\* The roots of a delivery that was cancelled between the watches' start and
\* transport.admit().
DropCancelled(d) ==
    /\ remote[d] = "unwanted"
    /\ remote' = [remote EXCEPT ![d] = "cancelled"]
    /\ watch' \in {watch, StartWatches(d, "noack")}
    /\ UNCHANGED <<registryVars, run, task, settled, answers>>

\* The tree of the receiver's root resolves (module RuntimeAck).
DecideRoot(d, r) ==
    /\ remote[d] = "admitted" /\ watch[d][r].root = "open"
    /\ \E outcome \in {"ack", "noack"} :
         watch' = [watch EXCEPT ![d][r].root = outcome]
    /\ UNCHANGED <<registryVars, run, task, settled, remote, answers>>

(***************************************************************************)
(* A look of a watch (next_report, RegistrarPresence::look).  The          *)
(* completion hands its outcome out once; the look at the live view then   *)
(* decides whether it is sent, kept for the registrar's return or given    *)
(* up.                                                                     *)
(***************************************************************************)
\* A watch that ended keeps only what its root came to.
Over(w) == [w EXCEPT !.state = "ended", !.told = FALSE, !.held = FALSE,
                     !.registrar = "undiscovered"]

\* The outcome this look has to return, if any.
Terminal(w) == (w.root # "open" /\ ~w.told) \/ w.held

\* The live view shows the registrar's run, or has not shown it yet and its
\* discovery grace lasts.  A progress report reaches the registry at once or
\* never; a terminal answer goes to the transport.
LookReport(d, r) ==
    LET w == watch[d][r]
        sent == task[d].records
    IN
    /\ w.state = "watching"
    /\ \E seen \in {"present"} \cup (IF ViewMisses THEN {w.registrar} \cap {"undiscovered"} ELSE {}) :
         watch' = [watch EXCEPT ![d][r] =
                     IF Terminal(w) THEN Over(w)
                     ELSE [w EXCEPT !.registrar = seen, !.told = w.root # "open"]]
    /\ IF Terminal(w)
       THEN /\ answers' = answers \cup
                 {Answer(d, r, sent, IF w.root = "ack" THEN "Ack" ELSE "NoAck")}
            /\ UNCHANGED registryVars
       ELSE /\ \/ task[d].run = run /\ ReportRow(sent, r)
               \/ UNCHANGED registryVars
            /\ UNCHANGED answers
    /\ UNCHANGED <<run, task, settled, remote>>

\* A run seen live before is missing from the live view: nothing is sent.
LookHold(d, r) ==
    LET w == watch[d][r] IN
    /\ ViewMisses /\ w.state = "watching" /\ w.registrar \in {"present", "missing"}
    /\ watch' = [watch EXCEPT ![d][r] = [w EXCEPT !.registrar = "missing",
                   !.told = w.told \/ w.root # "open", !.held = Terminal(w)]]
    /\ UNCHANGED <<registryVars, run, task, settled, remote, answers>>

\* Another run replaced the registrar's, or it stayed missing past its grace.
LookRelease(d, r) ==
    LET w == watch[d][r] IN
    /\ w.state = "watching"
    /\ task[d].run # run \/ (ViewMisses /\ w.registrar # "present")
    /\ watch' = [watch EXCEPT ![d][r] = Over(w)]
    /\ UNCHANGED <<registryVars, run, task, settled, remote, answers>>

(***************************************************************************)
(* handle_remote_ack_resolution at the sender.                             *)
(***************************************************************************)
\* The fault of resolving by number alone.
RegisteredAnyRun(answer) == TRUE
\* RemoteDispatcher::registered
Registered(answer) == answer.run = run

ResolveRow(answer) ==
    /\ answer \in answers /\ answer.row \in Rows /\ Registered(answer)
    /\ TakeRow(answer.id, answer.row)
    /\ settled' = Settle(answer.id, answer.row, IF answer.outcome = "Ack" THEN "acked" ELSE "failed")
    /\ UNCHANGED <<run, task, remote, watch, answers>>

ResolveAdmission(answer) ==
    /\ answer \in answers /\ answer.row = 0 /\ Registered(answer)
    /\ TakeAdmission(answer.id)
    /\ task' = [task EXCEPT ![Holder(answer.id)].heard =
                  IF answer.outcome = "Ack" THEN "Admitted" ELSE "Rejected"]
    /\ UNCHANGED <<run, settled, remote, watch, answers>>

(***************************************************************************)
(* The sweep, shutdown and restart.                                        *)
(***************************************************************************)
SweepPosition(p) ==
    \/ /\ SweepRecords(p)
       /\ LET d == slot[p].entry.delivery
          IN  settled' = [settled EXCEPT ![d] =
                [r \in Rows |-> IF r \in ExpiredRows(p) THEN "expired" ELSE settled[d][r]]]
       /\ UNCHANGED <<run, task, remote, watch, answers>>
    \/ /\ slot[p].entry # Vacant
       /\ task[slot[p].entry.delivery].pc \notin {"sending", "awaiting"}
       /\ ReclaimAdmission(p)
       /\ UNCHANGED deliveryVars

Shutdown ==
    /\ MayStop
    /\ \/ SealClaims /\ UNCHANGED deliveryVars
       \/ CloseQueues /\ UNCHANGED deliveryVars
       \/ EndShutdown /\ UNCHANGED deliveryVars
       \/ \E p \in Positions :
            LET entry == slot[p].entry IN
            /\ EndPosition(p)
            /\ settled' = IF entry.kind = "records"
                          THEN [settled EXCEPT ![entry.delivery] =
                                 [r \in Rows |-> IF entry.rows[r] = NoRow
                                                 THEN settled[entry.delivery][r] ELSE "ended"]]
                          ELSE settled
            /\ task' = IF entry.kind = "admission"
                       THEN [task EXCEPT ![entry.delivery].heard = "Rejected"] ELSE task
            /\ UNCHANGED <<run, remote, watch, answers>>

\* The process ends with its registry and its tasks; what it forwarded lives on
\* at the receiver.
RestartSender ==
    /\ run < MaxRuns
    /\ run' = run + 1
    /\ RegistryRestart
    /\ task' = [d \in Deliveries |->
                  IF task[d].pc \in {"idle", "delivered", "undelivered"}
                  THEN task[d] ELSE [task[d] EXCEPT !.pc = "lost"]]
    /\ settled' = [d \in Deliveries |-> [r \in Rows |->
                     IF task[d].pc # "idle" /\ settled[d][r] = "pending"
                     THEN "lost" ELSE settled[d][r]]]
    /\ UNCHANGED <<remote, watch, answers>>

Forward(d) ==
    \/ RefuseRecords(d) \/ ClaimRecords(d) \/ StoreRecords(d) \/ AbandonStored(d)
    \/ ClaimAdmission(d) \/ RegisterAdmission(d) \/ SendPayload(d) \/ HearAdmission(d)
    \/ AwaitFailed(d) \/ ResolveFailed(d) \/ ResolveIndeterminate(d) \/ AdmitDelivery(d)
    \/ \E r \in Rows : ClearRow(d, r) \/ DropRow(d, r)
    \/ ClearedAll(d) \/ DroppedAll(d)
Look(d, r) == LookReport(d, r) \/ LookHold(d, r) \/ LookRelease(d, r)
Receive(d) ==
    \/ ReceiveBody(d) \/ AdmitPayload(d) \/ RejectPayload(d) \/ DropCancelled(d)
    \/ \E r \in Rows : DecideRoot(d, r) \/ Look(d, r)
Deliver == \E answer \in answers : ResolveRow(answer) \/ ResolveAdmission(answer)

Next ==
    \/ \E d \in Deliveries : Forward(d) \/ DropDelivery(d) \/ Receive(d)
    \/ Deliver
    \/ \E p \in Positions : (Recycle(p) /\ UNCHANGED deliveryVars) \/ SweepPosition(p)
    \/ Shutdown
    \/ RestartSender

Spec == Init /\ [][Next]_vars

-----------------------------------------------------------------------------
\* An answer, a clearing or a drop settles the row it was meant for: a share is
\* acknowledged only if the receiver's root of that row was, fails by an answer
\* only if that root failed, and is cleared or dropped only by the failure of its
\* own delivery, although numbers are used again by later deliveries and, after
\* a restart, by later runs (record_mut, take, registered).
SettledByOwn ==
    \A d \in DOMAIN task :
      /\ \A r \in DOMAIN settled[d] :
           /\ settled[d][r] = "acked" => watch[d][r].root = "ack"
           /\ settled[d][r] = "failed" => watch[d][r].root = "noack"
           /\ settled[d][r] = "cleared" => task[d].pc \in {"clearing", "dropping", "undelivered", "lost"}
           /\ settled[d][r] = "dropped" => task[d].pc \in {"dropping", "undelivered", "lost"}
      /\ task[d].heard = "Admitted" => remote[d] = "admitted"

\* Everything that may hold a position that was handed out once: its places in
\* the free queue, a registrar that has not locked it yet, a return on its way,
\* and what it is occupied by.
Registrars(p) ==
    {d \in DOMAIN task : \/ task[d].pc = "storing" /\ task[d].records.position = p
                         \/ task[d].pc = "asking" /\ task[d].admission.position = p}
Holders(p) ==
    {<<"free", i>> : i \in {i \in DOMAIN free[Side(p)] : free[Side(p)][i] = p}}
    \cup {<<"registrar", d>> : d \in Registrars(p)}
    \cup {<<"returning", q>> : q \in returning \cap {p}}
    \cup {<<"occupied", q>> : q \in {q \in {p} : slot[q].entry # Vacant}}

\* A claimed position has exactly one holder while its registry runs, and never
\* two: it is neither lost, nor returned twice, nor handed to two deliveries
\* (register's and recycle's panics are unreachable).
OneHolder ==
    \A p \in Positions :
      /\ \A a, b \in Holders(p) : a = b
      /\ Holders(p) # {} => HandedOut(p)
      /\ HandedOut(p) /\ slot[p].open /\ stopping.phase = "running" => Holders(p) # {}

\* Once shutdown returned, no position holds a correlation and none ever will,
\* even for a registrar that had claimed its position before the seal: every
\* stored row was settled.
NothingAfterShutdown ==
    stopping.phase = "ended" =>
      /\ \A p \in Positions : slot[p].entry = Vacant
      /\ \A d \in DOMAIN task : \A r \in DOMAIN settled[d] :
           task[d].pc \notin {"idle", "storing"} => settled[d][r] # "pending"

\* An answer, a clearing or a drop settles the row it was meant for, a claimed position
\* has exactly one holder, and once shutdown returned nothing is held: the three together
\* (record_mut, take, registered, recycle, RemoteDispatchRegistry::shutdown).
AnswersReachOwnRows == SettledByOwn /\ OneHolder /\ NothingAfterShutdown
=============================================================================
