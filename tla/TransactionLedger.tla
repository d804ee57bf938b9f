------------------------- MODULE TransactionLedger -------------------------
(***************************************************************************)
(* The replicated transactions of the consensus state machine, the domain  *)
(* mutation leases that fence them and the planning inputs they change.    *)
(*                                                                         *)
(* One action is one log entry as `apply_consensus_command_at` applies it. *)
(* Entries are proposed by coordinators that may have lost leadership,     *)
(* retried, or planned from an older state, so nothing is assumed about    *)
(* when an entry arrives: every parameter an entry may carry is possible.  *)
(* An entry that is refused changes nothing and is not an action.          *)
(*                                                                         *)
(* Inactivity is a nondeterministic choice: any OPEN transaction may be    *)
(* past its deadline when an entry that checks it is applied.              *)
(***************************************************************************)
EXTENDS Integers, Sequences, FiniteSets

CONSTANTS
  Txn,            \* transaction ids
  Command,        \* command execution references
  Domain,
  DomainOf,       \* the domain a transaction is bound to when it is opened
  OwnerOf,        \* mutation_owner: the transaction itself, or its command
  Statement,      \* queued requests; a request keeps its reference and position
  Kind,           \* what a statement is
  PositionOf,     \* the expected_position of a request
  Live,           \* live identities a planner may see; they are not replicated
  Width,          \* how many model statements a plan groups under live identities
  MaxStatements,  \* limits.max_statements
  MaxOpen,        \* max_open_transactions
  MaxGrants,      \* bound on lease acquisitions
  MaxOther,       \* bound on the changes other writers make to the domains
  None

Kinds == {"model", "pausing", "config", "catalog"}

ASSUME LedgerAssumption ==
  /\ DomainOf \in [Txn -> Domain]
  /\ OwnerOf \in [Txn -> Txn \cup Command]
  /\ \A t \in Txn : OwnerOf[t] \in Txn => OwnerOf[t] = t
  /\ Txn \cap Command = {}
  /\ Kind \in [Statement -> Kinds]
  /\ PositionOf \in [Statement -> Nat]
  /\ Width \in [Live -> Nat \ {0}]
  /\ MaxStatements \in Nat /\ MaxOpen \in Nat
  /\ MaxGrants \in Nat /\ MaxOther \in Nat
  /\ None \notin Txn \cup Command \cup [owner : Txn \cup Command, fence : Nat]

VARIABLES
  grants,    \* fences issued so far: log positions of the entries that acquired a lease
  lease,     \* domain_mutations: the lease held on each domain
  inputs,    \* what validate_domain_planning_inputs compares, for each domain
  txn,       \* transactions
  command,   \* command executions and the leases bound to them
  others     \* changes other writers have made to the domains

vars == <<grants, lease, inputs, txn, command, others>>

-----------------------------------------------------------------------------
(* Leases.                                                                 *)

Owner == Txn \cup Command
Lease == [owner : Owner, fence : Nat]

NextLease(owner) == [owner |-> owner, fence |-> grants + 1]

\* Plausible fault: a conflict is admitted as a join.
AdmittedAnyone(d, owner) == TRUE

\* DomainMutationAdmission::decide. An owner that already holds the domain joins
\* its lease under the fence it was granted.
Admitted(d, owner) ==
  \/ lease[d] = None
  \/ lease[d] # None /\ lease[d].owner = owner

AdmittedLease(d, owner) == IF lease[d] = None THEN NextLease(owner) ELSE lease[d]

\* The fence is the position of the entry, so it is spent when the entry is
\* applied.
Spends(d) == lease[d] = None

-----------------------------------------------------------------------------
(* Planning inputs. A schedule and a domain state are the changes they      *)
(* accumulate: who made each one, and at which statement. The part of the   *)
(* schedule that follows Kafka partitions is counted apart.                 *)

Tag(by, first) == [by |-> by, first |-> first]

NoInputs ==
  [schedule |-> <<>>, kafka |-> 0, config |-> <<>>, resources |-> {}, paused |-> FALSE]

AfterSchedule(in, tag) == [in EXCEPT !.schedule = Append(@, tag)]
AfterDomainUpdate(in, tag) == [in EXCEPT !.config = Append(@, tag)]
AfterResourceCatalog(in, s) == [in EXCEPT !.resources = @ \cup {s}]
AfterDomainPause(in) == [in EXCEPT !.paused = TRUE]

IsModel(s) == Kind[s] \in {"model", "pausing"}

\* A statement needs the lease unless it only creates a resource catalog.
RequiresOwnership(s) == Kind[s] # "catalog"

-----------------------------------------------------------------------------
(* Commit plans.                                                           *)

\* Where the step that begins after `first` statements ends: model statements are
\* grouped, every other statement is a step of its own.
StepEnd(statements, first, width) ==
  LET Groups(e) == \A i \in first + 1 .. e : IsModel(statements[i])
      Ends == {e \in first + 1 .. Len(statements) :
                 e = first + 1 \/ (e <= first + width /\ Groups(e))}
  IN  CHOOSE e \in Ends : \A f \in Ends : f <= e

\* The kind of effect a step has on the inputs it is planned for.
EffectOf(statements, first, in) ==
  LET s == statements[first + 1]
  IN  CASE IsModel(s) -> "schedule"
        [] Kind[s] = "config" -> "domain"
        [] Kind[s] = "catalog" /\ s \notin in.resources -> "catalog"
        [] OTHER -> "none"

Apply(effect, in, t, statements, first) ==
  CASE effect = "schedule" -> AfterSchedule(in, Tag(t, first))
    [] effect = "domain" -> AfterDomainUpdate(in, Tag(t, first))
    [] effect = "catalog" -> AfterResourceCatalog(in, statements[first + 1])
    [] OTHER -> in

PlanStep(t, statements, first, in, width) ==
  LET last == StepEnd(statements, first, width)
  IN  [first |-> first, last |-> last, inputs |-> in,
       effect |-> EffectOf(statements, first, in),
       pauses |-> \E i \in first + 1 .. last : Kind[statements[i]] = "pausing"]

\* TransactionCommitAdmissionPlan::capture: the steps of a plan, each with the
\* inputs the steps before it leave behind.
Plan(t, statements, in, live) ==
  LET n == Len(statements)
      step[k \in 1..n] ==
        IF k = 1 THEN PlanStep(t, statements, 0, in, Width[live])
        ELSE LET p == step[k - 1]
             IN  IF p = None \/ p.last = n THEN None
                 ELSE PlanStep(t, statements, p.last,
                               Apply(p.effect, p.inputs, t, statements, p.first),
                               Width[live])
      count == Cardinality({k \in 1..n : step[k] # None})
  IN  [k \in 1..count |-> step[k]]

\* The operation ranges a report describes.
Ranges(t, statements, live) ==
  LET plan == Plan(t, statements, NoInputs, live)
  IN  {<<plan[k].first, plan[k].last>> : k \in DOMAIN plan}

\* FrozenTransactionCommitStep::effect_inputs.
EffectInputs(step) ==
  IF step.effect = "schedule" /\ step.pauses
  THEN AfterDomainPause(step.inputs) ELSE step.inputs

-----------------------------------------------------------------------------
(* Transactions.                                                           *)

\* `latest` stands for the report of the latest preview of a commit: the live
\* identities it was planned under, which decide the steps it describes.
NoTransaction ==
  [state |-> "absent", statements |-> <<>>, latest |-> None, plan |-> <<>>,
   lease |-> None, next |-> 0, results |-> <<>>, applying |-> None,
   outcome |-> None, accepted |-> 0]

RequiresDomainMutation(t) ==
  \E i \in DOMAIN txn[t].statements : RequiresOwnership(txn[t].statements[i])

IsLive(t) == txn[t].state \in {"open", "committing"}

\* ReplicatedTransaction::finish. The plan and the preview are kept for inspection;
\* no entry changes anything by them any more, so they are dropped here.
Finish(t, outcome, results) ==
  [NoTransaction EXCEPT !.state = "finished", !.outcome = outcome, !.results = results,
                        !.accepted = Len(txn[t].statements)]

NoBinding == [d \in Domain |-> None]

Init ==
  /\ grants = 0
  /\ lease = [d \in Domain |-> None]
  /\ inputs = [d \in Domain |-> NoInputs]
  /\ txn = [t \in Txn |-> NoTransaction]
  /\ command = [c \in Command |-> [state |-> "absent", bound |-> NoBinding]]
  /\ others = 0

OpenTransaction(t) ==
  /\ txn[t].state = "absent"
  /\ Cardinality({u \in Txn : IsLive(u)}) < MaxOpen
  /\ txn' = [txn EXCEPT ![t].state = "open"]
  /\ UNCHANGED <<grants, lease, inputs, command, others>>

\* An OPEN transaction found past its inactivity deadline by a Queue, Touch, Start,
\* Fail, Revert or Expire entry. A Touch that renews it changes only its deadline.
ExpireTransaction(t) ==
  /\ txn[t].state = "open"
  /\ txn' = [txn EXCEPT ![t] = Finish(t, "expired", <<>>)]
  /\ UNCHANGED <<grants, lease, inputs, command, others>>

\* queue_admission of a request the transaction has not accepted.
QueueAdmission(t, s) ==
  /\ txn[t].state = "open"
  /\ \A i \in DOMAIN txn[t].statements : txn[t].statements[i] # s
  /\ PositionOf[s] = Len(txn[t].statements)
  /\ Len(txn[t].statements) < MaxStatements

QueueTransactionStatement(t, s) ==
  /\ QueueAdmission(t, s)
  /\ txn' = [txn EXCEPT ![t].statements = Append(@, s)]
  /\ UNCHANGED <<grants, lease, inputs, command, others>>

RevertTransaction(t) ==
  /\ txn[t].state = "open"
  /\ txn' = [txn EXCEPT ![t] = Finish(t, "reverted", <<>>)]
  /\ UNCHANGED <<grants, lease, inputs, command, others>>

-----------------------------------------------------------------------------
(* Commit admission.                                                       *)

StartedTransaction(t, live, held) ==
  [txn[t] EXCEPT !.state = "committing", !.latest = live, !.lease = held,
                 !.plan = Plan(t, txn[t].statements, inputs[DomainOf[t]], live)]

\* StartTransactionCommit whose planning inputs are current and whose expected
\* preview is the current one.
StartTransactionCommit(t, live) ==
  LET d       == DomainOf[t]
      owner   == OwnerOf[t]
      needs   == RequiresDomainMutation(t)
  IN  /\ txn[t].state = "open"
      /\ needs => Admitted(d, owner) /\ (Spends(d) => grants < MaxGrants)
      /\ txn' = [txn EXCEPT ![t] = StartedTransaction(t, live,
                   IF needs THEN AdmittedLease(d, owner) ELSE None)]
      /\ lease' = IF needs THEN [lease EXCEPT ![d] = AdmittedLease(d, owner)]
                  ELSE lease
      /\ grants' = IF needs /\ Spends(d) THEN grants + 1 ELSE grants
      /\ UNCHANGED <<inputs, command, others>>

\* The same entry, and FailTransactionCommitAdmission, when the preview the client
\* expected is not the current one. The state of the transaction is not examined:
\* a COMMITTING one adopts the preview too, and the report of the preview its commit
\* was admitted with is dropped. What an OPEN one adopts is replaced by its next commit.
StalePreview(t, live) ==
  /\ txn[t].state = "committing"
  /\ txn' = [txn EXCEPT ![t].latest = live]
  /\ UNCHANGED <<grants, lease, inputs, command, others>>

\* FailTransactionCommitAdmission with the current preview: planning failed at a
\* statement the transaction holds.
FailTransactionCommitAdmission(t) ==
  /\ txn[t].state = "open"
  /\ Len(txn[t].statements) > 0
  /\ txn' = [txn EXCEPT ![t] = Finish(t, "failed", <<>>)]
  /\ UNCHANGED <<grants, lease, inputs, command, others>>

-----------------------------------------------------------------------------
(* Commit execution.                                                       *)

\* validate_transaction_domain_mutation.
HoldsDomainMutation(t) ==
  IF txn[t].lease = None THEN ~RequiresDomainMutation(t)
  ELSE lease[DomainOf[t]] = txn[t].lease

CurrentStep(t) == txn[t].plan[Len(txn[t].results) + 1]

\* replace_execution_step finds the step in the report of the latest preview.
Reported(t, step) ==
  <<step.first, step.last>> \in Ranges(t, txn[t].statements, txn[t].latest)

\* Plausible fault: the last statement but one completes the commit.
ApplyingStepCompletesEarly(t, step, success) ==
  [first |-> step.first, last |-> step.last,
   effect |-> IF success THEN step.effect ELSE "none",
   inputs |-> step.inputs, success |-> success,
   completion |-> IF ~success THEN "failed"
                  ELSE IF step.last >= Len(txn[t].statements) - 1 THEN "committed"
                  ELSE None]

ApplyingStep(t, step, success) ==
  [first |-> step.first, last |-> step.last,
   effect |-> IF success THEN step.effect ELSE "none",
   inputs |-> step.inputs, success |-> success,
   completion |-> IF ~success THEN "failed"
                  ELSE IF step.last = Len(txn[t].statements) THEN "committed"
                  ELSE None]

\* AdvanceTransactionCommit of the next step. A step that failed, also because its
\* planning inputs changed, is recorded without an effect.
AdvanceTransactionCommit(t, success) ==
  LET d    == DomainOf[t]
      step == CurrentStep(t)
  IN  /\ txn[t].state = "committing"
      /\ HoldsDomainMutation(t)
      /\ txn[t].applying = None
      /\ Len(txn[t].results) < Len(txn[t].plan)
      /\ success /\ step.effect # "none" => inputs[d] = EffectInputs(step)
      /\ Reported(t, step)
      /\ txn' = [txn EXCEPT ![t].applying = ApplyingStep(t, step, success)]
      /\ inputs' = IF ~success THEN inputs
                   ELSE [inputs EXCEPT ![d] =
                           Apply(step.effect, @, t, txn[t].statements, step.first)]
      /\ UNCHANGED <<grants, lease, command, others>>

\* Plausible fault: a completed step does not move the progress on.
CompletedInPlace(t, applied) ==
  LET a       == txn[t].applying
      result  == [first |-> a.first, last |-> a.last, effect |-> a.effect,
                  success |-> a.success /\ applied]
      results == Append(txn[t].results, result)
      outcome == IF applied THEN a.completion ELSE "failed"
  IN  IF outcome = None
      THEN [txn[t] EXCEPT !.applying = None, !.results = results]
      ELSE Finish(t, outcome, results)

\* complete_application.
Completed(t, applied) ==
  LET a       == txn[t].applying
      success == a.success /\ applied
      result  == [first |-> a.first, last |-> a.last, effect |-> a.effect,
                  success |-> success]
      results == Append(txn[t].results, result)
      outcome == IF applied THEN a.completion ELSE "failed"
  IN  IF outcome = None
      THEN [txn[t] EXCEPT !.applying = None, !.next = a.last, !.results = results]
      ELSE Finish(t, outcome, results)

\* Plausible fault: the rollback restores the schedule the commit began with.
RolledBackToBase(t) ==
  [inputs[DomainOf[t]] EXCEPT !.schedule = txn[t].plan[1].inputs.schedule,
                              !.kafka = txn[t].plan[1].inputs.kafka]

\* transaction_schedule_rollback: the schedule the step replaced is put back.
RolledBack(t) ==
  [inputs[DomainOf[t]] EXCEPT !.schedule = txn[t].applying.inputs.schedule,
                              !.kafka = txn[t].applying.inputs.kafka]

\* Plausible fault: a finishing transaction releases its command's lease.
ReleasesAnyLease(held) == held # None

\* A lease that belongs to a command outlives the transaction it runs.
ReleasesLease(held) == held # None /\ held.owner \in Txn

\* CompleteTransactionApplication: the step is applied, failed, or rolled back.
CompleteTransactionApplication(t, how) ==
  LET d    == DomainOf[t]
      held == txn[t].lease
      done == Completed(t, how = "applied")
  IN  /\ txn[t].state = "committing"
      /\ HoldsDomainMutation(t)
      /\ txn[t].applying # None
      /\ Reported(t, txn[t].applying)
      /\ how = "rolledback" => txn[t].applying.effect = "schedule"
      /\ txn' = [txn EXCEPT ![t] = done]
      /\ inputs' = IF how = "rolledback"
                   THEN [inputs EXCEPT ![d] = RolledBack(t)] ELSE inputs
      /\ lease' = IF done.state = "finished" /\ ReleasesLease(held)
                  THEN [lease EXCEPT ![d] = None] ELSE lease
      /\ UNCHANGED <<grants, command, others>>

FinishEmptyTransactionCommit(t) ==
  /\ txn[t].state = "committing"
  /\ txn[t].statements = <<>>
  /\ txn[t].next = 0
  /\ txn[t].applying = None
  /\ txn' = [txn EXCEPT ![t] = Finish(t, "committed", <<>>)]
  /\ UNCHANGED <<grants, lease, inputs, command, others>>

\* RemoveFinishedTransactions drops a tombstone that no applying command can resume
\* through. Its id is never opened again: ids are unique.
RemoveFinishedTransaction(t) ==
  /\ txn[t].state = "finished"
  /\ OwnerOf[t] \in Command => command[OwnerOf[t]].state # "applying"
  /\ txn' = [txn EXCEPT ![t] = [NoTransaction EXCEPT !.state = "removed"]]
  /\ UNCHANGED <<grants, lease, inputs, command, others>>

-----------------------------------------------------------------------------
(* Leases of commands.                                                     *)

\* AdmitCommandExecution with the domains it mutates: all of them or none.
AdmitCommandExecution(c, domains) ==
  /\ command[c].state = "absent"
  /\ \A d \in domains : Admitted(d, c)
  /\ (\E d \in domains : Spends(d)) => grants < MaxGrants
  /\ lease' = [d \in Domain |-> IF d \in domains THEN AdmittedLease(d, c) ELSE lease[d]]
  /\ command' = [command EXCEPT ![c] =
                   [state |-> "applying",
                    bound |-> [d \in Domain |->
                                 IF d \in domains THEN AdmittedLease(d, c) ELSE None]]]
  /\ grants' = IF \E d \in domains : Spends(d) THEN grants + 1 ELSE grants
  /\ UNCHANGED <<inputs, txn, others>>

AcquireCommandDomainMutation(c, d) ==
  /\ command[c].state = "applying"
  /\ command[c].bound[d] = None
  /\ Admitted(d, c)
  /\ Spends(d) => grants < MaxGrants
  /\ lease' = [lease EXCEPT ![d] = AdmittedLease(d, c)]
  /\ command' = [command EXCEPT ![c].bound[d] = AdmittedLease(d, c)]
  /\ grants' = IF Spends(d) THEN grants + 1 ELSE grants
  /\ UNCHANGED <<inputs, txn, others>>

ReleaseCommandDomainMutation(c, d) ==
  /\ command[c].state = "applying"
  /\ command[c].bound[d] # None
  /\ command[c].bound[d] = lease[d]
  /\ lease' = [lease EXCEPT ![d] = None]
  /\ command' = [command EXCEPT ![c].bound[d] = None]
  /\ UNCHANGED <<grants, inputs, txn, others>>

\* FinishCommandExecution releases every lease bound to the command.
FinishCommandExecution(c) ==
  /\ command[c].state = "applying"
  /\ \A d \in Domain : command[c].bound[d] \in {None, lease[d]}
  /\ lease' = [d \in Domain |->
                 IF command[c].bound[d] = None THEN lease[d] ELSE None]
  /\ command' = [command EXCEPT ![c] = [state |-> "finished", bound |-> NoBinding]]
  /\ UNCHANGED <<grants, inputs, txn, others>>

-----------------------------------------------------------------------------
(* Other writers of the planning inputs.                                   *)

OtherChange ==
  /\ others < MaxOther
  /\ others' = others + 1
  /\ UNCHANGED <<grants, lease, txn, command>>

\* Plausible fault: only a lease that is presented is compared.
ValidatesPresentedLease(d, requested) == requested = None \/ requested = lease[d]

\* validate_domain_mutation: the proposer names the lease that is held, or none when
\* none is.
ValidateDomainMutation(d, requested) == requested = lease[d]

\* The proposer holds no lease, or one bound to its command: a transaction changes the
\* models and the state of its domain by the steps of its commit only.
ProposedUnder(d, requested) ==
  /\ ValidateDomainMutation(d, requested)
  /\ requested # None => requested.owner \in Command

ByProposer(requested) == Tag(IF requested = None THEN None ELSE requested.owner, 0)

ReplaceDomainSchedule(d, requested) ==
  /\ ProposedUnder(d, requested)
  /\ inputs' = [inputs EXCEPT ![d] = AfterSchedule(@, ByProposer(requested))]
  /\ OtherChange

\* PutDomain, StartDomain and StopDomain.
PutDomain(d, requested) ==
  /\ ProposedUnder(d, requested)
  /\ inputs' = [inputs EXCEPT ![d] = AfterDomainUpdate(@, ByProposer(requested))]
  /\ OtherChange

PutDomainAndSchedule(d, requested) ==
  /\ ProposedUnder(d, requested)
  /\ inputs' = [inputs EXCEPT ![d] =
       AfterSchedule(AfterDomainUpdate(@, ByProposer(requested)), ByProposer(requested))]
  /\ OtherChange

\* UpdateKafkaPartitionSchedule asks for no lease.
UpdateKafkaPartitionSchedule(d) ==
  /\ inputs' = [inputs EXCEPT ![d].kafka = @ + 1]
  /\ OtherChange

\* ApplyAutomaticDomainSchedule is refused while a lease is held.
ApplyAutomaticDomainSchedule(d) ==
  /\ ValidateDomainMutation(d, None)
  /\ inputs' = [inputs EXCEPT ![d] = AfterSchedule(@, Tag(None, 0))]
  /\ OtherChange

\* PauseDomain and ResumeDomain.
PauseDomain(d, requested, paused) ==
  /\ ValidateDomainMutation(d, requested)
  /\ inputs[d].paused # paused
  /\ inputs' = [inputs EXCEPT ![d].paused = paused]
  /\ UNCHANGED <<grants, lease, txn, command, others>>

-----------------------------------------------------------------------------

TransactionEntry(t) ==
  \/ OpenTransaction(t)
  \/ ExpireTransaction(t)
  \/ \E s \in Statement : QueueTransactionStatement(t, s)
  \/ RevertTransaction(t)
  \/ \E live \in Live : StartTransactionCommit(t, live)
  \/ \E live \in Live : StalePreview(t, live)
  \/ FailTransactionCommitAdmission(t)
  \/ \E success \in BOOLEAN : AdvanceTransactionCommit(t, success)
  \/ \E how \in {"applied", "failed", "rolledback"} :
       CompleteTransactionApplication(t, how)
  \/ FinishEmptyTransactionCommit(t)
  \/ RemoveFinishedTransaction(t)

CommandEntry(c) ==
  \/ \E domains \in SUBSET Domain : AdmitCommandExecution(c, domains)
  \/ \E d \in Domain : AcquireCommandDomainMutation(c, d)
  \/ \E d \in Domain : ReleaseCommandDomainMutation(c, d)
  \/ FinishCommandExecution(c)

DomainEntry(d) ==
  \/ \E requested \in {lease[e] : e \in Domain} \cup {None} :
       \/ ReplaceDomainSchedule(d, requested)
       \/ PutDomain(d, requested)
       \/ PutDomainAndSchedule(d, requested)
  \/ UpdateKafkaPartitionSchedule(d)
  \/ ApplyAutomaticDomainSchedule(d)
  \/ \E requested \in {lease[e] : e \in Domain} \cup {None}, paused \in BOOLEAN :
       PauseDomain(d, requested, paused)

Next ==
  \/ \E t \in Txn : TransactionEntry(t)
  \/ \E c \in Command : CommandEntry(c)
  \/ \E d \in Domain : DomainEntry(d)

Spec == Init /\ [][Next]_vars

-----------------------------------------------------------------------------
(* Properties.                                                             *)

Outcomes == {"committed", "failed", "reverted", "expired"}

\* Every record has the shape of its state, queues stay within the statement limit
\* and a fence was issued by an entry that was applied.
TypeOK ==
  /\ grants \in 0..MaxGrants
  /\ \A d \in Domain : lease[d] # None => lease[d] \in [owner : Owner, fence : 1..grants]
  /\ \A t \in Txn :
       /\ txn[t].state \in {"absent", "open", "committing", "finished", "removed"}
       /\ Len(txn[t].statements) <= MaxStatements
       /\ txn[t].state = "finished" <=> txn[t].outcome \in Outcomes
       /\ txn[t].lease # None => txn[t].state = "committing"
       /\ txn[t].applying # None => txn[t].state = "committing"
  /\ \A c \in Command : command[c].state \in {"absent", "applying", "finished"}

\* Each result continues where the one before it ended, beginning at 0.
Consecutive(results) ==
  \A i \in DOMAIN results :
    /\ results[i].first = (IF i = 1 THEN 0 ELSE results[i - 1].last)
    /\ results[i].last > results[i].first

EndOf(results) == IF results = <<>> THEN 0 ELSE results[Len(results)].last

\* Recovery refuses a stored transaction that `is_reachable` rejects, and the node
\* with it. No sequence of entries stores one.
Reachable ==
  \A t \in Txn :
    /\ Consecutive(txn[t].results)
    /\ txn[t].state = "committing" =>
         /\ EndOf(txn[t].results) = txn[t].next
         /\ txn[t].next <= Len(txn[t].statements)
         /\ txn[t].applying # None =>
              /\ txn[t].applying.first = txn[t].next
              /\ txn[t].applying.last > txn[t].next
              /\ txn[t].applying.last <= Len(txn[t].statements)
    /\ txn[t].state = "finished" =>
         /\ txn[t].statements = <<>>
         /\ EndOf(txn[t].results) <= txn[t].accepted

\* A transaction that owns its lease holds it for the whole of its commit, so no
\* entry of its own commit loses the fence, and no lease of a transaction is held
\* once the transaction is terminal.
TransactionLeases ==
  \A t \in Txn : OwnerOf[t] = t =>
    /\ txn[t].lease # None => lease[DomainOf[t]] = txn[t].lease
    /\ \A d \in Domain : lease[d] # None /\ lease[d].owner = t =>
         d = DomainOf[t] /\ txn[t].lease = lease[d]

\* A lease bound to an applying command is held until that command releases it, so
\* its FinishCommandExecution is never refused for a lost fence.
CommandLeases ==
  \A c \in Command, d \in Domain :
    command[c].bound[d] # None =>
      command[c].state = "applying" /\ command[c].bound[d] = lease[d]

FirstsOf(tags, t) ==
  LET mine == SelectSeq(tags, LAMBDA tag : tag.by = t)
  IN  [i \in DOMAIN mine |-> mine[i].first]

\* The statements at which a transaction recorded a successful effect of one kind,
\* the step it is applying included.
RecordedFirsts(t, effect) ==
  LET a    == txn[t].applying
      all  == IF a = None THEN txn[t].results ELSE Append(txn[t].results, a)
      mine == SelectSeq(all, LAMBDA r : r.effect = effect /\ r.success)
  IN  [i \in DOMAIN mine |-> mine[i].first]

\* The statement of the step that failed after its effect was applied.
FailedFirsts(t, effect) ==
  LET mine == SelectSeq(txn[t].results, LAMBDA r : r.effect = effect /\ ~r.success)
  IN  [i \in DOMAIN mine |-> mine[i].first]

\* Every recorded step took effect once, in the order of the statements, and nothing
\* else did: the effect of a step that failed stays or was rolled back, and no
\* rollback, retry or second coordinator removes or repeats another step's effect.
EffectsMatchResults ==
  \A t \in Txn : txn[t].state \in {"committing", "finished"} =>
    LET in == inputs[DomainOf[t]]
    IN  /\ FirstsOf(in.config, t) =
             RecordedFirsts(t, "domain") \o FailedFirsts(t, "domain")
        /\ FirstsOf(in.schedule, t) \in
             {RecordedFirsts(t, "schedule"),
              RecordedFirsts(t, "schedule") \o FailedFirsts(t, "schedule")}

\* While a transaction holds its own lease, no other entry changes the models or the
\* state of its domain.
Isolation ==
  [][\A t \in Txn :
       LET d == DomainOf[t]
       IN  /\ OwnerOf[t] = t /\ txn[t].lease # None
           /\ txn'[t] = txn[t]
           => /\ inputs'[d].schedule = inputs[d].schedule
              /\ inputs'[d].config = inputs[d].config]_vars

-----------------------------------------------------------------------------
(* The transactions implement the contract.                                *)

Applied(t) ==
  LET results == txn[t].results
  IN  IF results = <<>> THEN 0
      ELSE IF results[Len(results)].success THEN results[Len(results)].last
      ELSE results[Len(results)].first

ContractOf(t) ==
  [stage |-> IF txn[t].state = "finished" THEN txn[t].outcome ELSE txn[t].state,
   accepted |-> Len(txn[t].statements) + txn[t].accepted,
   applied |-> Applied(t)]

Contract == INSTANCE TransactionContract WITH
  contract <- [t \in Txn |-> ContractOf(t)]

\* Whatever order the entries of several coordinators are applied in, every
\* transaction keeps the contract.
ImplementsContract == Contract!Spec
=============================================================================
