------------------------- MODULE CommitCoordinator -------------------------
(***************************************************************************)
(* The coordinators of one COMMIT command: the command as a leader runs it *)
(* and as the next leader runs it again, and the executor that applies the *)
(* steps of the frozen plan.                                               *)
(*                                                                         *)
(* Only the leader appends to the log, so entries are applied in the order *)
(* of their appends and `control` is the state after all of them. A node   *)
(* reads its own applied state, `view`, which may trail the log: reads of  *)
(* `current_transaction` are local, also on a leader that was just elected *)
(* and has not applied what it inherited. A coordinator keeps what it read *)
(* across its awaits; losing leadership does not stop it, it only refuses  *)
(* its next proposal.                                                      *)
(*                                                                         *)
(* The planning inputs are a version that every change of them increments. *)
(* A preview identifies the inputs and the live identities it was planned  *)
(* under; live identities are not replicated. Previews under different     *)
(* identities describe the same steps here; TransactionLedger has those    *)
(* that do not.                                                            *)
(***************************************************************************)
EXTENDS Integers, Sequences, FiniteSets

CONSTANTS
  Node,
  LiveIdentities, \* what a planner may observe
  Plannable,      \* those under which the statements can be planned
  Steps,          \* the steps of the transaction's plan
  MaxTerm,        \* bound on elections
  MaxDrift,       \* bound on changes of inputs by others and of live identities
  MaxRestarts,    \* bound on restarts
  Absent

VARIABLES
  leader,    \* the node that leads
  term,      \* elections held
  live,      \* the live identities planners observe now
  drift,     \* changes of inputs by others and of live identities so far
  restarts,
  control,   \* replicated state after every entry of the log; `effects` is the history
             \* of the steps whose effects were applied
  view,      \* the state each node has applied
  commit,    \* the coordinator of the COMMIT command on each node
  exec       \* the holder of the transaction's execution lock on each node

environment == <<leader, term, live, drift, restarts>>
coordinatorVars == <<environment, control, view, commit, exec>>

-----------------------------------------------------------------------------

Preview(inputs, identities) == [inputs |-> inputs, live |-> identities]

Idle == [pc |-> "idle", latest |-> Absent, preview |-> Absent, result |-> Absent]
Off == [pc |-> "off", done |-> 0]

\* The transaction is open, and the command names the preview its client reviewed.
CoordinatorInit ==
  /\ leader = CHOOSE n \in Node : TRUE
  /\ term = 1
  /\ live \in LiveIdentities
  /\ drift = 0
  /\ restarts = 0
  /\ control = [state |-> "open", inputs |-> 0, expected |-> Preview(0, live),
                latest |-> Preview(0, live), reports |-> {Preview(0, live)},
                plan |-> Absent, done |-> 0, applying |-> Absent, effects |-> <<>>,
                outcome |-> Absent, answer |-> Absent]
  /\ view = [n \in Node |-> control]
  /\ commit = [n \in Node |-> Idle]
  /\ exec = [n \in Node |-> Off]

-----------------------------------------------------------------------------
(* The environment.                                                        *)

Elect(n) ==
  /\ term < MaxTerm
  /\ n # leader
  /\ leader' = n
  /\ term' = term + 1
  /\ UNCHANGED <<live, drift, restarts, control, view, commit, exec>>

CatchUp(n) ==
  /\ view[n] # control
  /\ view' = [view EXCEPT ![n] = control]
  /\ UNCHANGED <<environment, control, commit, exec>>

LiveChanges(l) ==
  /\ drift < MaxDrift
  /\ l # live
  /\ live' = l
  /\ drift' = drift + 1
  /\ UNCHANGED <<leader, term, restarts, control, view, commit, exec>>

\* A writer that needs no lease, such as UpdateKafkaPartitionSchedule.
InputsChange ==
  /\ drift < MaxDrift
  /\ drift' = drift + 1
  /\ control' = [control EXCEPT !.inputs = @ + 1]
  /\ UNCHANGED <<leader, term, live, restarts, view, commit, exec>>

\* A node restarts: its coordinators are gone, its applied state is not.
Restart(n) ==
  /\ restarts < MaxRestarts
  /\ restarts' = restarts + 1
  /\ commit' = [commit EXCEPT ![n] = Idle]
  /\ exec' = [exec EXCEPT ![n] = Off]
  /\ UNCHANGED <<leader, term, live, drift, control, view>>

\* reconcile_transactions_once finds the open transaction past its deadline.
ReconcileExpired ==
  /\ control.state = "open"
  /\ control' = [control EXCEPT !.state = "finished", !.outcome = "expired"]
  /\ UNCHANGED <<environment, view, commit, exec>>

-----------------------------------------------------------------------------
(* The COMMIT command, on the leader that serves it and, by                *)
(* `reconcile_persistent_commands`, on each leader after it.               *)

To(n, pc) == commit' = [commit EXCEPT ![n] = [Idle EXCEPT !.pc = pc]]

\* The result of this run of the command, and the state the transaction was in when
\* it was decided.
Result(n, disposition, state) ==
  commit' = [commit EXCEPT ![n] = [Idle EXCEPT !.pc = "answering",
               !.result = [disposition |-> disposition, state |-> state]]]

\* commit_identified_transaction reads the transaction.
ReadTransaction(n) ==
  /\ leader = n
  /\ commit[n].pc = "idle"
  /\ view[n].answer = Absent
  /\ \/ /\ view[n].state = "open"
        /\ commit' = [commit EXCEPT ![n].pc = "planning", ![n].latest = view[n].latest]
     \/ /\ view[n].state = "committing"
        /\ To(n, "executing")
     \/ /\ view[n].state = "finished"
        /\ Result(n, view[n].outcome, "finished")
  /\ UNCHANGED <<environment, control, view, exec>>

\* prepare_transaction_commit. The inputs are captured while planning, later than the
\* transaction was read. A plan that cannot be completed is proposed as a failure.
PrepareTransactionCommit(n) ==
  /\ commit[n].pc = "planning"
  /\ commit' = [commit EXCEPT ![n].preview = Preview(view[n].inputs, live),
                  ![n].pc = IF live \in Plannable THEN "starting" ELSE "failing"]
  /\ UNCHANGED <<environment, control, view, exec>>

\* The commit that was admitted is this one.
Joins(preview) == control.plan # Absent /\ control.plan = preview

Started(preview) ==
  [control EXCEPT !.state = "committing", !.latest = preview, !.reports = {preview},
                  !.plan = preview]

\* The preview that was computed becomes the latest, whatever the transaction's
\* state, and only its report is retained.
Refreshed(preview) ==
  [control EXCEPT !.latest = preview, !.reports = {preview}]

\* StartTransactionCommit, in the order its checks are made. The statements of a
\* finished transaction are gone, so no plan matches it. A second preparation draws
\* new ownership transition ids, so it may be refused where it would join.
ProposeStart(n) ==
  LET preview == commit[n].preview
      current == control.state # "finished" /\ ~Joins(preview)
                 /\ preview.inputs = control.inputs
  IN  /\ commit[n].pc = "starting"
      /\ leader = n
      /\ \/ /\ control.state = "finished"
            /\ Result(n, "error", control.state)
            /\ UNCHANGED control
         \/ /\ control.state # "finished"
            /\ Joins(preview)
            /\ To(n, "executing") \/ Result(n, "error", control.state)
            /\ UNCHANGED control
         \/ /\ control.state # "finished"
            /\ ~Joins(preview)
            /\ preview.inputs # control.inputs
            /\ Result(n, "error", control.state)
            /\ UNCHANGED control
         \/ /\ current
            /\ preview # control.expected
            /\ control' = Refreshed(preview)
            /\ Result(n, "PreviewStale", control.state)
         \/ /\ current
            /\ preview = control.expected
            /\ control' = Started(preview)
            /\ To(n, "executing")
      /\ UNCHANGED <<environment, view, exec>>

\* FailTransactionCommitAdmission, fenced by the latest preview that was read.
ProposeFailedAdmission(n) ==
  LET preview == commit[n].preview
  IN  /\ commit[n].pc = "failing"
      /\ leader = n
      /\ \/ /\ preview.inputs # control.inputs
            /\ Result(n, "error", control.state)
            /\ UNCHANGED control
         \/ /\ preview.inputs = control.inputs
            /\ preview # commit[n].latest
            /\ control' = Refreshed(preview)
            /\ Result(n, "error", control.state)
         \/ /\ preview.inputs = control.inputs
            /\ preview = commit[n].latest
            /\ control.state = "open"
            /\ control' = [control EXCEPT !.state = "finished", !.outcome = "failed",
                                          !.latest = preview, !.reports = {preview}]
            /\ Result(n, "failed", "finished")
         \/ /\ preview.inputs = control.inputs
            /\ preview = commit[n].latest
            /\ control.state # "open"
            /\ Result(n, IF control.outcome = "failed" THEN "failed" ELSE "error",
                       control.state)
            /\ UNCHANGED control
      /\ UNCHANGED <<environment, view, exec>>

\* execute_replicated_commit returns the recorded outcome.
CommitExecuted(n) ==
  /\ commit[n].pc = "executing"
  /\ view[n].state = "finished"
  /\ Result(n, view[n].outcome, "finished")
  /\ UNCHANGED <<environment, control, view, exec>>

\* finish_persistent_command records the result, or finds the one recorded first.
FinishPersistentCommand(n) ==
  /\ commit[n].pc = "answering"
  /\ leader = n
  /\ control' = [control EXCEPT !.answer = IF @ = Absent THEN commit[n].result ELSE @]
  /\ commit' = [commit EXCEPT ![n] = Idle]
  /\ UNCHANGED <<environment, view, exec>>

\* A proposal refused for lost leadership leaves the command applying.
LoseCommand(n) ==
  /\ commit[n].pc \in {"starting", "failing", "executing", "answering"}
  /\ leader # n
  /\ commit' = [commit EXCEPT ![n] = Idle]
  /\ UNCHANGED <<environment, control, view, exec>>

-----------------------------------------------------------------------------
(* The executor of a COMMITTING transaction.                               *)

Executes(n, pc) == exec' = [exec EXCEPT ![n] = [pc |-> pc, done |-> view[n].done]]
Releases(n) == exec' = [exec EXCEPT ![n] = Off]

\* schedule_transaction_recovery, or the COMMIT itself, takes the execution lock.
TakeExecution(n) ==
  /\ exec[n].pc = "off"
  /\ leader = n
  /\ view[n].state = "committing"
  /\ Executes(n, "running")
  /\ UNCHANGED <<environment, control, view, commit>>

\* One iteration of run_replicated_commit up to its proposal. A step is only
\* advanced with the report of the preview the plan was admitted with.
RunReplicatedCommit(n) ==
  /\ exec[n].pc = "running"
  /\ \/ /\ leader = n /\ view[n].state = "committing"
        /\ view[n].applying # Absent
        /\ Executes(n, "completing")
     \/ /\ leader = n /\ view[n].state = "committing"
        /\ view[n].applying = Absent
        /\ view[n].plan \in view[n].reports
        /\ Executes(n, "advancing")
     \/ /\ leader = n /\ view[n].state = "committing"
        /\ view[n].applying = Absent
        /\ view[n].plan \notin view[n].reports
        /\ Releases(n)
     \/ /\ leader # n \/ view[n].state = "finished"
        /\ Releases(n)
  /\ UNCHANGED <<environment, control, view, commit>>

\* Plausible fault: the position of the step is not compared.
ExpectsAnyStep(n) == control.state = "committing" /\ control.applying = Absent

\* The next step is the one this executor read, and nothing applies it yet.
Expects(n) ==
  control.state = "committing" /\ control.applying = Absent /\ control.done = exec[n].done

Continues(n) ==
  /\ exec' = [exec EXCEPT ![n].pc = "running"]
  /\ view' = [view EXCEPT ![n] = control']

\* AdvanceTransactionCommit of a step with its effect. When the planning inputs are
\* not the ones the step was planned from, the conflict is recorded next.
ProposeAdvance(n) ==
  /\ exec[n].pc = "advancing"
  /\ leader = n
  /\ \/ /\ Expects(n)
        /\ control.inputs = control.plan.inputs + control.done
        /\ control' = [control EXCEPT !.applying = "success", !.inputs = @ + 1,
                                      !.effects = Append(@, exec[n].done)]
        /\ Continues(n)
     \/ /\ Expects(n)
        /\ control.inputs # control.plan.inputs + control.done
        /\ exec' = [exec EXCEPT ![n].pc = "failing"]
        /\ UNCHANGED <<control, view>>
     \/ /\ ~Expects(n)
        /\ Releases(n)
        /\ UNCHANGED <<control, view>>
  /\ UNCHANGED <<environment, commit>>

\* The step fails while it is carried out.
StepFails(n) ==
  /\ exec[n].pc = "advancing"
  /\ exec' = [exec EXCEPT ![n].pc = "failing"]
  /\ UNCHANGED <<environment, control, view, commit>>

\* AdvanceTransactionCommit of a step that failed, without an effect.
RecordFailedStep(n) ==
  /\ exec[n].pc = "failing"
  /\ leader = n
  /\ \/ /\ Expects(n)
        /\ control' = [control EXCEPT !.applying = "failure"]
        /\ Continues(n)
     \/ /\ ~Expects(n)
        /\ Releases(n)
        /\ UNCHANGED <<control, view>>
  /\ UNCHANGED <<environment, commit>>

\* The step in progress is the one this executor waited for.
Awaits(n) ==
  /\ control.state = "committing"
  /\ control.applying # Absent
  /\ control.done = exec[n].done

\* CompleteTransactionApplication after waiting for the effect to be usable.
ProposeCompletion(n, usable) ==
  LET success == control.applying = "success" /\ usable
      done    == control.done + 1
  IN  /\ exec[n].pc = "completing"
      /\ leader = n
      /\ \/ /\ Awaits(n)
            /\ success /\ done < Steps
            /\ control' = [control EXCEPT !.applying = Absent, !.done = done]
            /\ Continues(n)
         \/ /\ Awaits(n)
            /\ ~success \/ done = Steps
            /\ control' = [control EXCEPT !.applying = Absent,
                  !.done = IF success THEN done ELSE @, !.state = "finished",
                  !.outcome = IF success THEN "committed" ELSE "failed"]
            /\ Continues(n)
         \/ /\ ~Awaits(n)
            /\ Releases(n)
            /\ UNCHANGED <<control, view>>
      /\ UNCHANGED <<environment, commit>>

LoseExecution(n) ==
  /\ exec[n].pc \in {"advancing", "failing", "completing"}
  /\ leader # n
  /\ Releases(n)
  /\ UNCHANGED <<environment, control, view, commit>>

-----------------------------------------------------------------------------

Coordinates(n) ==
  \/ ReadTransaction(n) \/ PrepareTransactionCommit(n)
  \/ ProposeStart(n) \/ ProposeFailedAdmission(n)
  \/ CommitExecuted(n) \/ FinishPersistentCommand(n) \/ LoseCommand(n)

Recovers(n) ==
  \/ TakeExecution(n) \/ RunReplicatedCommit(n)
  \/ ProposeAdvance(n) \/ StepFails(n) \/ RecordFailedStep(n)
  \/ \E usable \in BOOLEAN : ProposeCompletion(n, usable)
  \/ LoseExecution(n)

CoordinatorNext ==
  \/ \E n \in Node : Elect(n) \/ CatchUp(n) \/ Restart(n) \/ Coordinates(n) \/ Recovers(n)
  \/ \E l \in LiveIdentities : LiveChanges(l)
  \/ InputsChange
  \/ ReconcileExpired

CoordinatorSpec == CoordinatorInit /\ [][CoordinatorNext]_coordinatorVars

-----------------------------------------------------------------------------
(* Properties.                                                             *)

CoordinatorTypeOK ==
  /\ control.state \in {"open", "committing", "finished"}
  /\ control.done \in 0..Steps
  /\ control.applying \in {Absent, "success", "failure"}
  /\ control.applying # Absent => control.state = "committing"
  /\ control.state = "finished" <=>
       control.outcome \in {"committed", "failed", "expired"}
  /\ \A n \in Node :
       /\ commit[n].pc \in {"idle", "planning", "starting", "failing", "executing",
                            "answering"}
       /\ exec[n].pc \in {"off", "running", "advancing", "failing", "completing"}

\* Every answer the command records that names an outcome names the outcome of the
\* transaction, and a committed one applied every step: neither a stale coordinator
\* nor a second executor records another.
AnswersAgree ==
  LET a == control.answer
  IN  a # Absent /\ a.disposition \in {"committed", "failed", "expired"} =>
        /\ control.state = "finished"
        /\ a.disposition = control.outcome
        /\ a.disposition = "committed" => control.done = Steps

\* The effects of the steps are applied in their order and once each: executors of two
\* leaders, one of which went on from a progress it read before it lost leadership,
\* never repeat or skip one.
StepsApplyOnce ==
  /\ control.effects = [i \in 1..Len(control.effects) |-> i - 1]
  /\ control.done <= Len(control.effects)
  /\ Len(control.effects) <= control.done + 1

\* A COMMIT has its effects once and one answer.  The steps are applied in their order
\* and once each: executors of two leaders, one of which went on from a progress it read
\* before it lost leadership, never repeat or skip one
\* (ReplicatedTransaction::begin_application).  And every answer the command records that
\* names an outcome names the outcome of the transaction, and a committed one applied
\* every step: neither a stale coordinator nor a second executor records another
\* (run_replicated_commit, finish_command_execution).
CommitsOnce == CoordinatorTypeOK /\ StepsApplyOnce /\ AnswersAgree
=============================================================================
