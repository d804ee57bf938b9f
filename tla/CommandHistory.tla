--------------------------- MODULE CommandHistory ---------------------------
(***************************************************************************)
(* The replicated history of persistent session commands: the records      *)
(* `CommandExecutionRecords` keeps in the consensus state machine, and the *)
(* log entries that admit, finish and reclaim them.                        *)
(*                                                                         *)
(* A leader stamps every proposal with its own clock, proposals wait in    *)
(* the log while leadership moves, and clocks of different leaders differ. *)
(* A log entry therefore carries any reading of `Timestamp` when it is     *)
(* applied. Nothing below assumes that readings grow from one entry to     *)
(* the next.                                                               *)
(*                                                                         *)
(* `admissions` and `answered` are history variables: how often each       *)
(* reference was admitted (each admission runs the command's effects), and *)
(* the results clients were given.                                         *)
(***************************************************************************)
EXTENDS Integers, FiniteSets

CONSTANTS
  Reference,      \* execution references (UUIDv7 retry identities)
  Request,        \* semantic identities: owner, domain, position, digest, target
  Result,         \* durable terminal results
  IssuedAt,       \* the creation time each reference carries
  Timestamp,      \* readings of leader clocks
  RetryValidity,  \* COMMAND_RETRY_VALIDITY
  FutureSkew,     \* COMMAND_EXECUTION_REFERENCE_FUTURE_SKEW
  Capacities,     \* the capacities a policy may carry (an ALTER CLUSTER setting)
  NoFence         \* retry_fence: None

ASSUME HistoryAssumption ==
  /\ Timestamp \subseteq Int
  /\ IssuedAt \in [Reference -> Int]
  /\ RetryValidity \in Nat
  /\ FutureSkew \in Nat
  /\ Capacities \subseteq Nat
  /\ NoFence \notin Int

VARIABLES
  entries,     \* entries: what each reference is retained as
  applying,    \* index of applying references
  finished,    \* index of finished executions by finish time
  expired,     \* index of tombstones by issue time
  retryFence,  \* the durable retry fence
  admissions,  \* history: admissions of each reference
  answered     \* history: terminal results handed to clients

records == <<entries, applying, finished, expired, retryFence>>
vars == <<entries, applying, finished, expired, retryFence, admissions, answered>>

-----------------------------------------------------------------------------
(* Retained executions and the keys of the two time indexes.               *)

Absent == [state |-> "absent"]
ApplyingExecution(request) == [state |-> "applying", request |-> request]
FinishedExecution(request, at, result) ==
  [state |-> "finished", request |-> request, finishedAt |-> at, result |-> result]
ExpiredExecution == [state |-> "expired"]

Execution ==
  {Absent, ExpiredExecution}
    \cup [state : {"applying"}, request : Request]
    \cup [state : {"finished"}, request : Request, finishedAt : Timestamp,
          result : Result]

FinishedKey(at, r) == [finishedAt |-> at, reference |-> r]
ExpiredKey(r) == [issuedAt |-> IssuedAt[r], reference |-> r]

\* References an entry is retained for, tombstones included.
Retained == {r \in Reference : entries[r] # Absent}

IsBoundTo(r, request) ==
  /\ entries[r].state \in {"applying", "finished"}
  /\ entries[r].request = request

Init ==
  /\ entries = [r \in Reference |-> Absent]
  /\ applying = {}
  /\ finished = {}
  /\ expired = {}
  /\ retryFence = NoFence
  /\ admissions = [r \in Reference |-> 0]
  /\ answered = {}

-----------------------------------------------------------------------------
(* The retry fence.                                                        *)

PolicyRetryFence(now) == now - RetryValidity
PolicyLatestReference(now) == now + FutureSkew

\* Plausible fault: the fence follows the clock of the proposing leader.
FenceOfThisLeader(fence) == fence

\* The durable fence never moves back.
EffectiveRetryFence(fence) ==
  IF retryFence # NoFence /\ retryFence > fence THEN retryFence ELSE fence

ValidateReference(r, fence, latest) ==
  /\ IssuedAt[r] > fence
  /\ IssuedAt[r] <= latest

\* Plausible fault: the capacity admits one record too many.
HasRoomOffByOne(capacity) == Cardinality(Retained) <= capacity

HasRoom(capacity) == Cardinality(Retained) < capacity

ValidateAdmission(r, now, capacity) ==
  /\ ValidateReference(r, EffectiveRetryFence(PolicyRetryFence(now)),
                       PolicyLatestReference(now))
  /\ HasRoom(capacity)

-----------------------------------------------------------------------------
(* Log entries.                                                            *)

InsertAdmitted(r, request, now) ==
  /\ retryFence' = EffectiveRetryFence(PolicyRetryFence(now))
  /\ applying' = applying \cup {r}
  /\ entries' = [entries EXCEPT ![r] = ApplyingExecution(request)]
  /\ UNCHANGED <<finished, expired>>

\* AdmitCommandExecution for a reference that is not retained. A retained one is
\* refused, in conflict or joined, and none of these changes the records.
AdmitCommandExecution(r, request, now, capacity) ==
  /\ entries[r] = Absent
  /\ ValidateAdmission(r, now, capacity)
  /\ InsertAdmitted(r, request, now)
  /\ admissions' = [admissions EXCEPT ![r] = @ + 1]
  /\ UNCHANGED answered

MayFinish(r, request) ==
  /\ IsBoundTo(r, request)
  /\ entries[r].state = "applying"

\* FinishCommandExecution of an applying execution. A repeated finish with the
\* recorded result changes nothing and one with another result is in conflict.
FinishCommandExecution(r, request, at, result) ==
  /\ MayFinish(r, request)
  /\ applying' = applying \ {r}
  /\ finished' = finished \cup {FinishedKey(at, r)}
  /\ entries' = [entries EXCEPT ![r] = FinishedExecution(request, at, result)]
  /\ UNCHANGED <<expired, retryFence, admissions, answered>>

DueExpired(fence) == {key \in expired : key.issuedAt <= fence}
DueFinished(before) == {key \in finished : key.finishedAt <= before}

\* Plausible fault: a finished execution leaves without a tombstone.
TombstoneNothing(due, fence) == {}

\* The finished executions whose identity a client may still retry.
Tombstoned(due, fence) ==
  {r \in {key.reference : key \in due} : IssuedAt[r] > fence}

\* Plausible fault: due executions stay in the index they were taken from.
ReclaimedFinishedKept(due) == finished

ReclaimedFinished(due) == finished \ due

\* ReclaimCommandExecutions. The reconciliation of a leader proposes one time
\* for both bounds: its clock less the retry validity.
ReclaimCommandExecutions(now) ==
  LET before      == PolicyRetryFence(now)
      fence       == EffectiveRetryFence(before)
      dueExpired  == DueExpired(fence)
      dueFinished == DueFinished(before)
      tombstones  == Tombstoned(dueFinished, fence)
      removed     == {key.reference : key \in dueExpired \cup dueFinished} \ tombstones
  IN  /\ retryFence' = fence
      /\ finished' = ReclaimedFinished(dueFinished)
      /\ expired' = (expired \ dueExpired) \cup {ExpiredKey(r) : r \in tombstones}
      /\ entries' = [r \in Reference |->
                       IF r \in removed THEN Absent
                       ELSE IF r \in tombstones THEN ExpiredExecution
                       ELSE entries[r]]
      /\ UNCHANGED <<applying, admissions, answered>>

-----------------------------------------------------------------------------
(* Recovery from storage and answers to clients.                           *)

AppliedApplying == {r \in Reference : entries[r].state = "applying"}
AppliedFinished ==
  {FinishedKey(entries[r].finishedAt, r) :
     r \in {q \in Reference : entries[q].state = "finished"}}
AppliedExpired ==
  {ExpiredKey(r) : r \in {q \in Reference : entries[q].state = "expired"}}

\* A node that restarts loads the entries and the fence and derives the indexes.
Recover ==
  /\ applying' = AppliedApplying
  /\ finished' = AppliedFinished
  /\ expired' = AppliedExpired
  /\ UNCHANGED <<entries, retryFence, admissions, answered>>

\* Plausible fault: a retry is answered without comparing the request.
AnswersAnyRequest(r, request) == entries[r].state = "finished"

AnswersRequest(r, request) ==
  /\ IsBoundTo(r, request)
  /\ entries[r].state = "finished"

\* A request whose reference has finished is answered from the recorded result.
AnswerFromHistory(r, request) ==
  /\ AnswersRequest(r, request)
  /\ answered' = answered \cup
       {[reference |-> r, request |-> request, result |-> entries[r].result]}
  /\ UNCHANGED <<records, admissions>>

Next ==
  \/ \E r \in Reference, request \in Request, now \in Timestamp, c \in Capacities :
       AdmitCommandExecution(r, request, now, c)
  \/ \E r \in Reference, request \in Request, at \in Timestamp, result \in Result :
       FinishCommandExecution(r, request, at, result)
  \/ \E now \in Timestamp : ReclaimCommandExecutions(now)
  \/ Recover
  \/ \E r \in Reference, request \in Request : AnswerFromHistory(r, request)

Spec == Init /\ [][Next]_vars

-----------------------------------------------------------------------------
(* Properties.                                                             *)

\* Every variable holds values of the type the records declare, and a fence was
\* the reading of some leader's clock less the retry validity.
TypeOK ==
  /\ entries \in [Reference -> Execution]
  /\ applying \subseteq Reference
  /\ finished \subseteq [finishedAt : Timestamp, reference : Reference]
  /\ expired \subseteq [issuedAt : Int, reference : Reference]
  /\ retryFence \in {PolicyRetryFence(now) : now \in Timestamp} \cup {NoFence}
  /\ admissions \in [Reference -> Nat]
  /\ answered \subseteq [reference : Reference, request : Request, result : Result]

\* One reference runs its effects at most once, even after its outcome was
\* reclaimed and when a later leader's clock trails the one that reclaimed it.
AdmittedAtMostOnce == \A r \in Reference : admissions[r] <= 1

\* The three indexes name exactly the entries in their state, so recovery, which
\* derives them from the entries, changes nothing, and the reconciliation that
\* walks them misses nothing.
IndexesAgree ==
  /\ applying = AppliedApplying
  /\ finished = AppliedFinished
  /\ expired = AppliedExpired

\* Every client that learns the outcome of a reference learns the same one, and
\* only a client that sent the request the reference was bound to learns it.
AnswersAgree ==
  \A a, b \in answered :
    a.reference = b.reference => a.request = b.request /\ a.result = b.result

\* The retained history stays within the largest capacity any policy carried.
WithinCapacity ==
  Retained = {} \/ \E c \in Capacities : Cardinality(Retained) <= c

-----------------------------------------------------------------------------
(* The history implements the ledger: a tombstone, and a reference the fence *)
(* has passed, are gone; an unknown reference the fence has not passed is    *)
(* unseen.                                                                   *)

Passed(r) == retryFence # NoFence /\ IssuedAt[r] <= retryFence

LedgerOf(r) ==
  CASE entries[r].state = "applying" ->
         [stage |-> "applying", request |-> entries[r].request]
    [] entries[r].state = "finished" ->
         [stage |-> "done", request |-> entries[r].request,
          result |-> entries[r].result]
    [] entries[r].state = "expired" -> [stage |-> "gone"]
    [] OTHER -> [stage |-> IF Passed(r) THEN "gone" ELSE "unseen"]

Ledger == INSTANCE CommandLedger WITH ledger <- [r \in Reference |-> LedgerOf(r)]

\* Under any clocks the history never applies a reference again, never loses an
\* applying one and never changes a result: it implements the ledger.
ImplementsLedger == Ledger!Spec
=============================================================================
