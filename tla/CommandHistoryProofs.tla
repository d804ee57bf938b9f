------------------------ MODULE CommandHistoryProofs ------------------------
(* For any references, clocks, capacities and results: the types of the      *)
(* command history, the agreement of its indexes, admission at most once,    *)
(* answers that agree, and the implementation of the command ledger.         *)
EXTENDS CommandHistory, FiniteSetTheorems, TLAPS

\* A reference that was admitted and is no longer retained was passed by the fence.
Remembered ==
  \A r \in Reference : entries[r] = Absent => admissions[r] = 0 \/ Passed(r)

\* An answered reference still shows the answer, or shows no request at all.
AnsweredKept ==
  \A a \in answered :
    /\ admissions[a.reference] # 0
    /\ entries[a.reference].state # "applying"
    /\ entries[a.reference].state = "finished" =>
         /\ entries[a.reference].request = a.request
         /\ entries[a.reference].result = a.result

\* A reference that was never admitted is not retained.
OnlyAdmitted == \A r \in Reference : admissions[r] = 0 => entries[r] = Absent

\* The inductive invariant of the command history.
HistoryInv ==
  /\ TypeOK
  /\ IndexesAgree
  /\ AdmittedAtMostOnce
  /\ Remembered
  /\ OnlyAdmitted
  /\ AnsweredKept
  /\ AnswersAgree

\* The bounds a policy derives from a clock reading are integers, and the fence in
\* force is an integer no earlier than the durable one and the proposed one.
LEMMA FenceAdvances ==
  ASSUME TypeOK, NEW now \in Timestamp
  PROVE  LET f == EffectiveRetryFence(PolicyRetryFence(now))
         IN  /\ f \in {PolicyRetryFence(t) : t \in Timestamp}
             /\ f \in Int
             /\ f # NoFence
             /\ PolicyRetryFence(now) <= f
             /\ retryFence # NoFence => retryFence \in Int /\ retryFence <= f
<1>1. \A t \in Timestamp : PolicyRetryFence(t) \in Int
  BY HistoryAssumption DEF PolicyRetryFence
<1>2. retryFence # NoFence => retryFence \in {PolicyRetryFence(t) : t \in Timestamp}
  BY DEF TypeOK
<1>3. retryFence # NoFence => retryFence \in Int
  BY <1>1, <1>2
<1> QED
  BY <1>1, <1>2, <1>3, HistoryAssumption DEF EffectiveRetryFence

\* The values an entry may take, told apart by its state.
LEMMA ExecutionCases ==
  ASSUME NEW e \in Execution
  PROVE  /\ e.state \in {"absent", "applying", "finished", "expired"}
         /\ e.state = "absent" <=> e = Absent
         /\ e.state = "expired" <=> e = ExpiredExecution
         /\ e.state \in {"applying", "finished"} => e.request \in Request
         /\ e.state = "finished" => e.finishedAt \in Timestamp /\ e.result \in Result
BY DEF Execution, Absent, ExpiredExecution

\* What the constructors of an execution build.
LEMMA ExecutionBuilt ==
  /\ Absent \in Execution /\ Absent.state = "absent"
  /\ ExpiredExecution \in Execution /\ ExpiredExecution.state = "expired"
  /\ \A q \in Request :
       /\ ApplyingExecution(q) \in Execution
       /\ ApplyingExecution(q).state = "applying"
       /\ ApplyingExecution(q).request = q
  /\ \A q \in Request, at \in Timestamp, result \in Result :
       /\ FinishedExecution(q, at, result) \in Execution
       /\ FinishedExecution(q, at, result).state = "finished"
       /\ FinishedExecution(q, at, result).request = q
       /\ FinishedExecution(q, at, result).finishedAt = at
       /\ FinishedExecution(q, at, result).result = result
BY DEF Execution, Absent, ExpiredExecution, ApplyingExecution, FinishedExecution

\* The history starts in its inductive invariant.
LEMMA HistoryInit == Init => HistoryInv
<1> SUFFICES ASSUME Init PROVE HistoryInv
  OBVIOUS
<1>1. \A r \in Reference : entries[r] = Absent /\ entries[r].state = "absent"
  BY ExecutionBuilt DEF Init
<1>2. TypeOK
  BY ExecutionBuilt DEF Init, TypeOK
<1>3. IndexesAgree
  BY <1>1 DEF Init, IndexesAgree, AppliedApplying, AppliedFinished, AppliedExpired
<1> QED
  BY <1>2, <1>3 DEF Init, HistoryInv, AdmittedAtMostOnce, Remembered, OnlyAdmitted,
     AnsweredKept, AnswersAgree

\* The references named by the keys of the two time indexes.
LEMMA IndexedReferences ==
  ASSUME TypeOK, IndexesAgree
  PROVE  /\ \A key \in finished :
              /\ key.reference \in Reference
              /\ entries[key.reference].state = "finished"
              /\ key = FinishedKey(entries[key.reference].finishedAt, key.reference)
         /\ \A key \in expired :
              /\ key.reference \in Reference
              /\ entries[key.reference].state = "expired"
              /\ key = ExpiredKey(key.reference)
BY DEF TypeOK, IndexesAgree, AppliedFinished, AppliedExpired, FinishedKey, ExpiredKey

\* Admitting a reference preserves the invariant: it was never admitted before,
\* for it is not retained and the fence has not passed it.
LEMMA AdmitPreserves ==
  ASSUME HistoryInv, NEW r \in Reference, NEW request \in Request,
         NEW now \in Timestamp, NEW c \in Capacities,
         AdmitCommandExecution(r, request, now, c)
  PROVE  HistoryInv'
<1> DEFINE f == EffectiveRetryFence(PolicyRetryFence(now))
<1>1. TypeOK /\ IndexesAgree /\ AdmittedAtMostOnce /\ Remembered /\ OnlyAdmitted
  BY DEF HistoryInv
<1>2. /\ f \in {PolicyRetryFence(t) : t \in Timestamp}
      /\ f \in Int
      /\ f # NoFence
      /\ retryFence # NoFence => retryFence \in Int /\ retryFence <= f
  BY <1>1, FenceAdvances
<1>3. /\ entries[r] = Absent
      /\ entries' = [entries EXCEPT ![r] = ApplyingExecution(request)]
      /\ applying' = applying \cup {r}
      /\ finished' = finished /\ expired' = expired
      /\ retryFence' = f
      /\ admissions' = [admissions EXCEPT ![r] = @ + 1]
      /\ answered' = answered
      /\ IssuedAt[r] > f
  BY DEF AdmitCommandExecution, ValidateAdmission, ValidateReference, InsertAdmitted
<1>4. /\ \A x \in Reference \ {r} : entries'[x] = entries[x] /\ admissions'[x] = admissions[x]
      /\ entries'[r] = ApplyingExecution(request)
      /\ entries'[r].state = "applying"
      /\ admissions'[r] = admissions[r] + 1
      /\ entries[r].state = "absent"
  BY <1>1, <1>3, ExecutionBuilt DEF TypeOK
<1>5. TypeOK'
  BY <1>1, <1>2, <1>3, ExecutionBuilt DEF TypeOK
<1>6. IndexesAgree'
  <2>1. applying' = AppliedApplying'
    BY <1>1, <1>3, <1>4 DEF IndexesAgree, AppliedApplying
  <2>2. finished' = AppliedFinished'
    BY <1>1, <1>3, <1>4 DEF IndexesAgree, AppliedFinished
  <2>3. expired' = AppliedExpired'
    BY <1>1, <1>3, <1>4 DEF IndexesAgree, AppliedExpired
  <2> QED
    BY <2>1, <2>2, <2>3 DEF IndexesAgree
<1>7. admissions[r] = 0
  <2>1. ~Passed(r)
    BY <1>2, <1>3, HistoryAssumption DEF Passed
  <2> QED
    BY <1>1, <1>3, <2>1 DEF Remembered
<1>8. AdmittedAtMostOnce'
  BY <1>1, <1>4, <1>7 DEF AdmittedAtMostOnce
<1>9. Remembered'
  <2> SUFFICES ASSUME NEW x \in Reference, entries'[x] = Absent
               PROVE  admissions'[x] = 0 \/ Passed(x)'
    BY DEF Remembered
  <2>1. x # r
    BY <1>4, ExecutionBuilt
  <2>2. admissions[x] = 0 \/ Passed(x)
    BY <1>1, <1>4, <2>1 DEF Remembered
  <2> QED
    BY <1>2, <1>3, <1>4, <2>1, <2>2, HistoryAssumption DEF Passed
<1>10. AnsweredKept'
  <2> SUFFICES ASSUME NEW a \in answered
               PROVE  /\ admissions'[a.reference] # 0
                      /\ entries'[a.reference].state # "applying"
                      /\ entries'[a.reference].state = "finished" =>
                           /\ entries'[a.reference].request = a.request
                           /\ entries'[a.reference].result = a.result
    BY <1>3 DEF AnsweredKept
  <2>1. a.reference \in Reference /\ a.reference # r
    BY <1>1, <1>7 DEF HistoryInv, AnsweredKept, TypeOK
  <2> QED
    BY <1>4, <2>1 DEF HistoryInv, AnsweredKept
<1>11. AnswersAgree'
  BY <1>3 DEF HistoryInv, AnswersAgree
<1>12. OnlyAdmitted'
  BY <1>1, <1>4, <1>7 DEF OnlyAdmitted
<1> QED
  BY <1>5, <1>6, <1>8, <1>9, <1>10, <1>11, <1>12 DEF HistoryInv

\* Finishing an applying execution preserves the invariant.
LEMMA FinishPreserves ==
  ASSUME HistoryInv, NEW r \in Reference, NEW request \in Request,
         NEW at \in Timestamp, NEW result \in Result,
         FinishCommandExecution(r, request, at, result)
  PROVE  HistoryInv'
<1> DEFINE e == FinishedExecution(request, at, result)
<1>1. TypeOK /\ IndexesAgree /\ AdmittedAtMostOnce /\ Remembered /\ OnlyAdmitted
  BY DEF HistoryInv
<1>2. /\ entries[r].state = "applying"
      /\ entries' = [entries EXCEPT ![r] = e]
      /\ applying' = applying \ {r}
      /\ finished' = finished \cup {FinishedKey(at, r)}
      /\ UNCHANGED <<expired, retryFence, admissions, answered>>
  BY DEF FinishCommandExecution, MayFinish
<1>3. /\ e \in Execution
      /\ e.state = "finished" /\ e.finishedAt = at
      /\ e # Absent
  BY ExecutionBuilt
<1>4. /\ \A x \in Reference \ {r} : entries'[x] = entries[x]
      /\ entries'[r] = e
      /\ entries'[r].state = "finished" /\ entries'[r].finishedAt = at
  BY <1>1, <1>2, <1>3 DEF TypeOK
<1>5. TypeOK'
  BY <1>1, <1>2, <1>3 DEF TypeOK, FinishedKey
<1>6. IndexesAgree'
  <2>1. applying' = AppliedApplying'
    BY <1>1, <1>2, <1>4 DEF IndexesAgree, AppliedApplying
  <2>2. finished' = AppliedFinished'
    BY <1>1, <1>2, <1>4 DEF IndexesAgree, AppliedFinished
  <2>3. expired' = AppliedExpired'
    BY <1>1, <1>2, <1>4 DEF IndexesAgree, AppliedExpired
  <2> QED
    BY <2>1, <2>2, <2>3 DEF IndexesAgree
<1>7. AdmittedAtMostOnce'
  BY <1>1, <1>2 DEF AdmittedAtMostOnce
<1>8. Remembered'
  BY <1>1, <1>2, <1>3, <1>4 DEF Remembered, Passed
<1>9. AnsweredKept'
  <2> SUFFICES ASSUME NEW a \in answered
               PROVE  /\ admissions[a.reference] # 0
                      /\ entries'[a.reference].state # "applying"
                      /\ entries'[a.reference].state = "finished" =>
                           /\ entries'[a.reference].request = a.request
                           /\ entries'[a.reference].result = a.result
    BY <1>2 DEF AnsweredKept
  <2>1. a.reference \in Reference /\ a.reference # r
    BY <1>1, <1>2 DEF HistoryInv, AnsweredKept, TypeOK
  <2> QED
    BY <1>4, <2>1 DEF HistoryInv, AnsweredKept
<1>10. AnswersAgree'
  BY <1>2 DEF HistoryInv, AnswersAgree
<1>11. OnlyAdmitted'
  BY <1>1, <1>2, <1>4, ExecutionBuilt DEF OnlyAdmitted
<1> QED
  BY <1>5, <1>6, <1>7, <1>8, <1>9, <1>10, <1>11 DEF HistoryInv

\* Reclaiming preserves the invariant: what it removes the fence has passed.
LEMMA ReclaimPreserves ==
  ASSUME HistoryInv, NEW now \in Timestamp, ReclaimCommandExecutions(now)
  PROVE  HistoryInv'
<1> DEFINE before      == PolicyRetryFence(now)
           f           == EffectiveRetryFence(before)
           dueExpired  == DueExpired(f)
           dueFinished == DueFinished(before)
           tombstones  == Tombstoned(dueFinished, f)
           removed     == {key.reference : key \in dueExpired \cup dueFinished} \ tombstones
<1>1. TypeOK /\ IndexesAgree /\ AdmittedAtMostOnce /\ Remembered /\ OnlyAdmitted
  BY DEF HistoryInv
<1>2. /\ f \in {PolicyRetryFence(t) : t \in Timestamp}
      /\ f \in Int
      /\ f # NoFence
      /\ retryFence # NoFence => retryFence \in Int /\ retryFence <= f
  BY <1>1, FenceAdvances
<1>3. /\ retryFence' = f
      /\ finished' = finished \ dueFinished
      /\ expired' = (expired \ dueExpired) \cup {ExpiredKey(r) : r \in tombstones}
      /\ entries' = [r \in Reference |->
                       IF r \in removed THEN Absent
                       ELSE IF r \in tombstones THEN ExpiredExecution
                       ELSE entries[r]]
      /\ UNCHANGED <<applying, admissions, answered>>
  BY DEF ReclaimCommandExecutions, ReclaimedFinished
<1>4. /\ dueExpired = {key \in expired : key.issuedAt <= f}
      /\ dueFinished = {key \in finished : key.finishedAt <= before}
      /\ tombstones = {r \in {key.reference : key \in dueFinished} : IssuedAt[r] > f}
  BY DEF DueExpired, DueFinished, Tombstoned
<1>5. \A r \in tombstones : r \in Reference /\ entries[r].state = "finished" /\ ~(IssuedAt[r] <= f)
  <2> TAKE r \in tombstones
  <2>1. PICK key \in finished : r = key.reference
    BY <1>4
  <2>2. IssuedAt[r] > f
    BY <1>4
  <2> QED
    BY <2>1, <2>2, <1>1, <1>2, IndexedReferences, HistoryAssumption
<1>6. \A r \in removed : /\ r \in Reference
                        /\ entries[r].state \in {"finished", "expired"}
                        /\ IssuedAt[r] <= f
  <2> TAKE r \in removed
  <2>1. CASE \E key \in dueExpired : r = key.reference
    BY <2>1, <1>1, <1>4, IndexedReferences DEF ExpiredKey
  <2>2. CASE \E key \in dueFinished : r = key.reference
    <3>1. r \in Reference /\ entries[r].state = "finished"
      BY <2>2, <1>1, <1>4, IndexedReferences
    <3>2. ~(IssuedAt[r] > f)
      BY <2>2, <1>4
    <3> QED
      BY <3>1, <3>2, <1>2, HistoryAssumption
  <2> QED
    BY <2>1, <2>2
<1>7. \A r \in Reference :
        /\ r \in removed => entries'[r] = Absent
        /\ r \in tombstones => entries'[r] = ExpiredExecution
        /\ r \notin removed \cup tombstones => entries'[r] = entries[r]
  BY <1>3
<1>8. TypeOK'
  <2>1. entries' \in [Reference -> Execution]
    BY <1>1, <1>3, ExecutionBuilt DEF TypeOK
  <2>2. expired' \subseteq [issuedAt : Int, reference : Reference]
    BY <1>1, <1>3, <1>5, HistoryAssumption DEF TypeOK, ExpiredKey
  <2> QED
    BY <1>1, <1>2, <1>3, <2>1, <2>2 DEF TypeOK
<1>9. IndexesAgree'
  <2>1. applying' = AppliedApplying'
    BY <1>1, <1>3, <1>5, <1>6, <1>7, ExecutionBuilt DEF IndexesAgree, AppliedApplying
  <2>2. finished' = AppliedFinished'
    <3>1. ASSUME NEW key \in finished'
          PROVE  key \in AppliedFinished'
      <4>1. /\ key \in finished /\ key \notin dueFinished
            /\ key.reference \in Reference
            /\ entries[key.reference].state = "finished"
            /\ key = FinishedKey(entries[key.reference].finishedAt, key.reference)
        BY <1>1, <1>3, <3>1, IndexedReferences
      <4>2. \A other \in dueFinished : other.reference # key.reference
        BY <4>1, <1>1, <1>4, IndexedReferences
      <4>3. \A other \in dueExpired : other.reference # key.reference
        BY <4>1, <1>1, <1>4, IndexedReferences
      <4>4. entries'[key.reference] = entries[key.reference]
        BY <4>1, <4>2, <4>3, <1>4, <1>7
      <4> QED
        BY <4>1, <4>4 DEF AppliedFinished
    <3>2. ASSUME NEW key \in AppliedFinished'
          PROVE  key \in finished'
      <4>1. PICK r \in Reference : /\ entries'[r].state = "finished"
                                   /\ key = FinishedKey(entries'[r].finishedAt, r)
        BY <3>2 DEF AppliedFinished
      <4>2. r \notin removed /\ r \notin tombstones /\ entries'[r] = entries[r]
        BY <4>1, <1>7, ExecutionBuilt
      <4>3. key \in finished
        BY <4>1, <4>2, <1>1 DEF IndexesAgree, AppliedFinished
      <4>4. key.reference = r
        BY <4>1 DEF FinishedKey
      <4> QED
        BY <4>2, <4>3, <4>4, <1>3
    <3> QED
      BY <3>1, <3>2
  <2>3. expired' = AppliedExpired'
    <3>1. ASSUME NEW key \in expired'
          PROVE  key \in AppliedExpired'
      <4>1. CASE key \in expired \ dueExpired
        <5>1. /\ key.reference \in Reference
              /\ entries[key.reference].state = "expired"
              /\ key = ExpiredKey(key.reference)
          BY <1>1, <4>1, IndexedReferences
        <5>2. \A other \in dueExpired : other.reference # key.reference
          BY <4>1, <5>1, <1>1, <1>4, IndexedReferences
        <5>3. \A other \in dueFinished : other.reference # key.reference
          BY <5>1, <1>1, <1>4, IndexedReferences
        <5>4. entries'[key.reference] = entries[key.reference]
          BY <5>1, <5>2, <5>3, <1>4, <1>7
        <5> QED
          BY <5>1, <5>4 DEF AppliedExpired
      <4>2. CASE key \in {ExpiredKey(r) : r \in tombstones}
        <5>1. PICK r \in tombstones : key = ExpiredKey(r)
          BY <4>2
        <5>2. r \in Reference /\ entries'[r].state = "expired"
          BY <1>5, <1>7, ExecutionBuilt
        <5> QED
          BY <5>1, <5>2 DEF AppliedExpired
      <4> QED
        BY <3>1, <4>1, <4>2, <1>3
    <3>2. ASSUME NEW key \in AppliedExpired'
          PROVE  key \in expired'
      <4>1. PICK r \in Reference : entries'[r].state = "expired" /\ key = ExpiredKey(r)
        BY <3>2 DEF AppliedExpired
      <4>2. CASE r \in tombstones
        BY <4>1, <4>2, <1>3
      <4>3. CASE r \notin tombstones
        <5>1. r \notin removed /\ entries'[r] = entries[r]
          BY <4>1, <4>3, <1>7, ExecutionBuilt
        <5>2. key \in expired
          BY <4>1, <5>1, <1>1 DEF IndexesAgree, AppliedExpired
        <5>3. key.reference = r
          BY <4>1 DEF ExpiredKey
        <5>4. key \notin dueExpired
          BY <4>3, <5>1, <5>3
        <5> QED
          BY <5>2, <5>4, <1>3
      <4> QED
        BY <4>2, <4>3
    <3> QED
      BY <3>1, <3>2
  <2> QED
    BY <2>1, <2>2, <2>3 DEF IndexesAgree
<1>10. AdmittedAtMostOnce'
  BY <1>1, <1>3 DEF AdmittedAtMostOnce
<1>11. Remembered'
  <2> SUFFICES ASSUME NEW r \in Reference, entries'[r] = Absent
               PROVE  admissions[r] = 0 \/ (f # NoFence /\ IssuedAt[r] <= f)
    BY <1>3 DEF Remembered, Passed
  <2>1. CASE r \in removed
    BY <2>1, <1>2, <1>6
  <2>2. CASE r \notin removed
    <3>1. r \notin tombstones /\ entries[r] = Absent
      BY <2>2, <1>7, ExecutionBuilt
    <3>2. admissions[r] = 0 \/ Passed(r)
      BY <3>1, <1>1 DEF Remembered
    <3> QED
      BY <3>2, <1>2, HistoryAssumption DEF Passed
  <2> QED
    BY <2>1, <2>2
<1>12. AnsweredKept'
  <2> SUFFICES ASSUME NEW a \in answered
               PROVE  /\ admissions[a.reference] # 0
                      /\ entries'[a.reference].state # "applying"
                      /\ entries'[a.reference].state = "finished" =>
                           /\ entries'[a.reference].request = a.request
                           /\ entries'[a.reference].result = a.result
    BY <1>3 DEF AnsweredKept
  <2>1. a.reference \in Reference
    BY <1>1 DEF TypeOK
  <2>2. /\ admissions[a.reference] # 0
        /\ entries[a.reference].state # "applying"
        /\ entries[a.reference].state = "finished" =>
             /\ entries[a.reference].request = a.request
             /\ entries[a.reference].result = a.result
    BY DEF HistoryInv, AnsweredKept
  <2>3. \/ entries'[a.reference] = entries[a.reference]
        \/ entries'[a.reference] = Absent
        \/ entries'[a.reference] = ExpiredExecution
    BY <2>1, <1>7
  <2> QED
    BY <2>2, <2>3, ExecutionBuilt
<1>13. AnswersAgree'
  BY <1>3 DEF HistoryInv, AnswersAgree
<1>14. OnlyAdmitted'
  BY <1>1, <1>3, <1>5, <1>7, ExecutionBuilt DEF OnlyAdmitted
<1> QED
  BY <1>8, <1>9, <1>10, <1>11, <1>12, <1>13, <1>14 DEF HistoryInv

\* Answering a client preserves the invariant: the entry it reads is unchanged.
LEMMA AnswerPreserves ==
  ASSUME HistoryInv, NEW r \in Reference, NEW request \in Request,
         AnswerFromHistory(r, request)
  PROVE  HistoryInv'
<1> DEFINE answer == [reference |-> r, request |-> request, result |-> entries[r].result]
<1>1. TypeOK /\ IndexesAgree /\ AdmittedAtMostOnce /\ Remembered /\ OnlyAdmitted
  BY DEF HistoryInv
<1>2. /\ entries[r].state = "finished"
      /\ entries[r].request = request
      /\ answered' = answered \cup {answer}
      /\ UNCHANGED <<entries, applying, finished, expired, retryFence, admissions>>
  BY DEF AnswerFromHistory, AnswersRequest, IsBoundTo, records
<1>3. entries[r].result \in Result
  BY <1>1, <1>2, ExecutionCases DEF TypeOK
<1>4. TypeOK'
  BY <1>1, <1>2, <1>3 DEF TypeOK
<1>5. IndexesAgree'
  BY <1>1, <1>2 DEF IndexesAgree, AppliedApplying, AppliedFinished, AppliedExpired
<1>6. AdmittedAtMostOnce' /\ Remembered' /\ OnlyAdmitted'
  BY <1>1, <1>2 DEF AdmittedAtMostOnce, Remembered, OnlyAdmitted, Passed
<1>7. admissions[r] # 0
  BY <1>1, <1>2, ExecutionBuilt DEF OnlyAdmitted
<1>8. AnsweredKept'
  BY <1>2, <1>7 DEF HistoryInv, AnsweredKept
<1>9. AnswersAgree'
  BY <1>2 DEF HistoryInv, AnsweredKept, AnswersAgree
<1> QED
  BY <1>4, <1>5, <1>6, <1>8, <1>9 DEF HistoryInv

\* Every step of the history preserves the invariant; recovery changes nothing.
LEMMA HistoryStep == HistoryInv /\ [Next]_vars => HistoryInv'
<1> SUFFICES ASSUME HistoryInv, [Next]_vars PROVE HistoryInv'
  OBVIOUS
<1>1. ASSUME NEW r \in Reference, NEW request \in Request, NEW now \in Timestamp,
             NEW c \in Capacities, AdmitCommandExecution(r, request, now, c)
      PROVE  HistoryInv'
  BY <1>1, AdmitPreserves
<1>2. ASSUME NEW r \in Reference, NEW request \in Request, NEW at \in Timestamp,
             NEW result \in Result, FinishCommandExecution(r, request, at, result)
      PROVE  HistoryInv'
  BY <1>2, FinishPreserves
<1>3. ASSUME NEW now \in Timestamp, ReclaimCommandExecutions(now)
      PROVE  HistoryInv'
  BY <1>3, ReclaimPreserves
<1>4. ASSUME UNCHANGED vars PROVE HistoryInv'
  BY <1>4 DEF vars, HistoryInv, TypeOK, IndexesAgree, AppliedApplying, AppliedFinished,
     AppliedExpired, AdmittedAtMostOnce, Remembered, OnlyAdmitted, Passed, AnsweredKept,
     AnswersAgree
<1>5. CASE Recover
  BY <1>4, <1>5 DEF Recover, HistoryInv, IndexesAgree, vars
<1>6. ASSUME NEW r \in Reference, NEW request \in Request, AnswerFromHistory(r, request)
      PROVE  HistoryInv'
  BY <1>6, AnswerPreserves
<1> QED
  BY <1>1, <1>2, <1>3, <1>4, <1>5, <1>6 DEF Next

\* The invariant holds always.
LEMMA HistoryInvariance == Spec => []HistoryInv
BY HistoryInit, HistoryStep, PTL DEF Spec

\* Under any leader clocks the records keep their types.
THEOREM HistoryTyped == Spec => []TypeOK
BY HistoryInvariance, PTL DEF HistoryInv

\* No reference runs its effects twice, whatever the clocks of the leaders read.
THEOREM AdmittedOnce == Spec => []AdmittedAtMostOnce
BY HistoryInvariance, PTL DEF HistoryInv

\* What a restarting node derives from the entries is what it had: the indexes name exactly
\* the entries in their state.
THEOREM RecoveryChangesNothing == Spec => []IndexesAgree
BY HistoryInvariance, PTL DEF HistoryInv

\* Every client that learns the outcome of a reference learns the same one.
THEOREM ClientsAgree == Spec => []AnswersAgree
BY HistoryInvariance, PTL DEF HistoryInv

-----------------------------------------------------------------------------
(* The capacity.                                                             *)

\* Finitely many executions are retained, and no more than some policy allowed.
Bounded == IsFiniteSet(Retained) /\ WithinCapacity

\* What retains no more than before stays bounded.
LEMMA FewerBounded == ASSUME Bounded, Retained' \subseteq Retained PROVE Bounded'
<1>1. /\ IsFiniteSet(Retained') /\ Cardinality(Retained') \in Nat /\ Cardinality(Retained) \in Nat
      /\ Cardinality(Retained') <= Cardinality(Retained)
  BY FS_Subset, FS_CardinalityType DEF Bounded
<1>2. CASE Retained = {}
  BY <1>1, <1>2 DEF Bounded, WithinCapacity
<1>3. ASSUME NEW c \in Capacities, Cardinality(Retained) <= c PROVE Bounded'
  BY <1>1, <1>3, HistoryAssumption DEF Bounded, WithinCapacity
<1> QED
  BY <1>2, <1>3 DEF Bounded, WithinCapacity

\* Only an admission retains more, and it leaves room.
LEMMA BoundedStep == ASSUME HistoryInv, Bounded, [Next]_vars PROVE Bounded'
<1>1. TypeOK /\ IndexesAgree
  BY DEF HistoryInv
<1>2. ASSUME NEW r \in Reference, NEW request \in Request, NEW now \in Timestamp,
             NEW c \in Capacities, AdmitCommandExecution(r, request, now, c)
      PROVE  Bounded'
  <2>1. entries' = [entries EXCEPT ![r] = ApplyingExecution(request)] /\ entries[r] = Absent
    BY <1>2 DEF AdmitCommandExecution, InsertAdmitted
  <2>2. Retained' = Retained \cup {r} /\ r \notin Retained
    BY <1>1, <2>1, ExecutionBuilt DEF Retained, TypeOK
  <2>3. /\ IsFiniteSet(Retained') /\ Cardinality(Retained) \in Nat
        /\ Cardinality(Retained') = Cardinality(Retained) + 1
    BY <2>2, FS_AddElement, FS_CardinalityType DEF Bounded
  <2>4. Cardinality(Retained) < c
    BY <1>2 DEF AdmitCommandExecution, ValidateAdmission, HasRoom
  <2> QED
    BY <2>3, <2>4, HistoryAssumption DEF Bounded, WithinCapacity
<1>3. ASSUME NEW r \in Reference, NEW request \in Request, NEW at \in Timestamp,
             NEW result \in Result, FinishCommandExecution(r, request, at, result)
      PROVE  Bounded'
  <2>1. entries[r].state = "applying" /\ \A x \in Reference \ {r} : entries'[x] = entries[x]
    BY <1>1, <1>3 DEF FinishCommandExecution, MayFinish, TypeOK
  <2>2. r \in Retained
    BY <2>1, ExecutionBuilt DEF Retained
  <2> QED
    BY <2>1, <2>2, FewerBounded DEF Retained
<1>4. ASSUME NEW now \in Timestamp, ReclaimCommandExecutions(now)
      PROVE  Bounded'
  <2> DEFINE fence == EffectiveRetryFence(PolicyRetryFence(now))
             tombstones == Tombstoned(DueFinished(PolicyRetryFence(now)), fence)
  <2>1. ASSUME NEW x \in Reference, entries[x] = Absent
        PROVE  x \notin tombstones
    <3>1. ASSUME x \in tombstones PROVE entries[x].state = "finished"
      BY <1>1, <3>1 DEF Tombstoned, DueFinished, IndexesAgree, AppliedFinished, FinishedKey
    <3> QED
      BY <2>1, <3>1, ExecutionBuilt
  <2>2. \A x \in Reference \ tombstones : entries'[x] \in {entries[x], Absent}
    BY <1>4 DEF ReclaimCommandExecutions
  <2>3. Retained' \subseteq Retained
    BY <2>1, <2>2 DEF Retained
  <2> QED
    BY <2>3, FewerBounded
<1>5. CASE UNCHANGED entries
  BY <1>5, FewerBounded DEF Retained
<1> QED
  BY <1>2, <1>3, <1>4, <1>5 DEF Next, Recover, AnswerFromHistory, records, vars

\* The retained history never outgrows the largest capacity any policy carried, though
\* capacities change and reclamation replaces executions by tombstones.
THEOREM CapacityHolds == Spec => []WithinCapacity
<1>1. Init => Bounded
  BY FS_EmptySet DEF Init, Bounded, WithinCapacity, Retained
<1> QED
  BY <1>1, HistoryInvariance, BoundedStep, PTL DEF Spec, Bounded

-----------------------------------------------------------------------------
(* The history implements the ledger.                                      *)

\* A reference the fence has passed stays passed when a policy is applied.
LEMMA PassedStays ==
  ASSUME TypeOK, NEW now \in Timestamp, NEW r \in Reference,
         retryFence' = EffectiveRetryFence(PolicyRetryFence(now)), Passed(r)
  PROVE  Passed(r)'
BY FenceAdvances, HistoryAssumption DEF Passed

\* What a reference is to the ledger, case by case.
LEMMA LedgerCases ==
  ASSUME TypeOK, NEW r \in Reference
  PROVE  /\ entries[r].state = "applying" =>
              LedgerOf(r) = [stage |-> "applying", request |-> entries[r].request]
         /\ entries[r].state = "finished" =>
              LedgerOf(r) = [stage |-> "done", request |-> entries[r].request,
                             result |-> entries[r].result]
         /\ entries[r].state = "expired" => LedgerOf(r) = [stage |-> "gone"]
         /\ entries[r].state = "absent" /\ Passed(r) => LedgerOf(r) = [stage |-> "gone"]
         /\ entries[r].state = "absent" /\ ~Passed(r) => LedgerOf(r) = [stage |-> "unseen"]
BY DEF LedgerOf

\* An entry that a fence advance leaves alone keeps its place in the ledger, or it was
\* unseen and lapses.
LEMMA UntouchedKeepsOrLapses ==
  ASSUME TypeOK, TypeOK', NEW now \in Timestamp, NEW r \in Reference,
         retryFence' = EffectiveRetryFence(PolicyRetryFence(now)),
         entries'[r] = entries[r]
  PROVE  \/ LedgerOf(r)' = LedgerOf(r)
         \/ LedgerOf(r) = Ledger!Unseen /\ LedgerOf(r)' = Ledger!Gone
<1>1. entries[r].state \in {"absent", "applying", "finished", "expired"}
  BY ExecutionCases DEF TypeOK
<1>2. CASE entries[r].state # "absent"
  BY <1>1, <1>2 DEF LedgerOf
<1>3. CASE entries[r].state = "absent"
  BY <1>3, PassedStays DEF LedgerOf, Ledger!Unseen, Ledger!Gone
<1> QED
  BY <1>2, <1>3

\* An admission of the history is an admission of the ledger.
LEMMA AdmitImplements ==
  ASSUME HistoryInv, HistoryInv', NEW r \in Reference, NEW request \in Request,
         NEW now \in Timestamp, NEW c \in Capacities,
         AdmitCommandExecution(r, request, now, c)
  PROVE  Ledger!Admit(r, request)
<1> DEFINE f == EffectiveRetryFence(PolicyRetryFence(now))
<1>1. TypeOK /\ TypeOK'
  BY DEF HistoryInv
<1>2. /\ entries[r] = Absent
      /\ entries' = [entries EXCEPT ![r] = ApplyingExecution(request)]
      /\ retryFence' = f
      /\ IssuedAt[r] > f
  BY DEF AdmitCommandExecution, ValidateAdmission, ValidateReference, InsertAdmitted
<1>3. ~Passed(r)
  BY <1>1, <1>2, FenceAdvances, HistoryAssumption DEF Passed
<1>4. LedgerOf(r) = Ledger!Unseen
  BY <1>1, <1>2, <1>3, ExecutionBuilt, LedgerCases DEF Ledger!Unseen
<1>5. LedgerOf(r)' = Ledger!Applying(request)
  BY <1>1, <1>2, ExecutionBuilt DEF TypeOK, LedgerOf, Ledger!Applying
<1>6. ASSUME NEW x \in Reference \ {r}
      PROVE  \/ LedgerOf(x)' = LedgerOf(x)
             \/ LedgerOf(x) = Ledger!Unseen /\ LedgerOf(x)' = Ledger!Gone
  BY <1>1, <1>2, UntouchedKeepsOrLapses DEF TypeOK
<1> QED
  BY <1>4, <1>5, <1>6 DEF Ledger!Admit, Ledger!LedgerShape, Ledger!OthersKeepOrLapse,
     Ledger!MayLapse

\* A finish of the history is a finish of the ledger.
LEMMA FinishImplements ==
  ASSUME HistoryInv, HistoryInv', NEW r \in Reference, NEW request \in Request,
         NEW at \in Timestamp, NEW result \in Result,
         FinishCommandExecution(r, request, at, result)
  PROVE  Ledger!Finish(r, request, result)
<1>1. TypeOK /\ TypeOK'
  BY DEF HistoryInv
<1>2. /\ entries[r].state = "applying" /\ entries[r].request = request
      /\ entries' = [entries EXCEPT ![r] = FinishedExecution(request, at, result)]
      /\ retryFence' = retryFence
  BY DEF FinishCommandExecution, MayFinish, IsBoundTo
<1>3. LedgerOf(r) = Ledger!Applying(request)
  BY <1>1, <1>2, LedgerCases DEF Ledger!Applying
<1>4. LedgerOf(r)' = Ledger!Done(request, result)
  BY <1>1, <1>2, ExecutionBuilt DEF TypeOK, LedgerOf, Ledger!Done
<1>5. \A x \in Reference \ {r} : LedgerOf(x)' = LedgerOf(x)
  BY <1>1, <1>2 DEF TypeOK, LedgerOf, Passed
<1> QED
  BY <1>3, <1>4, <1>5 DEF Ledger!Finish, Ledger!LedgerShape, Ledger!OthersKeepOrLapse

\* A reclamation of the history lapses references of the ledger.
LEMMA ReclaimImplements ==
  ASSUME HistoryInv, HistoryInv', NEW now \in Timestamp, ReclaimCommandExecutions(now)
  PROVE  Ledger!Lapse
<1> DEFINE before      == PolicyRetryFence(now)
           f           == EffectiveRetryFence(before)
           due         == DueExpired(f) \cup DueFinished(before)
           tombstones  == Tombstoned(DueFinished(before), f)
           removed     == {key.reference : key \in due} \ tombstones
<1>1. TypeOK /\ TypeOK' /\ IndexesAgree /\ Remembered' /\ OnlyAdmitted
  BY DEF HistoryInv
<1>2. /\ retryFence' = f
      /\ admissions' = admissions
      /\ entries' = [r \in Reference |->
                       IF r \in removed THEN Absent
                       ELSE IF r \in tombstones THEN ExpiredExecution
                       ELSE entries[r]]
  BY DEF ReclaimCommandExecutions
<1>3. \A r \in removed \cup tombstones : entries[r].state \in {"finished", "expired"}
  BY <1>1, IndexedReferences DEF DueExpired, DueFinished, Tombstoned
<1>4. ASSUME NEW x \in Reference
      PROVE  \/ LedgerOf(x)' = LedgerOf(x)
             \/ /\ LedgerOf(x) = Ledger!Unseen \/ LedgerOf(x).stage = "done"
                /\ LedgerOf(x)' = Ledger!Gone
  <2>1. CASE x \notin removed \cup tombstones
    <3>1. entries'[x] = entries[x]
      BY <1>2, <2>1
    <3> QED
      BY <1>1, <1>2, <3>1, UntouchedKeepsOrLapses
  <2>2. CASE x \in removed \cup tombstones
    <3>1. LedgerOf(x) = Ledger!Gone \/ LedgerOf(x).stage = "done"
      BY <1>1, <1>3, <2>2, LedgerCases DEF Ledger!Gone
    <3>2. LedgerOf(x)' = Ledger!Gone
      <4>1. CASE x \in tombstones /\ x \notin removed
        <5>1. entries'[x] = ExpiredExecution
          BY <1>2, <4>1
        <5> QED
          BY <5>1, ExecutionBuilt DEF LedgerOf, Ledger!Gone
      <4>2. CASE x \in removed
        <5>1. entries'[x] = Absent
          BY <1>2, <4>2
        <5>2. admissions'[x] # 0
          BY <1>1, <1>2, <1>3, <2>2, ExecutionBuilt DEF OnlyAdmitted
        <5>3. Passed(x)'
          BY <1>1, <5>1, <5>2 DEF Remembered
        <5> QED
          BY <5>1, <5>3, ExecutionBuilt DEF LedgerOf, Ledger!Gone
      <4> QED
        BY <2>2, <4>1, <4>2
    <3> QED
      BY <3>1, <3>2
  <2> QED
    BY <2>1, <2>2
<1> QED
  BY <1>4 DEF Ledger!Lapse, Ledger!LedgerShape, Ledger!OthersKeepOrLapse, Ledger!MayLapse

\* The command history implements the command ledger: whatever the clocks of the
\* leaders read, a reference runs at most once, keeps one result and is forgotten
\* only when every retry of it is refused.
THEOREM HistoryImplementsLedger == Spec => ImplementsLedger
<1>1. Init => Ledger!Init
  BY ExecutionBuilt DEF Init, Ledger!Init, Ledger!Unseen, LedgerOf, Passed
<1>2. HistoryInv /\ HistoryInv' /\ [Next]_vars
        => [Ledger!Next]_([r \in Reference |-> LedgerOf(r)])
  <2> SUFFICES ASSUME HistoryInv, HistoryInv', [Next]_vars
               PROVE  \/ Ledger!Next
                      \/ UNCHANGED [r \in Reference |-> LedgerOf(r)]
    OBVIOUS
  <2>1. ASSUME NEW r \in Reference, NEW request \in Request, NEW now \in Timestamp,
               NEW c \in Capacities, AdmitCommandExecution(r, request, now, c)
        PROVE  Ledger!Next
    BY <2>1, AdmitImplements DEF Ledger!Next
  <2>2. ASSUME NEW r \in Reference, NEW request \in Request, NEW at \in Timestamp,
               NEW result \in Result, FinishCommandExecution(r, request, at, result)
        PROVE  Ledger!Next
    BY <2>2, FinishImplements DEF Ledger!Next
  <2>3. ASSUME NEW now \in Timestamp, ReclaimCommandExecutions(now)
        PROVE  Ledger!Next
    BY <2>3, ReclaimImplements DEF Ledger!Next
  <2>4. ASSUME UNCHANGED <<entries, retryFence>>
        PROVE  UNCHANGED [r \in Reference |-> LedgerOf(r)]
    BY <2>4 DEF LedgerOf, Passed
  <2>5. CASE Recover
    BY <2>4, <2>5 DEF Recover
  <2>6. ASSUME NEW r \in Reference, NEW request \in Request, AnswerFromHistory(r, request)
        PROVE  UNCHANGED [x \in Reference |-> LedgerOf(x)]
    BY <2>4, <2>6 DEF AnswerFromHistory, records
  <2>7. CASE UNCHANGED vars
    BY <2>4, <2>7 DEF vars
  <2> QED
    BY <2>1, <2>2, <2>3, <2>5, <2>6, <2>7 DEF Next
<1> QED
  BY <1>1, <1>2, HistoryInit, HistoryStep, PTL DEF Spec, ImplementsLedger, Ledger!Spec
=============================================================================
