-------------------------- MODULE RuntimeAckProofs --------------------------
(* For any number of shares in any interleaving of their atomic steps: a     *)
(* root is acknowledged only when every share was, no count falls below      *)
(* zero, and, where every share is local, the handoff word counts the work   *)
(* that is active until the root is resolved, and the progress its owner     *)
(* observes settles with it.                                                 *)
EXTENDS RuntimeAck, FiniteSetTheorems, TLAPS

IsHolder(h) ==
  h = [pc |-> h.pc, guard |-> h.guard, fate |-> h.fate, receivers |-> h.receivers,
       seen |-> h.seen, held |-> h.held]

IsCompletion(c) ==
  c = [pc |-> c.pc, outcome |-> c.outcome, confirmation |-> c.confirmation]

\* The steps of an attachment, from its reservation to its return.
Attaching == {"reserve", "publish", "release", "sequence", "observe", "observeActive",
              "send"}

Resolving == {"complete", "untrack", "unroot", "deliver"}

\* Every task is a record, a share that does not exist yet is untouched, and receivers
\* are named only by a task that attaches them and has not settled its own share.
Shape ==
  /\ pending \in Nat
  /\ holder = [s \in Share |-> holder[s]]
  /\ \A s \in Share :
       /\ IsHolder(holder[s])
       /\ holder[s].receivers \subseteq Share
       /\ holder[s].pc = "absent" => holder[s].fate = None /\ holder[s].receivers = {}
       /\ holder[s].receivers # {} => holder[s].pc \in Attaching /\ holder[s].fate = None
       /\ holder[s].pc = "reserve" => holder[s].receivers # {}
  /\ IsCompletion(completion)

\* A share is attached by one task, before it exists.
Fresh ==
  \A p, r \in Share : r \in holder[p].receivers =>
    /\ holder[r].pc = "absent"
    /\ \A q \in Share : r \in holder[q].receivers => q = p

\* The shares that have to be acknowledged before the root is: those that exist and
\* were not, and those reserved for receivers.
Owed ==
  {s \in Share :
     \/ holder[s].pc # "absent" /\ holder[s].fate # "acked"
     \/ \E p \in Share : s \in holder[p].receivers /\ holder[p].pc # "reserve"}

\* Until the root resolves, `pending` counts them.
Count == pending # 0 => pending = Cardinality(Owed)

Acknowledged ==
  \/ completion.outcome = "Ack"
  \/ \E s \in Share : holder[s].fate = "acked" /\ holder[s].pc \in Resolving

\* Nothing is owed once an acknowledgement resolves the root.
NothingOwed == Acknowledged => Owed = {}

\* The inductive invariant.
AckInv == Shape /\ Fresh /\ Count /\ NothingOwed

-----------------------------------------------------------------------------

\* The shares owed are finitely many.
LEMMA OwedFinite == IsFiniteSet(Owed) /\ Cardinality(Owed) \in Nat
<1>1. Owed \in SUBSET Share
  BY DEF Owed
<1> QED
  BY <1>1, AckAssumption, FS_Subset, FS_CardinalityType

\* A root starts with one share, owed by its owner.
LEMMA AckInit == Init => AckInv
<1> SUFFICES ASSUME Init PROVE AckInv
  OBVIOUS
<1> USE AckAssumption DEF Init, Ready, Absent, Task
<1>1. Shape
  BY DEF Shape, IsHolder, IsCompletion, Attaching
<1>2. Fresh
  BY DEF Fresh
<1>3. Owed = {First}
  BY DEF Owed
<1>4. Count
  BY <1>3, FS_Singleton DEF Count
<1>5. NothingOwed
  BY DEF NothingOwed, Acknowledged, Resolving
<1> QED
  BY <1>1, <1>2, <1>4, <1>5 DEF AckInv

\* A step that owes what was owed before, and resolves nothing by acknowledgement,
\* preserves the invariant.
LEMMA Frame ==
  ASSUME AckInv, Shape', Fresh', Owed' = Owed, pending' \in {pending, 0},
         Acknowledged' => Acknowledged
  PROVE  AckInv'
<1>1. Count'
  BY DEF AckInv, Count, Shape
<1>2. NothingOwed'
  BY DEF AckInv, NothingOwed
<1> QED
  BY <1>1, <1>2 DEF AckInv

\* A task moves on inside an operation or between two: what it owns stays.
LEMMA MoveStep ==
  ASSUME AckInv, NEW s \in Share, NEW h, IsHolder(h),
         holder' = [holder EXCEPT ![s] = h],
         holder[s].pc \notin {"absent", "reserve"},
         h.pc \notin {"absent", "reserve"},
         h.receivers = holder[s].receivers,
         h.receivers # {} => h.pc \in Attaching /\ h.fate = None,
         h.fate = "acked" <=> holder[s].fate = "acked",
         pending' \in {pending, 0},
         IsCompletion(completion'), completion'.outcome = "Ack" => Acknowledged,
         h.fate = "acked" /\ h.pc \in Resolving => holder[s].pc \in Resolving
  PROVE  AckInv'
<1> USE DEF AckInv
<1>1. /\ holder'[s] = h
      /\ \A r \in Share : r # s => holder'[r] = holder[r]
  BY DEF Shape
<1>2. Shape'
  <2>1. pending' \in Nat /\ holder' = [r \in Share |-> holder'[r]]
    BY DEF Shape
  <2>2. ASSUME NEW r \in Share
        PROVE  /\ IsHolder(holder'[r])
               /\ holder'[r].receivers \subseteq Share
               /\ holder'[r].pc = "absent" =>
                    holder'[r].fate = None /\ holder'[r].receivers = {}
               /\ holder'[r].receivers # {} =>
                    holder'[r].pc \in Attaching /\ holder'[r].fate = None
               /\ holder'[r].pc = "reserve" => holder'[r].receivers # {}
    <3>1. CASE r = s
      BY <3>1, <1>1 DEF Shape
    <3>2. CASE r # s
      BY <3>2, <1>1 DEF Shape
    <3> QED
      BY <3>1, <3>2
  <2> QED
    BY <2>1, <2>2, Zenon DEF Shape, IsHolder, IsCompletion
<1>3. Fresh'
  <2> SUFFICES ASSUME NEW p \in Share, NEW r \in Share, r \in holder'[p].receivers
               PROVE  /\ holder'[r].pc = "absent"
                      /\ \A q \in Share : r \in holder'[q].receivers => q = p
    BY DEF Fresh
  <2>1. \A q \in Share : holder'[q].receivers = holder[q].receivers
    BY <1>1
  <2>2. holder[r].pc = "absent" /\ r # s
    BY <2>1 DEF Fresh
  <2> QED
    BY <1>1, <2>1, <2>2 DEF Fresh
<1>4. Owed' = Owed
  BY <1>1 DEF Owed
<1>5. Acknowledged' => Acknowledged
  BY <1>1 DEF Acknowledged
<1> QED
  BY <1>2, <1>3, <1>4, <1>5, Frame

\* The task of a share that was just attached.
LEMMA ReadyRecord ==
  /\ Ready.pc = "ready" /\ Ready.fate = None /\ Ready.receivers = {}
  /\ IsHolder(Ready)
<1>1. Ready = [pc |-> "ready", guard |-> FALSE, fate |-> None, receivers |-> {},
               seen |-> None, held |-> FALSE]
  BY DEF Ready, Task
<1>2. Ready.pc = "ready" /\ Ready.fate = None /\ Ready.receivers = {}
  BY <1>1
<1>3. Ready.guard = FALSE /\ Ready.seen = None /\ Ready.held = FALSE
  BY <1>1
<1> QED
  BY <1>1, <1>2, <1>3, Zenon DEF IsHolder

\* An operation returns: its receivers hold the shares that were owed for them.
LEMMA ReturnStep ==
  ASSUME AckInv, NEW s \in Share, Return(s),
         holder[s].pc \notin {"absent", "reserve"},
         pending' \in {pending, 0},
         IsCompletion(completion'), completion'.outcome = "Ack" => Acknowledged
  PROVE  AckInv'
<1> USE DEF AckInv
<1> DEFINE received == holder[s].receivers
<1>1. s \notin received /\ received \subseteq Share
  BY DEF Shape, Fresh
<1>2. /\ \A r \in received : holder'[r] = Ready
      /\ holder'[s] = [holder[s] EXCEPT !.pc = "ready", !.receivers = {}, !.seen = None,
                                        !.held = FALSE]
      /\ \A r \in Share : r # s /\ r \notin received => holder'[r] = holder[r]
      /\ holder' = [r \in Share |-> holder'[r]]
  BY <1>1 DEF Return, Returned
<1>3. /\ holder'[s].pc = "ready" /\ holder'[s].receivers = {}
      /\ holder'[s].fate = holder[s].fate
      /\ IsHolder(holder'[s])
  BY <1>2 DEF Shape, IsHolder
<1>4. /\ Ready.pc = "ready" /\ Ready.fate = None /\ Ready.receivers = {}
      /\ IsHolder(Ready)
  BY ReadyRecord
<1>5. Shape'
  <2>1. ASSUME NEW r \in Share
        PROVE  /\ IsHolder(holder'[r])
               /\ holder'[r].receivers \subseteq Share
               /\ holder'[r].pc = "absent" =>
                    holder'[r].fate = None /\ holder'[r].receivers = {}
               /\ holder'[r].receivers # {} =>
                    holder'[r].pc \in Attaching /\ holder'[r].fate = None
               /\ holder'[r].pc = "reserve" => holder'[r].receivers # {}
    <3>1. CASE r \in received
      BY <3>1, <1>2, <1>4
    <3>2. CASE r = s
      BY <3>2, <1>3
    <3>3. CASE r # s /\ r \notin received
      BY <3>3, <1>2 DEF Shape
    <3> QED
      BY <3>1, <3>2, <3>3
  <2>2. pending' \in Nat
    BY DEF Shape
  <2> QED
    BY <1>2, <2>1, <2>2, Zenon DEF Shape, IsHolder, IsCompletion
<1>6. \A q \in Share : holder'[q].receivers = IF q = s THEN {} ELSE holder[q].receivers
  <2> SUFFICES ASSUME NEW q \in Share
               PROVE  holder'[q].receivers = IF q = s THEN {} ELSE holder[q].receivers
    OBVIOUS
  <2>1. CASE q \in received
    <3>1. holder[q].pc = "absent"
      BY <2>1 DEF Fresh
    <3> QED
      BY <3>1, <2>1, <1>1, <1>2, <1>4 DEF Shape
  <2>2. CASE q \notin received
    BY <2>2, <1>2, <1>3
  <2> QED
    BY <2>1, <2>2
<1>7. Fresh'
  <2> SUFFICES ASSUME NEW p \in Share, NEW r \in Share, r \in holder'[p].receivers
               PROVE  /\ holder'[r].pc = "absent"
                      /\ \A q \in Share : r \in holder'[q].receivers => q = p
    BY DEF Fresh
  <2>1. p # s /\ r \in holder[p].receivers
    BY <1>6
  <2>2. holder[r].pc = "absent" /\ r \notin received /\ r # s
    BY <2>1 DEF Fresh
  <2> QED
    BY <1>2, <1>6, <2>1, <2>2 DEF Fresh
<1>8. Owed' = Owed
  <2> SUFFICES ASSUME NEW r \in Share PROVE (r \in Owed)' <=> r \in Owed
    BY DEF Owed
  <2>1. CASE r \in received
    BY <2>1, <1>2, <1>4, AckAssumption DEF Owed
  <2>2. CASE r \notin received
    <3>1. /\ holder'[r].pc # "absent" <=> holder[r].pc # "absent"
          /\ holder'[r].fate = holder[r].fate
      BY <2>2, <1>2, <1>3
    <3>2. ASSUME NEW p \in Share
          PROVE  r \in holder'[p].receivers /\ holder'[p].pc # "reserve" <=>
                 r \in holder[p].receivers /\ holder[p].pc # "reserve"
      <4>1. CASE p = s
        BY <4>1, <2>2, <1>6
      <4>2. CASE p \in received
        BY <4>2, <1>1, <1>2, <1>4, <1>6 DEF Fresh, Shape
      <4>3. CASE p # s /\ p \notin received
        BY <4>3, <1>2
      <4> QED
        BY <4>1, <4>2, <4>3
    <3> QED
      BY <3>1, <3>2 DEF Owed
  <2> QED
    BY <2>1, <2>2
<1>9. Acknowledged' => Acknowledged
  <2>1. ASSUME NEW r \in Share, holder'[r].pc \in Resolving
        PROVE  holder'[r] = holder[r]
    BY <2>1, <1>2, <1>3, <1>4 DEF Resolving
  <2> QED
    BY <2>1 DEF Acknowledged
<1> QED
  BY <1>5, <1>7, <1>8, <1>9, Frame

-----------------------------------------------------------------------------
(* The steps that only move a task.                                        *)

\* A step that leaves the completion alone keeps its shape and its outcome.
LEMMA CompletionKept ==
  ASSUME AckInv, completion' = completion
  PROVE  IsCompletion(completion') /\ (completion'.outcome = "Ack" => Acknowledged)
BY DEF AckInv, Shape, Acknowledged

\* A task between two operations attaches nothing.
LEMMA ReadyAttachesNothing ==
  ASSUME AckInv, NEW s \in Share, holder[s].pc \notin Attaching
  PROVE  holder[s].receivers = {}
BY DEF AckInv, Shape

\* A task goes on to another step.
LEMMA GotoStep ==
  ASSUME AckInv, NEW s \in Share, NEW pc, Goto(s, pc),
         holder[s].pc \notin {"absent", "reserve"}, pc \notin {"absent", "reserve"},
         holder[s].receivers # {} => pc \in Attaching,
         pending' = pending,
         IsCompletion(completion'), completion'.outcome = "Ack" => Acknowledged,
         holder[s].fate = "acked" /\ pc \in Resolving => holder[s].pc \in Resolving
  PROVE  AckInv'
<1> DEFINE h == [holder[s] EXCEPT !.pc = pc]
<1>1. IsHolder(holder[s])
  BY DEF AckInv, Shape
<1>2. /\ h.pc = pc /\ h.fate = holder[s].fate /\ h.receivers = holder[s].receivers
      /\ IsHolder(h)
  BY <1>1 DEF IsHolder
<1>3. holder' = [holder EXCEPT ![s] = h]
  BY DEF Goto
<1>4. holder[s].receivers # {} => holder[s].fate = None
  BY DEF AckInv, Shape
<1> HIDE DEF h
<1> QED
  BY <1>2, <1>3, <1>4, MoveStep

\* Steps that go on to another step, or return.
LEMMA PassingSteps ==
  ASSUME AckInv, NEW s \in Share,
         \/ PublishShares(s) \/ ReleaseReservation(s) \/ Park(s) \/ ReleaseIdle(s)
         \/ AckAlive(s) \/ SendProgress(s) \/ ReleaseHandoff(s) \/ ReleaseRoot(s)
  PROVE  AckInv'
<1> USE DEF words, reports, owner, tracker, Attaching, Resolving
<1>1. pending' = pending /\ completion' = completion
  BY DEF PublishShares, ReleaseReservation, Park, ReleaseIdle, AckAlive, SendProgress,
         ReleaseHandoff, ReleaseRoot
<1>2. IsCompletion(completion') /\ (completion'.outcome = "Ack" => Acknowledged)
  BY <1>1, CompletionKept
<1>3. holder[s].pc \notin Attaching => holder[s].receivers = {}
  BY ReadyAttachesNothing
<1>4. CASE PublishShares(s)
  <2>1. holder[s].pc = "publish" /\ \E pc \in {"release", "sequence"} : Goto(s, pc)
    BY <1>4 DEF PublishShares
  <2> QED
    BY <1>1, <1>2, <2>1, GotoStep
<1>5. CASE ReleaseReservation(s) \/ SendProgress(s)
  <2>1. holder[s].pc \in {"release", "send"} /\ Return(s)
    BY <1>5 DEF ReleaseReservation, SendProgress
  <2> QED
    BY <1>1, <1>2, <2>1, ReturnStep
<1>6. CASE Park(s) \/ AckAlive(s)
  <2>1. holder[s].pc = "ready" /\ \E pc \in {"park", "sequence"} : Goto(s, pc)
    BY <1>6 DEF Park, AckAlive, Owns
  <2> QED
    BY <1>1, <1>2, <1>3, <2>1, GotoStep
<1>7. CASE ReleaseIdle(s)
  <2>1. holder[s].pc = "idle" /\ Goto(s, "sequence")
    BY <1>7 DEF ReleaseIdle
  <2> QED
    BY <1>1, <1>2, <1>3, <2>1, GotoStep
<1>8. CASE ReleaseHandoff(s)
  <2>1. holder[s].pc = "untrack" /\ Goto(s, "unroot")
    BY <1>8 DEF ReleaseHandoff
  <2> QED
    BY <1>1, <1>2, <1>3, <2>1, GotoStep
<1>9. CASE ReleaseRoot(s)
  <2>1. holder[s].pc = "unroot" /\ (Goto(s, "deliver") \/ Return(s))
    BY <1>9 DEF ReleaseRoot
  <2>2. CASE Goto(s, "deliver")
    BY <1>1, <1>2, <1>3, <2>1, <2>2, GotoStep
  <2>3. CASE Return(s)
    BY <1>1, <1>2, <2>1, <2>3, ReturnStep
  <2> QED
    BY <2>1, <2>2, <2>3
<1> QED
  BY <1>4, <1>5, <1>6, <1>7, <1>8, <1>9

\* Steps that change more of the task than its next step.
LEMMA ChangingSteps ==
  ASSUME AckInv, NEW s \in Share,
         \/ Unpark(s) \/ RemoveShare(s) \/ DrawSequence(s) \/ ObservePending(s)
         \/ ObserveActive(s) \/ NoAck(s) \/ DropHandle(s) \/ Complete(s)
  PROVE  AckInv'
<1> USE DEF words, reports, owner, tracker, Attaching, Resolving
<1>1. pending' \in {pending, 0} /\ completion' = completion
  BY DEF Unpark, RemoveShare, DrawSequence, ObservePending, ObserveActive, NoAck,
         DropHandle, Complete
<1>2. IsCompletion(completion') /\ (completion'.outcome = "Ack" => Acknowledged)
  BY <1>1, CompletionKept
<1>3. holder[s].pc \notin Attaching => holder[s].receivers = {}
  BY ReadyAttachesNothing
<1>4. IsHolder(holder[s]) /\ (holder[s].receivers # {} => holder[s].fate = None)
  BY DEF AckInv, Shape
<1>5. CASE Unpark(s)
  <2>1. PICK h : /\ h = [holder[s] EXCEPT !.pc = "publish", !.guard = FALSE]
                 /\ holder' = [holder EXCEPT ![s] = h]
    BY <1>5 DEF Unpark
  <2>2. /\ h.pc = "publish" /\ h.fate = holder[s].fate
        /\ h.receivers = holder[s].receivers /\ IsHolder(h)
    BY <1>4, <2>1 DEF IsHolder
  <2>3. holder[s].pc = "ready"
    BY <1>5 DEF Unpark
  <2> QED
    BY <1>1, <1>2, <1>3, <1>4, <2>1, <2>2, <2>3, MoveStep
<1>6. CASE RemoveShare(s)
  <2>1. holder[s].pc \in {"park", "remove"}
    BY <1>6 DEF RemoveShare
  <2>2. CASE active \in {None, 0}
    <3>1. Return(s)
      BY <1>6, <2>2 DEF RemoveShare
    <3> QED
      BY <1>1, <1>2, <2>1, <3>1, ReturnStep
  <2>3. CASE active \notin {None, 0}
    <3> DEFINE pc == IF active = 1 THEN "idle" ELSE "ready"
               guard == holder[s].guard \/ holder[s].pc = "park"
    <3>1. pc \in {"idle", "ready"}
      OBVIOUS
    <3>2. holder' = [holder EXCEPT ![s].pc = pc, ![s].guard = guard]
      BY <1>6, <2>3, Zenon DEF RemoveShare
    <3> HIDE DEF pc, guard
    <3>3. PICK h : /\ h = [holder[s] EXCEPT !.pc = pc, !.guard = guard]
                   /\ holder' = [holder EXCEPT ![s] = h]
      BY <3>2
    <3>4. /\ h.pc = pc /\ h.fate = holder[s].fate
          /\ h.receivers = holder[s].receivers /\ IsHolder(h)
      BY <1>4, <3>3 DEF IsHolder
    <3> QED
      BY <1>1, <1>2, <1>3, <1>4, <2>1, <3>1, <3>3, <3>4, MoveStep
  <2> QED
    BY <2>2, <2>3
<1>7. ASSUME NEW h, NEW pc \in {"observe", "observeActive", "send"}, NEW seen,
             h = [holder[s] EXCEPT !.pc = pc, !.seen = seen],
             holder' = [holder EXCEPT ![s] = h],
             holder[s].pc \in {"sequence", "observe", "observeActive"}
      PROVE  AckInv'
  <2>1. /\ h.pc = pc /\ h.fate = holder[s].fate
        /\ h.receivers = holder[s].receivers /\ IsHolder(h)
    BY <1>4, <1>7 DEF IsHolder
  <2> QED
    BY <1>1, <1>2, <1>4, <1>7, <2>1, MoveStep
<1>8. CASE DrawSequence(s)
  <2> DEFINE seen == [sequence |-> progress + 1, parked |-> FALSE]
             h == [holder[s] EXCEPT !.pc = "observe", !.seen = seen]
  <2>1. holder' = [holder EXCEPT ![s] = h] /\ holder[s].pc = "sequence"
    BY <1>8 DEF DrawSequence
  <2> HIDE DEF seen
  <2> QED
    BY <1>7, <2>1
<1>9. CASE ObservePending(s)
  <2> DEFINE seen == [holder[s].seen EXCEPT !.parked = ~IsResolved]
             h == [holder[s] EXCEPT !.pc = "observeActive", !.seen = seen]
  <2>1. holder' = [holder EXCEPT ![s] = h] /\ holder[s].pc = "observe"
    BY <1>9 DEF ObservePending
  <2> HIDE DEF seen
  <2> QED
    BY <1>7, <2>1
<1>10. CASE ObserveActive(s)
  <2> DEFINE seen == [holder[s].seen EXCEPT
                        !.parked = holder[s].seen.parked /\ active = 0]
             h == [holder[s] EXCEPT !.pc = "send", !.seen = seen]
  <2>1. holder[s].pc = "observeActive"
    BY <1>10 DEF ObserveActive
  <2>2. holder' = [holder EXCEPT ![s].pc = "send", ![s].seen = seen]
    BY <1>10, Zenon DEF ObserveActive
  <2> HIDE DEF seen
  <2>3. holder' = [holder EXCEPT ![s] = h]
    BY <2>2
  <2> QED
    BY <1>7, <2>1, <2>3
<1>11. CASE NoAck(s)
  <2>1. PICK h : /\ h = [holder[s] EXCEPT !.fate = "refused",
                           !.pc = IF IsResolved THEN "ready" ELSE "complete"]
                 /\ holder' = [holder EXCEPT ![s] = h]
    BY <1>11 DEF NoAck
  <2>2. /\ h.pc \in {"ready", "complete"} /\ h.fate = "refused"
        /\ h.receivers = holder[s].receivers /\ IsHolder(h)
    BY <1>4, <2>1 DEF IsHolder
  <2>3. holder[s].pc = "ready" /\ holder[s].fate # "acked"
    BY <1>11, AckAssumption DEF NoAck, Settles, Owns
  <2> QED
    BY <1>1, <1>2, <1>3, <2>1, <2>2, <2>3, MoveStep
<1>12. CASE DropHandle(s)
  <2>1. PICK h : /\ h = [holder[s] EXCEPT !.fate = "dropped"]
                 /\ holder' = [holder EXCEPT ![s] = h]
    BY <1>12 DEF DropHandle
  <2>2. holder[s].pc = "ready" /\ holder[s].fate # "acked"
    BY <1>12, AckAssumption DEF DropHandle, Owns
  <2>3. /\ h.pc = "ready" /\ h.fate = "dropped"
        /\ h.receivers = holder[s].receivers /\ IsHolder(h)
    BY <1>4, <2>1, <2>2 DEF IsHolder
  <2> QED
    BY <1>1, <1>2, <1>3, <2>1, <2>2, <2>3, MoveStep
<1>13. CASE Complete(s)
  <2> DEFINE pc == IF release = "AfterConfirmation" THEN "deliver"
                   ELSE IF active \notin {None, 0} THEN "untrack" ELSE "unroot"
             held == active \notin {None, 0}
  <2>1. holder[s].pc = "complete" /\ pc \in {"deliver", "untrack", "unroot"}
    BY <1>13 DEF Complete
  <2>2. holder' = [holder EXCEPT ![s].held = held, ![s].pc = pc]
    BY <1>13, Zenon DEF Complete
  <2> HIDE DEF pc, held
  <2>3. PICK h : /\ h = [holder[s] EXCEPT !.held = held, !.pc = pc]
                 /\ holder' = [holder EXCEPT ![s] = h]
    BY <2>2
  <2>4. /\ h.pc = pc /\ h.fate = holder[s].fate
        /\ h.receivers = holder[s].receivers /\ IsHolder(h)
    BY <1>4, <2>3 DEF IsHolder
  <2> QED
    BY <1>1, <1>2, <1>3, <1>4, <2>1, <2>3, <2>4, MoveStep
<1> QED
  BY <1>5, <1>6, <1>8, <1>9, <1>10, <1>11, <1>12, <1>13

-----------------------------------------------------------------------------
(* The steps that change what is owed, and what the owner does.            *)

\* The shares of the receivers are owed once they are reserved, not before.
LEMMA AttachStep ==
  ASSUME AckInv, NEW s \in Share, NEW receivers \in SUBSET Share, Attach(s, receivers)
  PROVE  AckInv'
<1> USE DEF words, reports, owner, tracker, Attaching
<1>1. /\ holder[s].pc = "ready" /\ holder[s].fate = None /\ receivers # {}
      /\ \A r \in receivers : holder[r].pc = "absent"
      /\ \A p \in Share : holder[p].receivers \cap receivers = {}
      /\ pending' = pending /\ completion' = completion
  BY DEF Attach, Owns
<1>2. holder[s].receivers = {} /\ IsHolder(holder[s])
  BY <1>1 DEF AckInv, Shape
<1>3. PICK h : /\ h = [holder[s] EXCEPT !.pc = "reserve", !.receivers = receivers]
               /\ holder' = [holder EXCEPT ![s] = h]
  BY DEF Attach
<1>4. /\ h.pc = "reserve" /\ h.fate = None /\ h.receivers = receivers /\ IsHolder(h)
  BY <1>1, <1>2, <1>3 DEF IsHolder
<1>5. /\ holder'[s] = h
      /\ \A r \in Share : r # s => holder'[r] = holder[r]
      /\ holder' = [r \in Share |-> holder'[r]]
  BY <1>3 DEF AckInv, Shape
<1>6. Shape'
  <2>1. ASSUME NEW r \in Share
        PROVE  /\ IsHolder(holder'[r])
               /\ holder'[r].receivers \subseteq Share
               /\ holder'[r].pc = "absent" =>
                    holder'[r].fate = None /\ holder'[r].receivers = {}
               /\ holder'[r].receivers # {} =>
                    holder'[r].pc \in Attaching /\ holder'[r].fate = None
               /\ holder'[r].pc = "reserve" => holder'[r].receivers # {}
    <3>1. CASE r = s
      BY <3>1, <1>1, <1>4, <1>5
    <3>2. CASE r # s
      BY <3>2, <1>5 DEF AckInv, Shape
    <3> QED
      BY <3>1, <3>2
  <2>2. pending' \in Nat /\ IsCompletion(completion)
    BY <1>1 DEF AckInv, Shape
  <2> QED
    BY <1>1, <1>5, <2>1, <2>2, Zenon DEF Shape, IsHolder, IsCompletion
<1>7. Fresh'
  <2> SUFFICES ASSUME NEW p \in Share, NEW r \in Share, r \in holder'[p].receivers
               PROVE  /\ holder'[r].pc = "absent"
                      /\ \A q \in Share : r \in holder'[q].receivers => q = p
    BY DEF Fresh
  <2>1. CASE p = s
    BY <2>1, <1>1, <1>4, <1>5
  <2>2. CASE p # s
    <3>1. r \in holder[p].receivers
      BY <2>2, <1>5
    <3>2. holder[r].pc = "absent" /\ r # s /\ r \notin receivers
      BY <3>1, <1>1 DEF AckInv, Fresh
    <3> QED
      BY <3>1, <3>2, <1>4, <1>5 DEF AckInv, Fresh
  <2> QED
    BY <2>1, <2>2
<1>8. Owed' = Owed
  BY <1>1, <1>2, <1>4, <1>5 DEF Owed
<1>9. Acknowledged' => Acknowledged
  BY <1>1, <1>4, <1>5 DEF Acknowledged, Resolving
<1> QED
  BY <1>1, <1>6, <1>7, <1>8, <1>9, Frame

\* A reservation adds what it owes to `pending` in one step, or owes it to a root
\* that was resolved otherwise.
LEMMA ReserveStep ==
  ASSUME AckInv, NEW s \in Share, ReservePendingShares(s)
  PROVE  AckInv'
<1> USE DEF words, reports, owner, tracker, Attaching
<1> DEFINE receivers == holder[s].receivers
<1>1. /\ holder[s].pc = "reserve" /\ completion' = completion
      /\ \E pc \in {"release", "publish"} : Goto(s, pc)
  BY DEF ReservePendingShares
<1>2. PICK pc \in {"release", "publish"} : Goto(s, pc)
  BY <1>1
<1>3. /\ IsHolder(holder[s]) /\ receivers # {} /\ receivers \in SUBSET Share
      /\ holder[s].fate = None
  BY <1>1 DEF AckInv, Shape
<1>4. PICK h : h = [holder[s] EXCEPT !.pc = pc] /\ holder' = [holder EXCEPT ![s] = h]
  BY <1>2 DEF Goto
<1>5. h.pc = pc /\ h.fate = None /\ h.receivers = receivers /\ IsHolder(h)
  BY <1>3, <1>4 DEF IsHolder
<1>6. /\ holder'[s] = h
      /\ \A r \in Share : r # s => holder'[r] = holder[r]
      /\ holder' = [r \in Share |-> holder'[r]]
  BY <1>4 DEF AckInv, Shape
<1>7. s \in Owed /\ ~Acknowledged /\ ~Acknowledged'
  <2>1. s \in Owed
    BY <1>1, <1>3, AckAssumption DEF Owed
  <2>2. ~Acknowledged
    BY <2>1 DEF AckInv, NothingOwed
  <2> QED
    BY <2>1, <2>2, <1>1, <1>5, <1>6 DEF Acknowledged, Resolving
<1>8. /\ Owed' = Owed \cup receivers
      /\ Owed \cap receivers = {}
  <2>1. ASSUME NEW r \in receivers PROVE r \notin Owed
    BY <1>1, <1>3 DEF Owed, AckInv, Fresh
  <2>2. Owed' = Owed \cup receivers
    BY <1>1, <1>2, <1>3, <1>5, <1>6 DEF Owed
  <2> QED
    BY <2>1, <2>2
<1>9. pending' \in Nat /\ Count'
  <2>1. CASE pending = 0
    BY <2>1 DEF ReservePendingShares, IsResolved, Count, AckInv, Shape
  <2>2. CASE pending # 0
    <3>1. pending' = pending + Cardinality(receivers)
      BY <1>3, <2>2 DEF ReservePendingShares, IsResolved, Published
    <3>2. IsFiniteSet(receivers) /\ Cardinality(receivers) \in Nat
      BY <1>3, AckAssumption, FS_Subset, FS_CardinalityType
    <3>3. Cardinality(Owed \cup receivers) = Cardinality(Owed) + Cardinality(receivers)
      <4> HIDE DEF receivers
      <4>1. Cardinality(Owed \cup receivers) =
              Cardinality(Owed) + Cardinality(receivers) - Cardinality(Owed \cap receivers)
        BY <3>2, OwedFinite, FS_Union
      <4>2. Cardinality(Owed \cap receivers) = 0
        BY <1>8, FS_EmptySet
      <4> QED
        BY <3>2, <4>1, <4>2, OwedFinite
    <3>4. pending \in Nat /\ pending = Cardinality(Owed)
      BY <2>2 DEF AckInv, Shape, Count
    <3> QED
      BY <1>8, <3>1, <3>2, <3>3, <3>4 DEF Count
  <2> QED
    BY <2>1, <2>2
<1>10. Shape'
  <2>1. ASSUME NEW r \in Share
        PROVE  /\ IsHolder(holder'[r])
               /\ holder'[r].receivers \subseteq Share
               /\ holder'[r].pc = "absent" =>
                    holder'[r].fate = None /\ holder'[r].receivers = {}
               /\ holder'[r].receivers # {} =>
                    holder'[r].pc \in Attaching /\ holder'[r].fate = None
               /\ holder'[r].pc = "reserve" => holder'[r].receivers # {}
    <3>1. CASE r = s
      BY <3>1, <1>2, <1>3, <1>5, <1>6
    <3>2. CASE r # s
      BY <3>2, <1>6 DEF AckInv, Shape
    <3> QED
      BY <3>1, <3>2
  <2>2. IsCompletion(completion)
    BY DEF AckInv, Shape
  <2> QED
    BY <1>1, <1>6, <1>9, <2>1, <2>2, Zenon DEF Shape, IsHolder, IsCompletion
<1>11. Fresh'
  <2>1. \A q \in Share : /\ holder'[q].receivers = holder[q].receivers
                         /\ holder[q].pc = "absent" => holder'[q].pc = "absent"
    BY <1>1, <1>5, <1>6
  <2> QED
    BY <2>1 DEF AckInv, Fresh
<1> QED
  BY <1>7, <1>9, <1>10, <1>11 DEF AckInv, NothingOwed

\* An acknowledgement takes its own share off what is owed, and resolves the root
\* only as it takes the last.
LEMMA AckSuccessStep ==
  ASSUME AckInv, NEW s \in Share, AckSuccess(s)
  PROVE  AckInv'
<1> USE DEF words, reports, owner, tracker, Attaching
<1> DEFINE pc == CASE pending = 0 -> "ready"
                   [] pending = 1 -> "complete"
                   [] OTHER       -> "remove"
<1>1. /\ holder[s].pc = "ready" /\ holder[s].fate = None
      /\ pending' = IF pending = 0 THEN 0 ELSE pending - 1
      /\ completion' = completion
      /\ holder' = [holder EXCEPT ![s].fate = "acked", ![s].pc = pc]
  BY DEF AckSuccess, Settles, Owns, IsResolved
<1>2. pc \in {"ready", "complete", "remove"} /\ (pc = "complete" => pending = 1)
  OBVIOUS
<1> HIDE DEF pc
<1>3. holder[s].receivers = {} /\ IsHolder(holder[s])
  BY <1>1 DEF AckInv, Shape
<1>4. PICK h : /\ h = [holder[s] EXCEPT !.fate = "acked", !.pc = pc]
               /\ holder' = [holder EXCEPT ![s] = h]
  BY <1>1
<1>5. h.pc = pc /\ h.fate = "acked" /\ h.receivers = {} /\ IsHolder(h)
  BY <1>3, <1>4 DEF IsHolder
<1>6. /\ holder'[s] = h
      /\ \A r \in Share : r # s => holder'[r] = holder[r]
      /\ holder' = [r \in Share |-> holder'[r]]
  BY <1>4 DEF AckInv, Shape
<1>7. s \in Owed /\ ~Acknowledged
  BY <1>1, AckAssumption DEF Owed, AckInv, NothingOwed
<1>8. Owed' = Owed \ {s}
  <2>1. \A p \in Share : s \notin holder[p].receivers
    BY <1>1 DEF AckInv, Fresh
  <2>2. ASSUME NEW r \in Share, NEW p \in Share
        PROVE  r \in holder'[p].receivers /\ holder'[p].pc # "reserve" <=>
               r \in holder[p].receivers /\ holder[p].pc # "reserve"
    BY <1>3, <1>5, <1>6
  <2>3. ASSUME NEW r \in Share
        PROVE  holder'[r].pc # "absent" /\ holder'[r].fate # "acked" <=>
               r # s /\ holder[r].pc # "absent" /\ holder[r].fate # "acked"
    BY <1>5, <1>6
  <2> QED
    BY <2>1, <2>2, <2>3 DEF Owed
<1>9. Cardinality(Owed \ {s}) = Cardinality(Owed) - 1 /\ IsFiniteSet(Owed \ {s})
  BY <1>7, OwedFinite, FS_RemoveElement
<1>10. pending \in Nat /\ (pending # 0 => pending = Cardinality(Owed))
  BY DEF AckInv, Shape, Count
<1>11. pending' \in Nat /\ Count'
  BY <1>1, <1>8, <1>9, <1>10 DEF Count
<1>12. NothingOwed'
  <2> SUFFICES ASSUME Acknowledged' PROVE Owed' = {}
    BY DEF NothingOwed
  <2>1. h.pc \in Resolving
    BY <1>1, <1>6, <1>7 DEF Acknowledged
  <2>2. Cardinality(Owed \ {s}) = 0
    BY <2>1, <1>2, <1>5, <1>9, <1>10 DEF Resolving
  <2> QED
    BY <2>2, <1>8, <1>9, FS_EmptySet
<1>13. Shape'
  <2>1. ASSUME NEW r \in Share
        PROVE  /\ IsHolder(holder'[r])
               /\ holder'[r].receivers \subseteq Share
               /\ holder'[r].pc = "absent" =>
                    holder'[r].fate = None /\ holder'[r].receivers = {}
               /\ holder'[r].receivers # {} =>
                    holder'[r].pc \in Attaching /\ holder'[r].fate = None
               /\ holder'[r].pc = "reserve" => holder'[r].receivers # {}
    <3>1. CASE r = s
      BY <3>1, <1>2, <1>5, <1>6
    <3>2. CASE r # s
      BY <3>2, <1>6 DEF AckInv, Shape
    <3> QED
      BY <3>1, <3>2
  <2>2. IsCompletion(completion)
    BY DEF AckInv, Shape
  <2> QED
    BY <1>1, <1>6, <1>11, <2>1, <2>2, Zenon DEF Shape, IsHolder, IsCompletion
<1>14. Fresh'
  <2>1. \A q \in Share : /\ holder'[q].receivers = holder[q].receivers
                         /\ holder[q].pc = "absent" => holder'[q].pc = "absent"
    BY <1>1, <1>3, <1>5, <1>6
  <2> QED
    BY <2>1 DEF AckInv, Fresh
<1> QED
  BY <1>11, <1>12, <1>13, <1>14 DEF AckInv

\* The outcome that is delivered is that of the share that resolved the root.
LEMMA FinishCompletionStep ==
  ASSUME AckInv, NEW s \in Share, FinishCompletion(s)
  PROVE  AckInv'
<1> USE DEF words, reports, owner, tracker, Attaching, Resolving
<1>1. pending' = pending /\ holder[s].pc = "deliver"
  BY DEF FinishCompletion
<1>2. holder[s].receivers = {}
  BY <1>1, ReadyAttachesNothing
<1>3. CASE completion.pc = "waiting"
  <2> DEFINE outcome == IF holder[s].fate = "acked" THEN "Ack" ELSE "NoAck"
             confirmation == IF release = "AfterConfirmation"
                             THEN [handoff |-> holder[s].held] ELSE None
  <2>1. /\ completion' = [completion EXCEPT !.outcome = outcome,
                                            !.confirmation = confirmation]
        /\ Return(s)
    BY <1>3 DEF FinishCompletion
  <2>2. outcome = "Ack" => Acknowledged
    BY <1>1 DEF Acknowledged
  <2>3. IsCompletion(completion)
    BY DEF AckInv, Shape
  <2> HIDE DEF outcome, confirmation
  <2>4. completion'.outcome = outcome /\ IsCompletion(completion')
    BY <2>1, <2>3 DEF IsCompletion
  <2> QED
    BY <1>1, <2>1, <2>2, <2>4, ReturnStep
<1>4. CASE completion.pc # "waiting"
  <2>1. completion' = completion /\ ((\E pc \in {"untrack", "unroot"} : Goto(s, pc)) \/ Return(s))
    BY <1>4 DEF FinishCompletion
  <2>2. IsCompletion(completion') /\ (completion'.outcome = "Ack" => Acknowledged)
    BY <2>1, CompletionKept
  <2>3. CASE Return(s)
    BY <1>1, <2>2, <2>3, ReturnStep
  <2>4. ASSUME NEW pc \in {"untrack", "unroot"}, Goto(s, pc) PROVE AckInv'
    BY <1>1, <1>2, <2>2, <2>4, GotoStep
  <2> QED
    BY <2>1, <2>3, <2>4
<1> QED
  BY <1>3, <1>4

\* What the owner does, the end of the state and stuttering acknowledge nothing.
LEMMA OwnerStep ==
  ASSUME AckInv,
         DropCompletion \/ ConfirmHandoff \/ ConfirmRoot \/ DropAckState \/ UNCHANGED vars
  PROVE  AckInv'
<1> USE DEF words, reports, owner, tracker
<1>1. pending' = pending /\ holder' = holder
  BY DEF DropCompletion, ConfirmHandoff, ConfirmRoot, DropAckState, vars
<1>2. IsCompletion(completion)
  BY DEF AckInv, Shape
<1>3. IsCompletion(completion') /\ (completion'.outcome = "Ack" => completion.outcome = "Ack")
  <2>1. CASE DropCompletion
    BY <1>2, <2>1 DEF DropCompletion, IsCompletion
  <2>2. CASE ConfirmHandoff
    BY <1>2, <2>2 DEF ConfirmHandoff, IsCompletion
  <2>3. CASE ConfirmRoot
    BY <1>2, <2>3 DEF ConfirmRoot, IsCompletion
  <2>4. CASE DropAckState
    BY <1>2, <2>4 DEF DropAckState, IsCompletion
  <2>5. CASE UNCHANGED vars
    BY <1>2, <2>5 DEF vars, IsCompletion
  <2> QED
    BY <2>1, <2>2, <2>3, <2>4, <2>5
<1>4. Shape'
  BY <1>1, <1>3, Zenon DEF AckInv, Shape, IsHolder, IsCompletion
<1>5. Fresh' /\ Owed' = Owed
  BY <1>1, Zenon DEF AckInv, Fresh, Owed
<1>6. Acknowledged' => Acknowledged
  BY <1>1, <1>3 DEF Acknowledged
<1> QED
  BY <1>1, <1>4, <1>5, <1>6, Frame

-----------------------------------------------------------------------------

\* Every step preserves the invariant.
LEMMA AckStep == AckInv /\ [Next]_vars => AckInv'
<1> SUFFICES ASSUME AckInv, [Next]_vars PROVE AckInv'
  OBVIOUS
<1>1. ASSUME NEW s \in Share, Works(s) PROVE AckInv'
  BY <1>1, PassingSteps, ChangingSteps, ReserveStep, FinishCompletionStep DEF Works
<1>2. ASSUME NEW s \in Share, Starts(s) PROVE AckInv'
  BY <1>2, PassingSteps, ChangingSteps, AttachStep, AckSuccessStep DEF Starts
<1> QED
  BY <1>1, <1>2, OwnerStep DEF Next

\* A root is acknowledged only when every task that ever owned a share of it
\* acknowledged its own, whatever the number of shares and however attachments, parks,
\* drops and refusals interleave with the acknowledgements.
THEOREM AcknowledgedMeansAll == Spec => []AckMeansAll
<1>1. AckInv => AckMeansAll
  <2> SUFFICES ASSUME AckInv, completion.outcome = "Ack", NEW s \in Share,
                      holder[s].pc # "absent"
               PROVE  holder[s].fate = "acked"
    BY DEF AckMeansAll
  <2>1. Owed = {}
    BY DEF AckInv, NothingOwed, Acknowledged
  <2> QED
    BY <2>1 DEF Owed
<1> QED
  BY <1>1, AckInit, AckStep, PTL DEF Spec

-----------------------------------------------------------------------------
(* What the counts count.                                                  *)

Bit(b) == IF b THEN 1 ELSE 0

\* The task's guard is dropping: its share is still parked.
Unparks(s) == holder[s].pc = "publish" /\ holder[s].receivers = {}

\* A task parks a share it works on, removes one it acknowledged, and works off the
\* end of the root only once it is resolved.
Consistent(s) ==
  /\ holder[s].guard \in BOOLEAN /\ holder[s].held \in BOOLEAN
  /\ holder[s].pc = "park" => holder[s].guard = FALSE /\ holder[s].fate = None
  /\ holder[s].pc = "remove" => holder[s].fate = "acked"
  /\ Unparks(s) => holder[s].guard = FALSE
  /\ holder[s].pc \in Resolving => pending = 0

\* What the owner of the root holds.
OwnerShape ==
  /\ active \in Nat \cup {None}
  /\ release \in {"AtResolution", "AfterConfirmation"}
  /\ completion.pc \in {"waiting", "untrack", "unroot", "dropped"}
  /\ completion.confirmation \in {None} \cup [handoff : BOOLEAN]
  /\ completion.pc \in {"untrack", "unroot"} => completion.confirmation # None
  /\ completion.pc = "untrack" => completion.confirmation = [handoff |-> TRUE]
  /\ completion.pc = "dropped" => completion.confirmation = None
  /\ release = "AtResolution" => completion.confirmation = None

\* The task that resolved the root closes the handoff word, then hands the owner what
\* is to be confirmed; the state drops after every task is done.
Ends ==
  /\ dropped => \A s \in Share : Gone(s)
  /\ pending = 0 => active = None \/ \E s \in Share : holder[s].pc = "complete"
  /\ release = "AfterConfirmation" /\ pending = 0 /\ completion.pc = "waiting" =>
       \/ completion.confirmation # None
       \/ \E s \in Share : holder[s].pc \in {"complete", "deliver"}

\* Who holds a unit of the handoff count: a task that reserved one or has still to
\* release one, the handoff word while shares are active, and a confirmation.
Token(s) ==
  \/ holder[s].pc \in {"reserve", "publish", "release", "idle", "untrack"}
  \/ holder[s].pc = "deliver" /\ holder[s].held = TRUE /\ release = "AfterConfirmation"
Tokens == {s \in Share : Token(s)}
WordHeld == active \notin {None, 0} /\ ~(dropped /\ pending # 0)
Confirming ==
  /\ completion.confirmation = [handoff |-> TRUE]
  /\ completion.pc \in {"waiting", "untrack"}
HandoffExact == handoff = Cardinality(Tokens) + Bit(WordHeld) + Bit(Confirming)

\* Who holds the root's unit: the state until it is resolved or dropped, the task that
\* resolved it, and the confirmation.
RootToken(s) ==
  \/ holder[s].pc \in {"complete", "untrack", "unroot"}
  \/ holder[s].pc = "deliver" /\ release = "AfterConfirmation"
Roots == {s \in Share : RootToken(s)}
Unresolved == pending # 0 /\ dropped = FALSE
Unconfirmed == completion.confirmation # None
RootExact ==
  /\ outstanding = Cardinality(Roots) + Bit(Unresolved) + Bit(Unconfirmed)
  /\ outstanding <= 1

\* The invariant of the tracker's counts, for local and registered shares.
Balance ==
  /\ dropped \in BOOLEAN
  /\ \A s \in Share : Consistent(s)
  /\ OwnerShape
  /\ Ends
  /\ HandoffExact
  /\ RootExact

\* A step of the task of `s` leaves the other tasks alone, but may hand shares to
\* receivers that had none.
Others(s) ==
  \A r \in Share \ {s} :
    holder'[r] = holder[r] \/ (holder[r].pc = "absent" /\ holder'[r] = Ready)

\* A set that a step changes at one share at most.
LEMMA OneChanged ==
  ASSUME NEW S, NEW T, NEW s, IsFiniteSet(S), IsFiniteSet(T), S \ {s} = T \ {s}
  PROVE  /\ Cardinality(S) \in Nat /\ Cardinality(T) \in Nat
         /\ Cardinality(T) = Cardinality(S) - Bit(s \in S) + Bit(s \in T)
<1>1. ASSUME NEW U, IsFiniteSet(U)
      PROVE  /\ Cardinality(U) \in Nat
             /\ s \in U => Cardinality(U \ {s}) = Cardinality(U) - 1
             /\ s \notin U => Cardinality(U \ {s}) = Cardinality(U)
  <2>1. Cardinality(U) \in Nat
    BY <1>1, FS_CardinalityType
  <2>2. CASE s \in U
    <3>1. Cardinality(U \ {s}) = Cardinality(U) - 1
      BY <1>1, <2>2, FS_RemoveElement
    <3> QED
      BY <2>1, <2>2, <3>1
  <2>3. CASE s \notin U
    <3>1. U \ {s} = U
      BY <2>3
    <3> QED
      BY <2>1, <2>3, <3>1
  <2> QED
    BY <2>1, <2>2, <2>3
<1>2. /\ Cardinality(S) \in Nat
      /\ s \in S => Cardinality(S \ {s}) = Cardinality(S) - 1
      /\ s \notin S => Cardinality(S \ {s}) = Cardinality(S)
  BY <1>1
<1>3. /\ Cardinality(T) \in Nat
      /\ s \in T => Cardinality(S \ {s}) = Cardinality(T) - 1
      /\ s \notin T => Cardinality(S \ {s}) = Cardinality(T)
  BY <1>1
<1> QED
  BY <1>2, <1>3 DEF Bit

\* Only the units the stepping task holds change.
LEMMA UnitsMove ==
  ASSUME NEW s \in Share, Others(s), release' = release
  PROVE  /\ Cardinality(Tokens) \in Nat /\ Cardinality(Roots) \in Nat
         /\ Cardinality(Tokens') \in Nat /\ Cardinality(Roots') \in Nat
         /\ Cardinality(Tokens') = Cardinality(Tokens) - Bit(Token(s)) + Bit(Token(s)')
         /\ Cardinality(Roots') = Cardinality(Roots) - Bit(RootToken(s)) + Bit(RootToken(s)')
<1>1. Ready.pc = "ready"
  BY ReadyRecord
<1>2. Tokens \in SUBSET Share /\ Roots \in SUBSET Share
      /\ Tokens' \in SUBSET Share /\ Roots' \in SUBSET Share
  BY DEF Tokens, Roots
<1>3. IsFiniteSet(Tokens) /\ IsFiniteSet(Roots) /\ IsFiniteSet(Tokens') /\ IsFiniteSet(Roots')
  BY <1>2, AckAssumption, FS_Subset
<1>4. ASSUME NEW r \in Share \ {s}
      PROVE  (Token(r)' <=> Token(r)) /\ (RootToken(r)' <=> RootToken(r))
  BY <1>1 DEF Others, Token, RootToken
<1>5. Tokens \ {s} = Tokens' \ {s} /\ Roots \ {s} = Roots' \ {s}
  BY <1>4 DEF Tokens, Roots
<1>6. /\ s \in Tokens <=> Token(s)
      /\ s \in Tokens' <=> Token(s)'
      /\ s \in Roots <=> RootToken(s)
      /\ s \in Roots' <=> RootToken(s)'
  BY DEF Tokens, Roots
<1>7. /\ Bit(s \in Tokens) = Bit(Token(s))
      /\ Bit(s \in Tokens') = Bit(Token(s)')
      /\ Bit(s \in Roots) = Bit(RootToken(s))
      /\ Bit(s \in Roots') = Bit(RootToken(s)')
  BY <1>6 DEF Bit
<1>8. /\ Cardinality(Tokens) \in Nat /\ Cardinality(Tokens') \in Nat
      /\ Cardinality(Tokens') = Cardinality(Tokens) - Bit(s \in Tokens) + Bit(s \in Tokens')
  BY <1>3, <1>5, OneChanged
<1>9. /\ Cardinality(Roots) \in Nat /\ Cardinality(Roots') \in Nat
      /\ Cardinality(Roots') = Cardinality(Roots) - Bit(s \in Roots) + Bit(s \in Roots')
  BY <1>3, <1>5, OneChanged
<1> QED
  BY <1>7, <1>8, <1>9

\* A step of one task preserves the balance if what it adds to a count is what it
\* takes on, itself or for the word or the confirmation.
LEMMA TaskStep ==
  ASSUME AckInv, Balance, NEW s \in Share, ~Gone(s), Others(s),
         dropped' = dropped, release' = release,
         Consistent(s)', OwnerShape', pending = 0 => pending' = 0,
         pending' = 0 => \/ active' = None \/ holder'[s].pc = "complete"
                         \/ pending = 0 /\ active # None /\ holder[s].pc # "complete",
         completion'.pc = "waiting" => completion.pc = "waiting",
         pending' = 0 /\ completion'.pc = "waiting" /\ release = "AfterConfirmation" =>
           \/ completion'.confirmation # None \/ holder'[s].pc \in {"complete", "deliver"}
           \/ /\ pending = 0 /\ completion'.confirmation = completion.confirmation
              /\ holder[s].pc \notin {"complete", "deliver"},
         handoff' = handoff - Bit(Token(s)) + Bit(Token(s)')
                    - Bit(WordHeld) + Bit(WordHeld') - Bit(Confirming) + Bit(Confirming'),
         outstanding' = outstanding - Bit(RootToken(s)) + Bit(RootToken(s)')
                        - Bit(Unresolved) + Bit(Unresolved')
                        - Bit(Unconfirmed) + Bit(Unconfirmed'),
         outstanding' <= outstanding
  PROVE  Balance'
<1>1. dropped = FALSE
  BY DEF Balance, Ends
<1>2. /\ Ready.pc = "ready" /\ Ready.guard = FALSE /\ Ready.held = FALSE
  BY DEF Ready, Task
<1>3. \A r \in Share : Consistent(r)'
  <2> SUFFICES ASSUME NEW r \in Share \ {s} PROVE Consistent(r)'
    OBVIOUS
  <2>1. CASE holder'[r] = holder[r]
    BY <2>1 DEF Balance, Consistent, Unparks
  <2>2. CASE holder'[r] = Ready
    BY <2>2, <1>2 DEF Consistent, Unparks, Resolving
  <2> QED
    BY <2>1, <2>2 DEF Others
<1>4. \A r \in Share \ {s} : holder[r].pc # "absent" => holder'[r] = holder[r]
  BY DEF Others
<1>5. pending' = 0 => active' = None \/ \E r \in Share : holder'[r].pc = "complete"
  <2> SUFFICES ASSUME pending' = 0, pending = 0, active # None, holder[s].pc # "complete"
               PROVE  \E r \in Share : holder'[r].pc = "complete"
    OBVIOUS
  <2>1. PICK r \in Share : holder[r].pc = "complete"
    BY DEF Balance, Ends
  <2> QED
    BY <2>1, <1>4
<1>6. release' = "AfterConfirmation" /\ pending' = 0 /\ completion'.pc = "waiting" =>
        \/ completion'.confirmation # None
        \/ \E r \in Share : holder'[r].pc \in {"complete", "deliver"}
  <2> SUFFICES ASSUME release = "AfterConfirmation", pending = 0, completion.pc = "waiting",
                      completion'.confirmation = None,
                      completion'.confirmation = completion.confirmation,
                      holder[s].pc \notin {"complete", "deliver"}
               PROVE  \E r \in Share : holder'[r].pc \in {"complete", "deliver"}
    OBVIOUS
  <2>1. PICK r \in Share : holder[r].pc \in {"complete", "deliver"}
    BY DEF Balance, Ends
  <2> QED
    BY <2>1, <1>4
<1>7. Ends'
  BY <1>1, <1>5, <1>6 DEF Ends
<1>8. HandoffExact' /\ RootExact'
  <2> DEFINE t == Bit(Token(s))
             u == Bit(Token(s)')
             v == Bit(RootToken(s))
             w == Bit(RootToken(s)')
             a == Bit(WordHeld)
             b == Bit(WordHeld')
             c == Bit(Confirming)
             d == Bit(Confirming')
             e == Bit(Unresolved)
             f == Bit(Unresolved')
             g == Bit(Unconfirmed)
             h == Bit(Unconfirmed')
  <2>1. /\ {t, u, v, w} \subseteq Int /\ {a, b, c, d} \subseteq Int
        /\ {e, f, g, h} \subseteq Int
    BY DEF Bit
  <2>2. /\ Cardinality(Tokens) \in Nat /\ Cardinality(Roots) \in Nat
        /\ Cardinality(Tokens') = Cardinality(Tokens) - t + u
        /\ Cardinality(Roots') = Cardinality(Roots) - v + w
    BY UnitsMove
  <2>3. /\ handoff = Cardinality(Tokens) + a + c
        /\ outstanding = Cardinality(Roots) + e + g /\ outstanding <= 1
    BY DEF Balance, HandoffExact, RootExact
  <2>4. /\ handoff' = handoff - t + u - a + b - c + d
        /\ outstanding' = outstanding - v + w - e + f - g + h
        /\ outstanding' <= outstanding
    OBVIOUS
  <2>5. HandoffExact' <=> handoff' = Cardinality(Tokens') + b + d
    BY DEF HandoffExact
  <2>6. RootExact' <=> outstanding' = Cardinality(Roots') + f + h /\ outstanding' <= 1
    BY DEF RootExact
  <2> HIDE DEF t, u, v, w, a, b, c, d, e, f, g, h
  <2> QED
    BY <2>1, <2>2, <2>3, <2>4, <2>5, <2>6
<1> QED
  BY <1>1, <1>3, <1>7, <1>8 DEF Balance

\* A step inside an operation, away from the root's end.
LEMMA PlainStep ==
  ASSUME AckInv, Balance, NEW s \in Share, ~Gone(s), Others(s),
         completion' = completion, dropped' = dropped, release' = release,
         outstanding' = outstanding,
         holder[s].pc \notin Resolving, holder'[s].pc \notin Resolving, Consistent(s)',
         pending = 0 <=> pending' = 0,
         active' \in Nat \cup {None}, active = None <=> active' = None,
         handoff' = handoff - Bit(Token(s)) + Bit(Token(s)')
                    - Bit(active \notin {None, 0}) + Bit(active' \notin {None, 0})
  PROVE  Balance'
<1>1. dropped = FALSE
  BY DEF Balance, Ends
<1>2. OwnerShape'
  BY DEF Balance, OwnerShape
<1>3. /\ Bit(Confirming') = Bit(Confirming) /\ Bit(Unconfirmed') = Bit(Unconfirmed)
      /\ Bit(Unresolved') = Bit(Unresolved)
  BY DEF Bit, Confirming, Unconfirmed, Unresolved
<1>4. /\ Bit(RootToken(s)) = 0 /\ Bit(RootToken(s)') = 0
  BY DEF Bit, RootToken, Resolving
<1>5. /\ Bit(WordHeld) = Bit(active \notin {None, 0})
      /\ Bit(WordHeld') = Bit(active' \notin {None, 0})
  BY <1>1 DEF Bit, WordHeld
<1>6. Bit(Confirming) \in Int /\ Bit(Unconfirmed) \in Int /\ Bit(Unresolved) \in Int
  BY DEF Bit
<1>7. Cardinality(Tokens) \in Nat /\ Cardinality(Roots) \in Nat
  BY UnitsMove
<1>8. handoff \in Int /\ outstanding \in Int
  BY <1>6, <1>7 DEF Bit, Balance, HandoffExact, RootExact
<1>9. handoff' = handoff - Bit(Token(s)) + Bit(Token(s)')
                 - Bit(WordHeld) + Bit(WordHeld') - Bit(Confirming) + Bit(Confirming')
  <2>1. handoff' \in Int
    BY <1>8 DEF Bit
  <2>2. /\ Bit(Token(s)) \in Int /\ Bit(Token(s)') \in Int
        /\ Bit(active \notin {None, 0}) \in Int /\ Bit(active' \notin {None, 0}) \in Int
    BY DEF Bit
  <2> QED
    BY <1>3, <1>5, <1>6, <1>8, <2>1, <2>2
<1>10. /\ outstanding' = outstanding - Bit(RootToken(s)) + Bit(RootToken(s)')
                        - Bit(Unresolved) + Bit(Unresolved')
                        - Bit(Unconfirmed) + Bit(Unconfirmed')
       /\ outstanding' <= outstanding
  BY <1>3, <1>4, <1>6, <1>8
<1>11. pending' = 0 => \/ active' = None \/ holder'[s].pc = "complete"
                       \/ pending = 0 /\ active # None /\ holder[s].pc # "complete"
  BY DEF Resolving
<1>12. pending' = 0 /\ completion'.pc = "waiting" /\ release = "AfterConfirmation" =>
         \/ completion'.confirmation # None \/ holder'[s].pc \in {"complete", "deliver"}
         \/ /\ pending = 0 /\ completion'.confirmation = completion.confirmation
            /\ holder[s].pc \notin {"complete", "deliver"}
  BY DEF Resolving
<1> QED
  BY <1>2, <1>9, <1>10, <1>11, <1>12, TaskStep

\* The tasks of the other shares do not change.
Alone(s) == \A r \in Share \ {s} : holder'[r] = holder[r]

\* What a task becomes: the fields the counts depend on.
Becomes(s, pc, guard, fate, receivers, held) ==
  /\ holder'[s].pc = pc /\ holder'[s].guard = guard /\ holder'[s].fate = fate
  /\ holder'[s].receivers = receivers /\ holder'[s].held = held

\* A task goes on to another step.
LEMMA GotoEffect ==
  ASSUME AckInv, NEW s \in Share, NEW pc, Goto(s, pc)
  PROVE  /\ Alone(s) /\ Others(s)
         /\ Becomes(s, pc, holder[s].guard, holder[s].fate, holder[s].receivers, holder[s].held)
<1>1. holder = [r \in Share |-> holder[r]] /\ IsHolder(holder[s])
  BY DEF AckInv, Shape
<1>2. holder'[s] = [holder[s] EXCEPT !.pc = pc] /\ Alone(s)
  BY <1>1 DEF Goto, Alone
<1> QED
  BY <1>1, <1>2 DEF IsHolder, Becomes, Others, Alone

\* An operation returns.
LEMMA ReturnEffect ==
  ASSUME AckInv, NEW s \in Share, Return(s), holder[s].pc # "absent"
  PROVE  /\ Others(s)
         /\ Becomes(s, "ready", holder[s].guard, holder[s].fate, {}, FALSE)
         /\ \A r \in holder[s].receivers : r \in Share \ {s} /\ holder'[r] = Ready
         /\ \A r \in Share \ {s} : r \notin holder[s].receivers => holder'[r] = holder[r]
<1>1. IsHolder(holder[s])
  BY DEF AckInv, Shape
<1>2. \A r \in holder[s].receivers : r \in Share \ {s} /\ holder[r].pc = "absent"
  BY DEF AckInv, Shape, Fresh
<1>3. /\ holder'[s] = [holder[s] EXCEPT !.pc = "ready", !.receivers = {}, !.seen = None,
                                        !.held = FALSE]
      /\ \A r \in holder[s].receivers : holder'[r] = Ready
      /\ \A r \in Share \ {s} : r \notin holder[s].receivers => holder'[r] = holder[r]
  BY <1>2 DEF Return, Returned
<1>4. Becomes(s, "ready", holder[s].guard, holder[s].fate, {}, FALSE)
  BY <1>1, <1>3 DEF IsHolder, Becomes
<1> QED
  BY <1>2, <1>3, <1>4 DEF Others

\* The handoff and root counts are integers, being counts of finite sets of tasks.
LEMMA UnitSum ==
  ASSUME AckInv, Balance
  PROVE  handoff \in Int /\ outstanding \in Int
<1>1. Tokens \in SUBSET Share /\ Roots \in SUBSET Share
  BY DEF Tokens, Roots
<1>2. Cardinality(Tokens) \in Nat /\ Cardinality(Roots) \in Nat
  BY <1>1, AckAssumption, FS_Subset, FS_CardinalityType
<1> QED
  BY <1>2 DEF Balance, HandoffExact, RootExact, Bit

\* A reservation resolves nothing.
LEMMA ReserveKeepsUnresolved ==
  ASSUME AckInv, NEW s \in Share, ReservePendingShares(s)
  PROVE  pending = 0 <=> pending' = 0
<1>1. holder[s].receivers \in SUBSET Share /\ holder[s].receivers # {}
  BY DEF AckInv, Shape, ReservePendingShares
<1>2. Cardinality(holder[s].receivers) \in Nat
  BY <1>1, AckAssumption, FS_Subset, FS_CardinalityType
<1>3. /\ pending \in Nat
      /\ pending # 0 => pending' = pending + Cardinality(holder[s].receivers)
      /\ pending = 0 => pending' = pending
  BY <1>1 DEF ReservePendingShares, IsResolved, Published, AckInv, Shape
<1> QED
  BY <1>2, <1>3

\* Steps that neither change a word nor a count, and the reservation of a count.
LEMMA QuietSteps ==
  ASSUME AckInv, Balance, NEW s \in Share,
         \/ ReservePendingShares(s) \/ Park(s) \/ AckAlive(s) \/ DrawSequence(s)
         \/ ObservePending(s) \/ ObserveActive(s) \/ SendProgress(s) \/ DropHandle(s)
         \/ \E receivers \in SUBSET Share : Attach(s, receivers)
         \/ Unpark(s) \/ ReleaseReservation(s) \/ ReleaseIdle(s)
  PROVE  Balance'
<1> USE DEF words, reports, owner, tracker, Resolving
<1>1. /\ completion' = completion /\ dropped' = dropped /\ release' = release
      /\ outstanding' = outstanding /\ active' = active
  BY DEF ReservePendingShares, Park, AckAlive, DrawSequence, ObservePending, ObserveActive,
         SendProgress, DropHandle, Attach, Unpark, ReleaseReservation, ReleaseIdle
<1>2. /\ active \in Nat \cup {None} /\ Consistent(s) /\ IsHolder(holder[s])
      /\ holder = [r \in Share |-> holder[r]]
      /\ holder[s].receivers # {} => holder[s].fate = None
      /\ holder[s].pc \notin Attaching => holder[s].receivers = {}
      /\ holder[s].pc = "reserve" => holder[s].receivers # {}
      /\ handoff \in Int
  BY UnitSum DEF AckInv, Shape, Balance, OwnerShape
<1>3. pending = 0 <=> pending' = 0
  BY ReserveKeepsUnresolved DEF ReservePendingShares, Park, AckAlive, DrawSequence,
     ObservePending, ObserveActive, SendProgress, DropHandle, Attach, Unpark,
     ReleaseReservation, ReleaseIdle
<1>4. SUFFICES /\ ~Gone(s) /\ Others(s)
               /\ holder[s].pc \notin Resolving /\ holder'[s].pc \notin Resolving
               /\ Consistent(s)'
               /\ handoff' = handoff - Bit(Token(s)) + Bit(Token(s)')
  <2>1. Bit(active \notin {None, 0}) \in Int /\ Bit(Token(s)) \in Int /\ Bit(Token(s)') \in Int
    BY DEF Bit
  <2>2. handoff' = handoff - Bit(Token(s)) + Bit(Token(s)')
                   - Bit(active \notin {None, 0}) + Bit(active' \notin {None, 0})
    BY <1>1, <1>2, <1>4, <2>1
  <2> QED
    BY <1>1, <1>2, <1>3, <1>4, <2>2, PlainStep
<1>5. CASE ReservePendingShares(s)
  <2>1. /\ holder[s].pc = "reserve" /\ handoff' = handoff
        /\ \E pc \in {"release", "publish"} : Goto(s, pc)
    BY <1>5 DEF ReservePendingShares
  <2>2. PICK pc \in {"release", "publish"} : Goto(s, pc)
    BY <2>1
  <2>3. /\ Others(s)
        /\ Becomes(s, pc, holder[s].guard, holder[s].fate, holder[s].receivers, holder[s].held)
    BY <2>2, GotoEffect
  <2> QED
    BY <2>1, <2>3, <1>2 DEF Becomes, Gone, Consistent, Unparks, Token, Bit
<1>6. CASE Park(s) \/ AckAlive(s)
  <2>1. /\ holder[s].pc = "ready" /\ holder[s].fate = None /\ handoff' = handoff
        /\ \/ Goto(s, "sequence")
           \/ Goto(s, "park") /\ ~holder[s].guard
    BY <1>6 DEF Park, AckAlive, Owns
  <2>2. PICK pc \in {"park", "sequence"} : Goto(s, pc) /\ (pc = "park" => ~holder[s].guard)
    BY <2>1
  <2>3. /\ Others(s)
        /\ Becomes(s, pc, holder[s].guard, holder[s].fate, holder[s].receivers, holder[s].held)
    BY <2>2, GotoEffect
  <2> QED
    BY <2>1, <2>2, <2>3, <1>2 DEF Becomes, Gone, Consistent, Unparks, Token, Bit
<1>7. CASE DrawSequence(s) \/ ObservePending(s) \/ ObserveActive(s)
  <2>1. /\ holder[s].pc \in {"sequence", "observe", "observeActive"} /\ handoff' = handoff
        /\ \E pc \in {"observe", "observeActive", "send"} : \E seen :
             holder' = [holder EXCEPT ![s].pc = pc, ![s].seen = seen]
    <3>1. CASE DrawSequence(s)
      BY <3>1 DEF DrawSequence
    <3>2. CASE ObservePending(s)
      BY <3>2 DEF ObservePending
    <3>3. CASE ObserveActive(s)
      BY <3>3 DEF ObserveActive
    <3> QED
      BY <1>7, <3>1, <3>2, <3>3
  <2>2. PICK pc \in {"observe", "observeActive", "send"} : \E seen :
          holder' = [holder EXCEPT ![s].pc = pc, ![s].seen = seen]
    BY <2>1
  <2>3. PICK seen : holder' = [holder EXCEPT ![s].pc = pc, ![s].seen = seen]
    BY <2>2
  <2>4. holder'[s] = [holder[s] EXCEPT !.pc = pc, !.seen = seen] /\ Others(s)
    BY <1>2, <2>3 DEF Others
  <2>5. Becomes(s, pc, holder[s].guard, holder[s].fate, holder[s].receivers, holder[s].held)
    BY <1>2, <2>4 DEF IsHolder, Becomes
  <2> QED
    BY <2>1, <2>4, <2>5, <1>2 DEF Becomes, Gone, Consistent, Unparks, Token, Bit
<1>8. CASE SendProgress(s) \/ ReleaseReservation(s)
  <2>1. /\ holder[s].pc \in {"send", "release"} /\ Return(s)
        /\ handoff' = IF holder[s].pc = "send" THEN handoff ELSE handoff - 1
    BY <1>8 DEF SendProgress, ReleaseReservation
  <2>2. /\ Others(s)
        /\ Becomes(s, "ready", holder[s].guard, holder[s].fate, {}, FALSE)
    BY <2>1, ReturnEffect
  <2>3. Bit(Token(s)) = (IF holder[s].pc = "send" THEN 0 ELSE 1) /\ Bit(Token(s)') = 0
    BY <2>1, <2>2 DEF Becomes, Token, Bit
  <2>4. handoff' = handoff - Bit(Token(s)) + Bit(Token(s)')
    BY <2>1, <2>3, <1>2
  <2> QED
    BY <2>1, <2>2, <2>4, <1>2 DEF Becomes, Gone, Consistent, Unparks
<1>9. CASE DropHandle(s)
  <2>1. /\ holder[s].pc = "ready" /\ holder[s].fate = None /\ handoff' = handoff
        /\ holder'[s] = [holder[s] EXCEPT !.fate = "dropped"] /\ Others(s)
    BY <1>2, <1>9 DEF DropHandle, Owns, Others
  <2>2. Becomes(s, "ready", holder[s].guard, "dropped", holder[s].receivers, holder[s].held)
    BY <1>2, <2>1 DEF IsHolder, Becomes
  <2> QED
    BY <2>1, <2>2, <1>2 DEF Becomes, Gone, Consistent, Unparks, Token, Bit
<1>10. CASE \E receivers \in SUBSET Share : Attach(s, receivers)
  <2>1. PICK receivers \in SUBSET Share : Attach(s, receivers)
    BY <1>10
  <2>2. /\ holder[s].pc = "ready" /\ holder[s].fate = None /\ handoff' = handoff + 1
        /\ holder'[s] = [holder[s] EXCEPT !.pc = "reserve", !.receivers = receivers]
        /\ Others(s)
    BY <1>2, <2>1 DEF Attach, Owns, Others
  <2>3. Becomes(s, "reserve", holder[s].guard, holder[s].fate, receivers, holder[s].held)
    BY <1>2, <2>2 DEF IsHolder, Becomes
  <2> QED
    BY <2>2, <2>3, <1>2 DEF Becomes, Gone, Consistent, Unparks, Token, Bit
<1>11. CASE Unpark(s)
  <2>1. /\ holder[s].pc = "ready" /\ holder[s].guard /\ handoff' = handoff + 1
        /\ holder'[s] = [holder[s] EXCEPT !.pc = "publish", !.guard = FALSE] /\ Others(s)
    BY <1>2, <1>11 DEF Unpark, Others
  <2>2. Becomes(s, "publish", FALSE, holder[s].fate, holder[s].receivers, holder[s].held)
    BY <1>2, <2>1 DEF IsHolder, Becomes
  <2> QED
    BY <2>1, <2>2, <1>2 DEF Becomes, Gone, Consistent, Unparks, Token, Bit
<1>12. CASE ReleaseIdle(s)
  <2>1. holder[s].pc = "idle" /\ Goto(s, "sequence") /\ handoff' = handoff - 1
    BY <1>12 DEF ReleaseIdle
  <2>2. /\ Others(s)
        /\ Becomes(s, "sequence", holder[s].guard, holder[s].fate, holder[s].receivers,
                   holder[s].held)
    BY <2>1, GotoEffect
  <2> QED
    BY <2>1, <2>2, <1>2 DEF Becomes, Gone, Consistent, Unparks, Token, Bit
<1> QED
  BY <1>5, <1>6, <1>7, <1>8, <1>9, <1>10, <1>11, <1>12

\* Shares that are published make the word active, or join what it holds; the last one
\* removed leaves its unit to the task that removed it.
LEMMA WordSteps ==
  ASSUME AckInv, Balance, NEW s \in Share, PublishShares(s) \/ RemoveShare(s)
  PROVE  Balance'
<1> USE DEF words, reports, owner, tracker, Resolving
<1>1. /\ completion' = completion /\ dropped' = dropped /\ release' = release
      /\ outstanding' = outstanding /\ handoff' = handoff /\ pending' = pending
  BY DEF PublishShares, RemoveShare
<1>2. /\ active \in Nat \cup {None} /\ Consistent(s) /\ IsHolder(holder[s])
      /\ holder = [r \in Share |-> holder[r]]
      /\ holder[s].pc \notin Attaching => holder[s].receivers = {}
      /\ handoff \in Int
  BY UnitSum DEF AckInv, Shape, Balance, OwnerShape
<1>3. CASE PublishShares(s)
  <2>1. holder[s].pc = "publish"
    BY <1>3 DEF PublishShares
  <2>2. Published(s) \in Nat \ {0}
    <3>1. holder[s].receivers \in SUBSET Share
      BY DEF AckInv, Shape
    <3>2. IsFiniteSet(holder[s].receivers) /\ Cardinality(holder[s].receivers) \in Nat
      BY <3>1, AckAssumption, FS_Subset, FS_CardinalityType
    <3> QED
      BY <3>2, FS_EmptySet DEF Published
  <2>3. PICK pc \in {"release", "sequence"} :
          /\ Goto(s, pc)
          /\ active = None => active' = None /\ pc = "release"
          /\ active # None => /\ active' = active + Published(s)
                              /\ pc = IF active = 0 THEN "sequence" ELSE "release"
    BY <1>3, AckAssumption DEF PublishShares
  <2>4. /\ Others(s)
        /\ Becomes(s, pc, holder[s].guard, holder[s].fate, holder[s].receivers, holder[s].held)
    BY <2>3, GotoEffect
  <2>5. active' \in Nat \cup {None} /\ (active = None <=> active' = None)
    BY <1>2, <2>2, <2>3, AckAssumption
  <2>6. handoff' = handoff - Bit(Token(s)) + Bit(Token(s)')
                   - Bit(active \notin {None, 0}) + Bit(active' \notin {None, 0})
    <3>1. Bit(Token(s)) = 1 /\ Bit(Token(s)') = IF pc = "release" THEN 1 ELSE 0
      BY <2>1, <2>3, <2>4 DEF Becomes, Token, Bit
    <3>2. CASE active = None
      BY <1>1, <1>2, <2>3, <3>1, <3>2 DEF Bit
    <3>3. CASE active # None
      <4>1. active' \notin {None, 0}
        BY <1>2, <2>2, <2>3, <3>3, AckAssumption
      <4> QED
        BY <1>1, <1>2, <2>3, <3>1, <3>3, <4>1 DEF Bit
    <3> QED
      BY <3>2, <3>3
  <2>7. ~Gone(s) /\ Consistent(s)' /\ holder'[s].pc \notin Resolving
        /\ holder[s].pc \notin Resolving
    BY <1>2, <2>1, <2>4 DEF Becomes, Gone, Consistent, Unparks
  <2> QED
    BY <1>1, <2>4, <2>5, <2>6, <2>7, PlainStep
<1>4. CASE RemoveShare(s)
  <2>1. holder[s].pc \in {"park", "remove"}
    BY <1>4 DEF RemoveShare
  <2>2. CASE active \in {None, 0}
    <3>1. Return(s) /\ active' = active
      BY <1>4, <2>2 DEF RemoveShare
    <3>2. /\ Others(s)
          /\ Becomes(s, "ready", holder[s].guard, holder[s].fate, {}, FALSE)
      BY <2>1, <3>1, ReturnEffect
    <3>3. handoff' = handoff - Bit(Token(s)) + Bit(Token(s)')
                     - Bit(active \notin {None, 0}) + Bit(active' \notin {None, 0})
      BY <1>1, <1>2, <2>1, <2>2, <3>1, <3>2 DEF Becomes, Token, Bit
    <3>4. ~Gone(s) /\ Consistent(s)' /\ holder'[s].pc \notin Resolving
          /\ holder[s].pc \notin Resolving
      BY <1>2, <2>1, <3>2 DEF Becomes, Gone, Consistent, Unparks
    <3> QED
      BY <1>1, <1>2, <3>1, <3>2, <3>3, <3>4, PlainStep
  <2>3. CASE active \notin {None, 0}
    <3> DEFINE pc == IF active = 1 THEN "idle" ELSE "ready"
               guard == holder[s].guard \/ holder[s].pc = "park"
    <3>1. /\ active' = active - 1
          /\ holder' = [holder EXCEPT ![s].pc = pc, ![s].guard = guard]
      BY <1>4, <2>3, Zenon DEF RemoveShare
    <3>2. pc \in {"idle", "ready"} /\ guard \in BOOLEAN /\ (pc = "idle" <=> active = 1)
      OBVIOUS
    <3> HIDE DEF pc, guard
    <3>3. holder'[s] = [holder[s] EXCEPT !.pc = pc, !.guard = guard] /\ Others(s)
      BY <1>2, <3>1 DEF Others
    <3>4. Becomes(s, pc, guard, holder[s].fate, holder[s].receivers, holder[s].held)
      BY <1>2, <3>3 DEF IsHolder, Becomes
    <3>5. active' \in Nat /\ active # None /\ active' # None
      BY <1>2, <2>3, <3>1, AckAssumption
    <3>6. handoff' = handoff - Bit(Token(s)) + Bit(Token(s)')
                     - Bit(active \notin {None, 0}) + Bit(active' \notin {None, 0})
      BY <1>1, <1>2, <2>1, <2>3, <3>1, <3>2, <3>4, <3>5 DEF Becomes, Token, Bit
    <3>7. ~Gone(s) /\ Consistent(s)' /\ holder'[s].pc \notin Resolving
          /\ holder[s].pc \notin Resolving
      BY <1>2, <2>1, <3>2, <3>4 DEF Becomes, Gone, Consistent, Unparks
    <3> QED
      BY <1>1, <3>3, <3>5, <3>6, <3>7, PlainStep
  <2> QED
    BY <2>2, <2>3
<1> QED
  BY <1>3, <1>4

\* The share that resolves the root takes over the state's unit of it.
LEMMA SettleSteps ==
  ASSUME AckInv, Balance, NEW s \in Share, AckSuccess(s) \/ NoAck(s)
  PROVE  Balance'
<1> USE DEF words, reports, owner, tracker, Resolving
<1>1. /\ completion' = completion /\ dropped' = dropped /\ release' = release
      /\ outstanding' = outstanding /\ handoff' = handoff /\ active' = active
      /\ holder[s].pc = "ready" /\ holder[s].fate = None
  BY DEF AckSuccess, NoAck, Settles, Owns
<1>2. /\ active \in Nat \cup {None} /\ Consistent(s) /\ IsHolder(holder[s])
      /\ holder = [r \in Share |-> holder[r]] /\ pending \in Nat
      /\ holder[s].receivers = {}
      /\ handoff \in Int /\ outstanding \in Int
  BY <1>1, UnitSum DEF AckInv, Shape, Balance, OwnerShape, Attaching
<1>3. ~Gone(s) /\ dropped = FALSE
  BY <1>1 DEF Gone, Balance, Ends
<1>4. PICK pc \in {"ready", "complete", "remove"}, fate \in {"acked", "refused"} :
        /\ holder' = [holder EXCEPT ![s].fate = fate, ![s].pc = pc]
        /\ pending' \in Nat
        /\ pending = 0 => pending' = 0 /\ pc = "ready"
        /\ pending # 0 => (pending' = 0 <=> pc = "complete") /\ pc # "ready"
        /\ pc = "remove" => fate = "acked"
  <2>1. CASE AckSuccess(s)
    <3> DEFINE pc == CASE pending = 0 -> "ready"
                       [] pending = 1 -> "complete"
                       [] OTHER       -> "remove"
    <3>1. /\ holder' = [holder EXCEPT ![s].fate = "acked", ![s].pc = pc]
          /\ pending' = IF pending = 0 THEN 0 ELSE pending - 1
      BY <2>1 DEF AckSuccess, IsResolved
    <3>2. /\ pc \in {"ready", "complete", "remove"}
          /\ pending = 0 => pc = "ready"
          /\ pending # 0 => (pc = "complete" <=> pending = 1) /\ pc # "ready"
      OBVIOUS
    <3> HIDE DEF pc
    <3>3. /\ pending' \in Nat
          /\ pending = 0 => pending' = 0
          /\ pending # 0 => (pending' = 0 <=> pending = 1)
      BY <1>2, <3>1
    <3> QED
      BY <3>1, <3>2, <3>3, Zenon
  <2>2. CASE NoAck(s)
    <3> DEFINE pc == IF pending = 0 THEN "ready" ELSE "complete"
    <3>1. /\ holder' = [holder EXCEPT ![s].fate = "refused", ![s].pc = pc]
          /\ pending' = 0
      BY <2>2 DEF NoAck, IsResolved
    <3>2. /\ pc \in {"ready", "complete"} /\ (pending = 0 <=> pc = "ready")
      OBVIOUS
    <3> HIDE DEF pc
    <3> QED
      BY <1>2, <3>1, <3>2
  <2> QED
    BY <2>1, <2>2
<1>5. holder'[s] = [holder[s] EXCEPT !.fate = fate, !.pc = pc] /\ Others(s)
  BY <1>2, <1>4 DEF Others
<1>6. Becomes(s, pc, holder[s].guard, fate, {}, holder[s].held)
  BY <1>2, <1>5 DEF IsHolder, Becomes
<1>7. Consistent(s)' /\ OwnerShape'
  <2>1. Consistent(s)'
    BY <1>2, <1>4, <1>6 DEF Becomes, Consistent, Unparks
  <2> QED
    BY <2>1, <1>1 DEF Balance, OwnerShape
<1>8. /\ Bit(Confirming') = Bit(Confirming) /\ Bit(Unconfirmed') = Bit(Unconfirmed)
      /\ Bit(WordHeld') = Bit(WordHeld)
      /\ Bit(Token(s)) = 0 /\ Bit(Token(s)') = 0
      /\ Bit(RootToken(s)) = 0
      /\ Bit(RootToken(s)') + Bit(Unresolved') = Bit(Unresolved)
  BY <1>1, <1>3, <1>4, <1>6
     DEF Becomes, Bit, Confirming, Unconfirmed, WordHeld, Token, RootToken, Unresolved
<1>9. /\ Bit(Confirming) \in Int /\ Bit(Unconfirmed) \in Int /\ Bit(WordHeld) \in Int
      /\ Bit(RootToken(s)') \in Int /\ Bit(Unresolved') \in Int /\ Bit(Unresolved) \in Int
  BY DEF Bit
<1>10. /\ handoff' = handoff - Bit(Token(s)) + Bit(Token(s)')
                     - Bit(WordHeld) + Bit(WordHeld') - Bit(Confirming) + Bit(Confirming')
       /\ outstanding' = outstanding - Bit(RootToken(s)) + Bit(RootToken(s)')
                         - Bit(Unresolved) + Bit(Unresolved')
                         - Bit(Unconfirmed) + Bit(Unconfirmed')
       /\ outstanding' <= outstanding
  BY <1>1, <1>2, <1>8, <1>9
<1>11. pending' = 0 => \/ active' = None \/ holder'[s].pc = "complete"
                       \/ pending = 0 /\ active # None /\ holder[s].pc # "complete"
  BY <1>1, <1>4, <1>6 DEF Becomes
<1>12. pending' = 0 /\ completion'.pc = "waiting" /\ release = "AfterConfirmation" =>
         \/ completion'.confirmation # None \/ holder'[s].pc \in {"complete", "deliver"}
         \/ /\ pending = 0 /\ completion'.confirmation = completion.confirmation
            /\ holder[s].pc \notin {"complete", "deliver"}
  BY <1>1, <1>4, <1>6 DEF Becomes
<1> QED
  BY <1>1, <1>3, <1>4, <1>5, <1>7, <1>10, <1>11, <1>12, TaskStep

\* The root ends: the word's unit and the root's are handed on, or released.
LEMMA EndSteps ==
  ASSUME AckInv, Balance, NEW s \in Share,
         Complete(s) \/ ReleaseHandoff(s) \/ ReleaseRoot(s) \/ FinishCompletion(s)
  PROVE  Balance'
<1> USE DEF words, reports, owner, tracker, Resolving
<1>1. /\ pending' = pending /\ dropped' = dropped /\ release' = release
      /\ holder[s].pc \in Resolving
  BY DEF Complete, ReleaseHandoff, ReleaseRoot, FinishCompletion
<1>2. /\ active \in Nat \cup {None} /\ Consistent(s) /\ IsHolder(holder[s])
      /\ holder = [r \in Share |-> holder[r]] /\ pending = 0
      /\ holder[s].receivers = {} /\ OwnerShape
      /\ handoff \in Int /\ outstanding \in Int
  BY <1>1, UnitSum DEF AckInv, Shape, Balance, OwnerShape, Attaching, Consistent
<1>3. ~Gone(s) /\ dropped = FALSE
  BY <1>1 DEF Gone, Balance, Ends
<1>4. Bit(Unresolved) = 0 /\ Bit(Unresolved') = 0
  BY <1>1, <1>2 DEF Bit, Unresolved
<1>5. /\ Bit(Confirming) \in Int /\ Bit(Unconfirmed) \in Int /\ Bit(WordHeld) \in Int
      /\ Bit(Confirming') \in Int /\ Bit(Unconfirmed') \in Int /\ Bit(WordHeld') \in Int
      /\ Bit(RootToken(s)) \in Int /\ Bit(RootToken(s)') \in Int
      /\ Bit(Token(s)) \in Int /\ Bit(Token(s)') \in Int
  BY DEF Bit
<1>6. CASE Complete(s)
  <2> DEFINE pc == IF release = "AfterConfirmation" THEN "deliver"
                   ELSE IF active \notin {None, 0} THEN "untrack" ELSE "unroot"
             held == active \notin {None, 0}
  <2>1. /\ holder[s].pc = "complete" /\ active' = None /\ completion' = completion
        /\ handoff' = handoff /\ outstanding' = outstanding
    BY <1>6 DEF Complete
  <2>2. holder' = [holder EXCEPT ![s].held = held, ![s].pc = pc]
    BY <1>6, Zenon DEF Complete
  <2>3. /\ held \in BOOLEAN /\ (held = TRUE <=> active \notin {None, 0})
        /\ release = "AfterConfirmation" => pc = "deliver"
        /\ release # "AfterConfirmation" =>
             pc = IF active \notin {None, 0} THEN "untrack" ELSE "unroot"
    OBVIOUS
  <2> HIDE DEF pc, held
  <2>4. holder'[s] = [holder[s] EXCEPT !.held = held, !.pc = pc] /\ Others(s)
    BY <1>2, <2>2 DEF Others
  <2>5. Becomes(s, pc, holder[s].guard, holder[s].fate, {}, held)
    BY <1>2, <2>4 DEF IsHolder, Becomes
  <2>6. Consistent(s)' /\ OwnerShape'
    <3>1. Consistent(s)'
      BY <1>1, <1>2, <2>3, <2>5 DEF Becomes, Consistent, Unparks
    <3> QED
      BY <3>1, <1>1, <1>2, <2>1 DEF OwnerShape
  <2>7. /\ Bit(Confirming') = Bit(Confirming) /\ Bit(Unconfirmed') = Bit(Unconfirmed)
        /\ Bit(RootToken(s)) = 1 /\ Bit(RootToken(s)') = 1
        /\ Bit(Token(s)) = 0 /\ Bit(WordHeld') = 0 /\ Bit(Token(s)') = Bit(WordHeld)
    BY <1>1, <1>2, <1>3, <2>1, <2>3, <2>5
       DEF Becomes, Bit, Confirming, Unconfirmed, WordHeld, Token, RootToken
  <2>8. /\ handoff' = handoff - Bit(Token(s)) + Bit(Token(s)')
                      - Bit(WordHeld) + Bit(WordHeld') - Bit(Confirming) + Bit(Confirming')
        /\ outstanding' = outstanding - Bit(RootToken(s)) + Bit(RootToken(s)')
                          - Bit(Unresolved) + Bit(Unresolved')
                          - Bit(Unconfirmed) + Bit(Unconfirmed')
        /\ outstanding' <= outstanding
    BY <1>2, <1>4, <1>5, <2>1, <2>7
  <2>9. release = "AfterConfirmation" => holder'[s].pc \in {"complete", "deliver"}
    BY <2>3, <2>5 DEF Becomes
  <2> QED
    BY <1>1, <1>2, <1>3, <2>1, <2>4, <2>6, <2>8, <2>9, TaskStep
<1>7. CASE ReleaseHandoff(s)
  <2>1. /\ holder[s].pc = "untrack" /\ active' = active /\ completion' = completion
        /\ handoff' = handoff - 1 /\ outstanding' = outstanding /\ Goto(s, "unroot")
    BY <1>7 DEF ReleaseHandoff
  <2>2. /\ Others(s)
        /\ Becomes(s, "unroot", holder[s].guard, holder[s].fate, holder[s].receivers,
                   holder[s].held)
    BY <2>1, GotoEffect
  <2>3. Consistent(s)' /\ OwnerShape'
    <3>1. Consistent(s)'
      BY <1>1, <1>2, <2>1, <2>2 DEF Becomes, Consistent, Unparks
    <3> QED
      BY <3>1, <1>1, <1>2, <2>1 DEF OwnerShape
  <2>4. /\ Bit(Confirming') = Bit(Confirming) /\ Bit(Unconfirmed') = Bit(Unconfirmed)
        /\ Bit(WordHeld') = Bit(WordHeld)
        /\ Bit(RootToken(s)) = 1 /\ Bit(RootToken(s)') = 1
        /\ Bit(Token(s)) = 1 /\ Bit(Token(s)') = 0
    BY <1>1, <2>1, <2>2
       DEF Becomes, Bit, Confirming, Unconfirmed, WordHeld, Token, RootToken
  <2>5. /\ handoff' = handoff - Bit(Token(s)) + Bit(Token(s)')
                      - Bit(WordHeld) + Bit(WordHeld') - Bit(Confirming) + Bit(Confirming')
        /\ outstanding' = outstanding - Bit(RootToken(s)) + Bit(RootToken(s)')
                          - Bit(Unresolved) + Bit(Unresolved')
                          - Bit(Unconfirmed) + Bit(Unconfirmed')
        /\ outstanding' <= outstanding
    BY <1>2, <1>4, <1>5, <2>1, <2>4
  <2> QED
    BY <1>1, <1>2, <1>3, <2>1, <2>2, <2>3, <2>5, TaskStep
<1>8. CASE ReleaseRoot(s)
  <2>1. /\ holder[s].pc = "unroot" /\ active' = active /\ completion' = completion
        /\ handoff' = handoff /\ outstanding' = outstanding - 1
    BY <1>8 DEF ReleaseRoot
  <2>2. PICK pc \in {"deliver", "ready"}, held \in BOOLEAN :
          /\ Others(s) /\ Becomes(s, pc, holder[s].guard, holder[s].fate, {}, held)
          /\ pc = "deliver" => release = "AtResolution"
    <3>1. CASE release = "AtResolution"
      <4>1. Goto(s, "deliver")
        BY <1>8, <3>1 DEF ReleaseRoot
      <4> QED
        BY <1>2, <3>1, <4>1, GotoEffect DEF Consistent
    <3>2. CASE release # "AtResolution"
      <4>1. Return(s)
        BY <1>8, <3>2 DEF ReleaseRoot
      <4> QED
        BY <2>1, <4>1, ReturnEffect
    <3> QED
      BY <3>1, <3>2
  <2>3. Consistent(s)' /\ OwnerShape'
    <3>1. Consistent(s)'
      BY <1>1, <1>2, <2>1, <2>2 DEF Becomes, Consistent, Unparks
    <3> QED
      BY <3>1, <1>1, <1>2, <2>1 DEF OwnerShape
  <2>4. /\ Bit(Confirming') = Bit(Confirming) /\ Bit(Unconfirmed') = Bit(Unconfirmed)
        /\ Bit(WordHeld') = Bit(WordHeld)
        /\ Bit(RootToken(s)) = 1 /\ Bit(RootToken(s)') = 0
        /\ Bit(Token(s)) = 0 /\ Bit(Token(s)') = 0
    BY <1>1, <2>1, <2>2
       DEF Becomes, Bit, Confirming, Unconfirmed, WordHeld, Token, RootToken
  <2>5. /\ handoff' = handoff - Bit(Token(s)) + Bit(Token(s)')
                      - Bit(WordHeld) + Bit(WordHeld') - Bit(Confirming) + Bit(Confirming')
        /\ outstanding' = outstanding - Bit(RootToken(s)) + Bit(RootToken(s)')
                          - Bit(Unresolved) + Bit(Unresolved')
                          - Bit(Unconfirmed) + Bit(Unconfirmed')
        /\ outstanding' <= outstanding
    BY <1>2, <1>4, <1>5, <2>1, <2>4
  <2> QED
    BY <1>1, <1>2, <1>3, <2>1, <2>2, <2>3, <2>5, TaskStep
<1>9. CASE FinishCompletion(s)
  <2>1. /\ holder[s].pc = "deliver" /\ active' = active
        /\ handoff' = handoff /\ outstanding' = outstanding
    BY <1>9 DEF FinishCompletion
  <2>2. Bit(WordHeld') = Bit(WordHeld)
    BY <1>1, <2>1 DEF Bit, WordHeld
  <2>3. IsCompletion(completion)
    BY DEF AckInv, Shape
  <2>4. CASE completion.pc = "waiting"
    <3> DEFINE outcome == IF holder[s].fate = "acked" THEN "Ack" ELSE "NoAck"
               confirmation == IF release = "AfterConfirmation"
                               THEN [handoff |-> holder[s].held] ELSE None
    <3>1. /\ completion' = [completion EXCEPT !.outcome = outcome,
                                              !.confirmation = confirmation]
          /\ Return(s)
      BY <1>9, <2>4 DEF FinishCompletion
    <3>2. /\ release = "AfterConfirmation" => confirmation = [handoff |-> holder[s].held]
          /\ release = "AtResolution" => confirmation = None
      OBVIOUS
    <3> HIDE DEF outcome, confirmation
    <3>3. completion'.confirmation = confirmation /\ completion'.pc = "waiting"
      BY <2>3, <2>4, <3>1 DEF IsCompletion
    <3>4. Others(s) /\ Becomes(s, "ready", holder[s].guard, holder[s].fate, {}, FALSE)
      BY <2>1, <3>1, ReturnEffect
    <3>5. holder[s].held \in BOOLEAN /\ release \in {"AtResolution", "AfterConfirmation"}
      BY <1>2 DEF Consistent, OwnerShape
    <3>6. /\ confirmation \in {None} \cup [handoff : BOOLEAN]
          /\ release = "AfterConfirmation" => confirmation # None
          /\ confirmation = [handoff |-> TRUE] <=>
               release = "AfterConfirmation" /\ holder[s].held = TRUE
      <4>1. CASE release = "AfterConfirmation"
        <5>1. [handoff |-> holder[s].held] \in [handoff : BOOLEAN]
          BY <3>5
        <5>2. [handoff |-> holder[s].held] = [handoff |-> TRUE] <=> holder[s].held = TRUE
          BY <3>5
        <5> QED
          BY <3>2, <4>1, <5>1, <5>2, AckAssumption
      <4>2. CASE release = "AtResolution"
        <5>1. [handoff |-> TRUE] \in [handoff : BOOLEAN]
          OBVIOUS
        <5> QED
          BY <3>2, <4>2, <5>1, AckAssumption
      <4> QED
        BY <3>5, <4>1, <4>2
    <3>7. Consistent(s)' /\ OwnerShape'
      <4>1. Consistent(s)'
        BY <1>1, <1>2, <2>1, <3>4 DEF Becomes, Consistent, Unparks
      <4> QED
        BY <4>1, <1>1, <1>2, <2>1, <3>2, <3>3, <3>6 DEF OwnerShape
    <3>8. completion.confirmation = None
      <4>1. CASE release = "AtResolution"
        BY <4>1, <1>2 DEF OwnerShape
      <4>2. CASE release = "AfterConfirmation"
        <5>1. s \in Roots /\ Roots \in SUBSET Share
          BY <2>1, <4>2 DEF Roots, RootToken
        <5>2. Cardinality(Roots) \in Nat /\ Cardinality(Roots) # 0
          BY <5>1, AckAssumption, FS_Subset, FS_CardinalityType, FS_EmptySet
        <5> QED
          BY <5>2, <1>4 DEF Balance, RootExact, Bit, Unconfirmed
      <4> QED
        BY <3>5, <4>1, <4>2
    <3>9. [handoff |-> TRUE] # None
      <4>1. [handoff |-> TRUE] \in [handoff : BOOLEAN]
        OBVIOUS
      <4> QED
        BY <4>1, AckAssumption
    <3>10. /\ Bit(Confirming) = 0 /\ Bit(Unconfirmed) = 0
           /\ Bit(Confirming') = Bit(Token(s)) /\ Bit(Unconfirmed') = Bit(RootToken(s))
           /\ Bit(Token(s)') = 0 /\ Bit(RootToken(s)') = 0
      BY <1>1, <2>1, <3>2, <3>3, <3>4, <3>5, <3>6, <3>8, <3>9
         DEF Becomes, Bit, Confirming, Unconfirmed, Token, RootToken
    <3>11. /\ handoff' = handoff - Bit(Token(s)) + Bit(Token(s)')
                        - Bit(WordHeld) + Bit(WordHeld') - Bit(Confirming) + Bit(Confirming')
           /\ outstanding' = outstanding - Bit(RootToken(s)) + Bit(RootToken(s)')
                            - Bit(Unresolved) + Bit(Unresolved')
                            - Bit(Unconfirmed) + Bit(Unconfirmed')
           /\ outstanding' <= outstanding
      BY <1>2, <1>4, <1>5, <2>1, <2>2, <3>10
    <3> QED
      BY <1>1, <1>2, <1>3, <2>1, <2>4, <3>3, <3>4, <3>6, <3>7, <3>11, TaskStep
  <2>5. CASE completion.pc # "waiting"
    <3>1. completion' = completion
      BY <1>9, <2>5 DEF FinishCompletion
    <3>2. PICK pc \in {"untrack", "unroot", "ready"}, held \in BOOLEAN :
            /\ Others(s) /\ Becomes(s, pc, holder[s].guard, holder[s].fate, {}, held)
            /\ release = "AfterConfirmation" =>
                 pc = IF holder[s].held THEN "untrack" ELSE "unroot"
            /\ release = "AtResolution" => pc = "ready"
      <4>1. CASE release = "AfterConfirmation"
        <5>1. PICK pc \in {"untrack", "unroot"} :
                Goto(s, pc) /\ pc = IF holder[s].held THEN "untrack" ELSE "unroot"
          BY <1>9, <2>5, <4>1 DEF FinishCompletion
        <5> QED
          BY <1>2, <4>1, <5>1, GotoEffect DEF Consistent
      <4>2. CASE release = "AtResolution"
        <5>1. Return(s)
          BY <1>9, <2>5, <4>2 DEF FinishCompletion
        <5> QED
          BY <2>1, <4>2, <5>1, ReturnEffect
      <4> QED
        BY <1>2, <4>1, <4>2 DEF OwnerShape
    <3>3. Consistent(s)' /\ OwnerShape'
      <4>1. Consistent(s)'
        BY <1>1, <1>2, <2>1, <3>2 DEF Becomes, Consistent, Unparks
      <4> QED
        BY <4>1, <1>1, <1>2, <2>1, <3>1 DEF OwnerShape
    <3>4. /\ Bit(Confirming') = Bit(Confirming) /\ Bit(Unconfirmed') = Bit(Unconfirmed)
          /\ Bit(Token(s)') = Bit(Token(s)) /\ Bit(RootToken(s)') = Bit(RootToken(s))
      BY <1>1, <1>2, <2>1, <3>1, <3>2
         DEF Becomes, Bit, Confirming, Unconfirmed, Token, RootToken, OwnerShape, Consistent
    <3>5. /\ handoff' = handoff - Bit(Token(s)) + Bit(Token(s)')
                        - Bit(WordHeld) + Bit(WordHeld') - Bit(Confirming) + Bit(Confirming')
          /\ outstanding' = outstanding - Bit(RootToken(s)) + Bit(RootToken(s)')
                            - Bit(Unresolved) + Bit(Unresolved')
                            - Bit(Unconfirmed) + Bit(Unconfirmed')
          /\ outstanding' <= outstanding
      BY <1>2, <1>4, <1>5, <2>1, <2>2, <3>4
    <3> QED
      BY <1>1, <1>2, <1>3, <2>1, <2>5, <3>1, <3>2, <3>3, <3>5, TaskStep
  <2> QED
    BY <2>4, <2>5
<1> QED
  BY <1>6, <1>7, <1>8, <1>9

\* What the owner does, the end of the state and stuttering: the confirmation releases
\* what it was handed, and an unresolved state what it still holds.
LEMMA OwnerBalance ==
  ASSUME AckInv, Balance,
         DropCompletion \/ ConfirmHandoff \/ ConfirmRoot \/ DropAckState \/ UNCHANGED vars
  PROVE  Balance'
<1> USE DEF words, reports, owner, tracker
<1>1. pending' = pending /\ active' = active /\ holder' = holder /\ release' = release
  BY DEF DropCompletion, ConfirmHandoff, ConfirmRoot, DropAckState, vars
<1>2. IsCompletion(completion) /\ OwnerShape /\ Ends /\ dropped \in BOOLEAN
  BY DEF AckInv, Shape, Balance
<1>3. handoff \in Int /\ outstanding \in Int
  BY UnitSum
<1>4. \A s \in Share : Consistent(s)'
  BY <1>1 DEF Balance, Consistent, Unparks
<1>5. Tokens' = Tokens /\ Roots' = Roots
  BY <1>1 DEF Tokens, Roots, Token, RootToken
<1>6. Cardinality(Tokens) \in Nat /\ Cardinality(Roots) \in Nat
  <2>1. Tokens \in SUBSET Share /\ Roots \in SUBSET Share
    BY DEF Tokens, Roots
  <2> QED
    BY <2>1, AckAssumption, FS_Subset, FS_CardinalityType
<1>7. /\ handoff = Cardinality(Tokens) + Bit(WordHeld) + Bit(Confirming)
      /\ outstanding = Cardinality(Roots) + Bit(Unresolved) + Bit(Unconfirmed)
      /\ outstanding <= 1
  BY DEF Balance, HandoffExact, RootExact
<1>8. /\ Bit(Confirming) \in Int /\ Bit(Unconfirmed) \in Int /\ Bit(WordHeld) \in Int
      /\ Bit(Confirming') \in Int /\ Bit(Unconfirmed') \in Int /\ Bit(WordHeld') \in Int
      /\ Bit(Unresolved) \in Int /\ Bit(Unresolved') \in Int
  BY DEF Bit
<1>9. SUFFICES /\ dropped' \in BOOLEAN /\ OwnerShape' /\ Ends'
               /\ handoff' = handoff - Bit(WordHeld) + Bit(WordHeld')
                             - Bit(Confirming) + Bit(Confirming')
               /\ outstanding' = outstanding - Bit(Unresolved) + Bit(Unresolved')
                                 - Bit(Unconfirmed) + Bit(Unconfirmed')
               /\ outstanding' <= outstanding
  <2>1. HandoffExact'
    BY <1>3, <1>5, <1>6, <1>7, <1>8, <1>9 DEF HandoffExact
  <2>2. RootExact'
    BY <1>3, <1>5, <1>6, <1>7, <1>8, <1>9 DEF RootExact
  <2> QED
    BY <1>4, <1>9, <2>1, <2>2 DEF Balance
<1>10. [handoff |-> TRUE] # None
  <2>1. [handoff |-> TRUE] \in [handoff : BOOLEAN]
    OBVIOUS
  <2> QED
    BY <2>1, AckAssumption
<1>11. ASSUME dropped' = dropped, completion'.pc # "waiting"
       PROVE  Ends'
  BY <1>1, <1>2, <1>11 DEF Ends, Gone
<1>12. ASSUME dropped' = dropped
       PROVE  /\ Bit(WordHeld') = Bit(WordHeld) /\ Bit(Unresolved') = Bit(Unresolved)
  BY <1>1, <1>12 DEF Bit, WordHeld, Unresolved
<1>13. CASE DropCompletion
  <2> DEFINE pc == IF completion.confirmation = None THEN "dropped"
                   ELSE IF completion.confirmation.handoff THEN "untrack" ELSE "unroot"
  <2>1. /\ completion.pc = "waiting" /\ completion' = [completion EXCEPT !.pc = pc]
        /\ handoff' = handoff /\ outstanding' = outstanding /\ dropped' = dropped
    BY <1>13 DEF DropCompletion
  <2>2. /\ completion.confirmation = None => pc = "dropped"
        /\ completion.confirmation = [handoff |-> TRUE] => pc = "untrack"
        /\ completion.confirmation = [handoff |-> FALSE] => pc = "unroot"
    <3>1. [handoff |-> FALSE] # None
      <4>1. [handoff |-> FALSE] \in [handoff : BOOLEAN]
        OBVIOUS
      <4> QED
        BY <4>1, AckAssumption
    <3> QED
      BY <1>10, <3>1
  <2>3. \/ completion.confirmation = None
        \/ completion.confirmation = [handoff |-> TRUE]
        \/ completion.confirmation = [handoff |-> FALSE]
    BY <1>2 DEF OwnerShape
  <2> HIDE DEF pc
  <2>4. completion'.pc = pc /\ completion'.confirmation = completion.confirmation
    BY <1>2, <2>1 DEF IsCompletion
  <2>5. OwnerShape'
    BY <1>1, <1>2, <1>10, <2>1, <2>2, <2>3, <2>4 DEF OwnerShape
  <2>6. [handoff |-> FALSE] # [handoff |-> TRUE]
    OBVIOUS
  <2>7. Bit(Confirming') = Bit(Confirming) /\ Bit(Unconfirmed') = Bit(Unconfirmed)
    BY <1>10, <2>1, <2>2, <2>3, <2>4, <2>6 DEF Bit, Confirming, Unconfirmed
  <2>8. completion'.pc # "waiting"
    BY <2>2, <2>3, <2>4
  <2> QED
    BY <1>2, <1>3, <1>8, <1>11, <1>12, <2>1, <2>5, <2>7, <2>8
<1>14. CASE ConfirmHandoff
  <2>1. /\ completion.pc = "untrack" /\ completion' = [completion EXCEPT !.pc = "unroot"]
        /\ handoff' = handoff - 1 /\ outstanding' = outstanding /\ dropped' = dropped
    BY <1>14 DEF ConfirmHandoff
  <2>2. completion'.pc = "unroot" /\ completion'.confirmation = completion.confirmation
    BY <1>2, <2>1 DEF IsCompletion
  <2>3. OwnerShape'
    BY <1>1, <1>2, <2>1, <2>2 DEF OwnerShape
  <2>4. /\ Bit(Confirming) = 1 /\ Bit(Confirming') = 0
        /\ Bit(Unconfirmed') = Bit(Unconfirmed)
    BY <1>2, <2>1, <2>2 DEF Bit, Confirming, Unconfirmed, OwnerShape
  <2> QED
    BY <1>2, <1>3, <1>8, <1>11, <1>12, <2>1, <2>2, <2>3, <2>4
<1>15. CASE ConfirmRoot
  <2>1. /\ completion.pc = "unroot"
        /\ completion' = [completion EXCEPT !.pc = "dropped", !.confirmation = None]
        /\ handoff' = handoff /\ outstanding' = outstanding - 1 /\ dropped' = dropped
    BY <1>15 DEF ConfirmRoot
  <2>2. completion'.pc = "dropped" /\ completion'.confirmation = None
    BY <1>2, <2>1 DEF IsCompletion
  <2>3. OwnerShape'
    BY <1>1, <1>2, <2>1, <2>2 DEF OwnerShape
  <2>4. /\ Bit(Confirming) = 0 /\ Bit(Confirming') = 0
        /\ Bit(Unconfirmed) = 1 /\ Bit(Unconfirmed') = 0
    BY <1>2, <1>10, <2>1, <2>2 DEF Bit, Confirming, Unconfirmed, OwnerShape
  <2> QED
    BY <1>2, <1>3, <1>8, <1>11, <1>12, <2>1, <2>2, <2>3, <2>4
<1>16. CASE DropAckState
  <2>1. /\ dropped = FALSE /\ dropped' = TRUE /\ \A s \in Share : Gone(s)
        /\ outstanding' = IF pending = 0 THEN outstanding ELSE outstanding - 1
        /\ handoff' = IF pending # 0 /\ active \notin {None, 0} THEN handoff - 1 ELSE handoff
        /\ \E outcome : completion' = [completion EXCEPT !.outcome = outcome]
    BY <1>2, <1>16 DEF DropAckState, IsResolved
  <2>2. completion'.pc = completion.pc /\ completion'.confirmation = completion.confirmation
    BY <1>2, <2>1 DEF IsCompletion
  <2>3. OwnerShape'
    BY <1>1, <1>2, <2>2 DEF OwnerShape
  <2>4. Ends'
    BY <1>1, <1>2, <2>1, <2>2 DEF Ends, Gone
  <2>5. /\ Bit(Confirming') = Bit(Confirming) /\ Bit(Unconfirmed') = Bit(Unconfirmed)
    BY <2>2 DEF Bit, Confirming, Unconfirmed
  <2>6. /\ Bit(Unresolved) = (IF pending = 0 THEN 0 ELSE 1) /\ Bit(Unresolved') = 0
        /\ Bit(WordHeld) - Bit(WordHeld') =
             (IF pending # 0 /\ active \notin {None, 0} THEN 1 ELSE 0)
    BY <1>1, <2>1 DEF Bit, Unresolved, WordHeld
  <2>7. handoff' = handoff - Bit(WordHeld) + Bit(WordHeld') - Bit(Confirming) + Bit(Confirming')
    BY <1>3, <1>8, <2>1, <2>5, <2>6
  <2>8. /\ outstanding' = outstanding - Bit(Unresolved) + Bit(Unresolved')
                          - Bit(Unconfirmed) + Bit(Unconfirmed')
        /\ outstanding' <= outstanding
    BY <1>3, <1>8, <2>1, <2>5, <2>6
  <2> QED
    BY <2>1, <2>3, <2>4, <2>7, <2>8
<1>17. CASE UNCHANGED vars
  <2>1. /\ completion' = completion /\ dropped' = dropped /\ handoff' = handoff
        /\ outstanding' = outstanding
    BY <1>17 DEF vars
  <2>2. OwnerShape' /\ Ends'
    BY <1>1, <1>2, <2>1 DEF OwnerShape, Ends, Gone
  <2>3. Bit(Confirming') = Bit(Confirming) /\ Bit(Unconfirmed') = Bit(Unconfirmed)
    BY <2>1 DEF Bit, Confirming, Unconfirmed
  <2> QED
    BY <1>2, <1>3, <1>8, <1>12, <2>1, <2>2, <2>3
<1> QED
  BY <1>13, <1>14, <1>15, <1>16, <1>17

\* The root starts counted once, by its state and by its active share.
LEMMA BalanceInit == Init => Balance
<1> SUFFICES ASSUME Init PROVE Balance
  OBVIOUS
<1> USE DEF Init, Ready, Absent, Task, Resolving
<1>1. \A s \in Share : holder[s].pc \in {"ready", "absent"}
  OBVIOUS
<1>2. Tokens = {} /\ Roots = {}
  BY <1>1 DEF Tokens, Roots, Token, RootToken
<1>3. \A s \in Share : Consistent(s)
  BY DEF Consistent, Unparks
<1>4. [handoff |-> TRUE] # None
  <2>1. [handoff |-> TRUE] \in [handoff : BOOLEAN]
    OBVIOUS
  <2> QED
    BY <2>1, AckAssumption
<1>5. HandoffExact /\ RootExact
  <2>1. Bit(WordHeld) = 1 /\ Bit(Confirming) = 0 /\ Bit(Unresolved) = 1 /\ Bit(Unconfirmed) = 0
    BY <1>4, AckAssumption DEF Bit, WordHeld, Confirming, Unresolved, Unconfirmed
  <2> QED
    BY <1>2, <2>1, FS_EmptySet DEF HandoffExact, RootExact
<1>6. OwnerShape
  BY DEF OwnerShape
<1>7. Ends
  BY DEF Ends
<1> QED
  BY <1>3, <1>5, <1>6, <1>7 DEF Balance

\* Every step of a task and of the owner keeps each unit of the handoff and root
\* counts with the one who has it.
LEMMA BalanceStep == AckInv /\ Balance /\ [Next]_vars => Balance'
<1> SUFFICES ASSUME AckInv, Balance, [Next]_vars PROVE Balance'
  OBVIOUS
<1>1. ASSUME NEW s \in Share, Works(s) PROVE Balance'
  BY <1>1, QuietSteps, WordSteps, EndSteps DEF Works
<1>2. ASSUME NEW s \in Share, Starts(s) PROVE Balance'
  BY <1>2, QuietSteps, SettleSteps DEF Starts
<1> QED
  BY <1>1, <1>2, OwnerBalance DEF Next

\* The tracker counts the root at most once and no count is released twice: none falls
\* below zero, in any interleaving and with any number of shares, local or remote.
THEOREM CountsNeverUnderflow == Spec => []TypeOK
<1>1. AckInv /\ Balance => TypeOK
  <2> SUFFICES ASSUME AckInv, Balance PROVE TypeOK
    OBVIOUS
  <2>1. Tokens \in SUBSET Share /\ Roots \in SUBSET Share
    BY DEF Tokens, Roots
  <2>2. Cardinality(Tokens) \in Nat /\ Cardinality(Roots) \in Nat
    BY <2>1, AckAssumption, FS_Subset, FS_CardinalityType
  <2>3. handoff \in Nat /\ outstanding \in {0, 1}
    BY <2>2 DEF Balance, HandoffExact, RootExact, Bit
  <2> QED
    BY <2>3 DEF AckInv, Shape, Balance, OwnerShape, TypeOK
<1> QED
  BY <1>1, AckInit, AckStep, BalanceInit, BalanceStep, PTL DEF Spec

\* A confirmed root stays counted until its owner drops the completion.
THEOREM ConfirmedCounted == Spec => []ConfirmedStaysCounted
<1>1. AckInv /\ Balance => ConfirmedStaysCounted
  <2> SUFFICES ASSUME AckInv, Balance, release = "AfterConfirmation",
                      completion.pc = "waiting", ~dropped
               PROVE  outstanding = 1
    BY DEF ConfirmedStaysCounted
  <2>1. Roots \in SUBSET Share
    BY DEF Roots
  <2>2. Cardinality(Roots) \in Nat /\ (Roots # {} => Cardinality(Roots) # 0)
    BY <2>1, AckAssumption, FS_Subset, FS_CardinalityType, FS_EmptySet
  <2>3. Unresolved \/ Unconfirmed \/ Roots # {}
    BY DEF Balance, Ends, Unresolved, Unconfirmed, Roots, RootToken
  <2> QED
    BY <2>2, <2>3 DEF Balance, RootExact, Bit
<1> QED
  BY <1>1, AckInit, AckStep, BalanceInit, BalanceStep, PTL DEF Spec

\* What is claimed of a root with registered remote shares, which MCRuntimeAck checks of the
\* instance in which one share of two is remote.
RegisteredMeansAll == AckMeansAll /\ ConfirmedStaysCounted

\* Whichever of the shares are registered remote ones, and so resolved by a message that may
\* arrive while they are parked: the root is acknowledged only when every task that ever
\* owned a share acknowledged its own, and it is counted until its confirmation is dropped
\* (RemoteDispatchRegistry::resolve_ack, AckParkGuard::drop).
THEOREM RegisteredSharesToo == Spec => []RegisteredMeansAll
<1>1. AckMeansAll /\ ConfirmedStaysCounted => RegisteredMeansAll
  BY DEF RegisteredMeansAll
<1> QED
  BY <1>1, AcknowledgedMeansAll, ConfirmedCounted, PTL

-----------------------------------------------------------------------------
(* What the handoff word counts, where every share is local.               *)

\* The shares that are active: those of tasks that work on them or dropped them, one
\* that was acknowledged until it is removed, and those published for receivers.
WorkedOn(s) ==
  \/ /\ holder[s].pc # "absent" /\ holder[s].guard = FALSE
     /\ holder[s].fate \in {None, "dropped"} /\ ~Unparks(s)
  \/ holder[s].pc = "remove"
Given(s, p) == s \in holder[p].receivers /\ holder[p].pc \notin {"reserve", "publish"}
Counted == {s \in Share : WorkedOn(s) \/ \E p \in Share : Given(s, p)}
Removing == {s \in Share : holder[s].pc \in {"park", "remove"}}

\* A local task settles no share that is parked.
ParkedUnsettled(s) ==
  holder[s].guard = TRUE \/ Unparks(s) => holder[s].fate \in {None, "dropped"}

\* Until the root resolves the word counts them exactly; after, what is still to be
\* removed is never more than it holds.
Words ==
  /\ \A s \in Share : ParkedUnsettled(s)
  /\ pending # 0 => active = Cardinality(Counted)
  /\ pending = 0 /\ active # None => active >= Cardinality(Removing)

\* The shares the word counts, and those still to be removed from it, are finitely many.
LEMMA WordSets ==
  /\ IsFiniteSet(Counted) /\ Cardinality(Counted) \in Nat
  /\ IsFiniteSet(Removing) /\ Cardinality(Removing) \in Nat
<1>1. Counted \in SUBSET Share /\ Removing \in SUBSET Share
  BY DEF Counted, Removing
<1> QED
  BY <1>1, AckAssumption, FS_Subset, FS_CardinalityType

\* The root share is worked on from the start, and the word counts it.
LEMMA WordsInit == Init => Words
<1> SUFFICES ASSUME Init PROVE Words
  OBVIOUS
<1> USE AckAssumption DEF Init, Ready, Absent, Task
<1>1. Counted = {First}
  BY DEF Counted, WorkedOn, Given, Unparks
<1>2. \A s \in Share : ParkedUnsettled(s)
  BY DEF ParkedUnsettled, Unparks
<1> QED
  BY <1>1, <1>2, FS_Singleton DEF Words

\* While the root is unresolved every share that is being removed is counted.
LEMMA RemovingCounted ==
  ASSUME Balance
  PROVE  Cardinality(Removing) <= Cardinality(Counted)
<1>1. Removing \subseteq Counted
  BY DEF Removing, Counted, WorkedOn, Unparks, Balance, Consistent
<1> QED
  BY <1>1, WordSets, FS_Subset

\* A step of a task that removes no share.
LEMMA WordFrame ==
  ASSUME AckInv, Balance, Words, NEW s \in Share, Others(s), ParkedUnsettled(s)',
         holder[s].pc \notin {"park", "remove"},
         pending' # 0 => active' = Cardinality(Counted'),
         pending' = 0 => /\ holder'[s].pc \notin {"park", "remove"}
                         /\ \/ active' = None
                            \/ active # None /\ active' \in Nat /\ active' >= active
  PROVE  Words'
<1>1. /\ Ready.pc = "ready" /\ Ready.fate = None /\ Ready.guard = FALSE
  BY DEF Ready, Task
<1>2. \A r \in Share : ParkedUnsettled(r)'
  <2> SUFFICES ASSUME NEW r \in Share \ {s} PROVE ParkedUnsettled(r)'
    OBVIOUS
  <2>1. CASE holder'[r] = holder[r]
    BY <2>1 DEF Words, ParkedUnsettled, Unparks
  <2>2. CASE holder'[r] = Ready
    BY <2>2, <1>1 DEF ParkedUnsettled, Unparks
  <2> QED
    BY <2>1, <2>2 DEF Others
<1>3. ASSUME pending' = 0, active' # None PROVE active' >= Cardinality(Removing')
  <2>1. Removing' = Removing
    BY <1>1, <1>3 DEF Removing, Others
  <2>2. active \in Nat /\ active >= Cardinality(Removing)
    <3>1. active \in Nat
      BY <1>3 DEF Balance, OwnerShape
    <3>2. CASE pending = 0
      BY <1>3, <3>1, <3>2 DEF Words
    <3>3. CASE pending # 0
      BY <3>1, <3>3, RemovingCounted, WordSets DEF Words
    <3> QED
      BY <3>1, <3>2, <3>3
  <2> QED
    BY <1>3, <2>1, <2>2, WordSets
<1> QED
  BY <1>2, <1>3 DEF Words

\* A task that moves on changes at most whether its own share is counted.
LEMMA CountedMove ==
  ASSUME AckInv, NEW s \in Share, Alone(s),
         holder[s].pc # "absent", holder'[s].pc # "absent",
         \A r \in Share : Given(r, s)' <=> Given(r, s)
  PROVE  /\ Counted' \ {s} = Counted \ {s}
         /\ s \in Counted <=> WorkedOn(s)
         /\ s \in Counted' <=> WorkedOn(s)'
<1>1. \A r \in Share, p \in Share : Given(r, p)' <=> Given(r, p)
  BY DEF Alone, Given
<1>2. \A p \in Share : ~Given(s, p)
  BY DEF AckInv, Fresh, Given
<1>3. \A r \in Share \ {s} : WorkedOn(r)' <=> WorkedOn(r)
  BY DEF Alone, WorkedOn, Unparks
<1>4. Counted' \ {s} = Counted \ {s}
  BY <1>1, <1>3 DEF Counted
<1> QED
  BY <1>1, <1>2, <1>4 DEF Counted

\* An operation that returns hands over shares that were counted.
LEMMA CountedReturn ==
  ASSUME AckInv, NEW s \in Share, Return(s),
         holder[s].pc \notin {"absent", "reserve", "publish", "remove"}
  PROVE  Counted' = Counted
<1>1. /\ Becomes(s, "ready", holder[s].guard, holder[s].fate, {}, FALSE)
      /\ \A r \in holder[s].receivers : r \in Share \ {s} /\ holder'[r] = Ready
      /\ \A r \in Share \ {s} : r \notin holder[s].receivers => holder'[r] = holder[r]
  BY ReturnEffect
<1>2. /\ Ready.pc = "ready" /\ Ready.fate = None /\ Ready.guard = FALSE /\ Ready.receivers = {}
  BY DEF Ready, Task
<1>3. \A r \in holder[s].receivers : holder[r].pc = "absent" /\ holder[r].receivers = {}
  BY DEF AckInv, Fresh, Shape
<1>4. ASSUME NEW r \in Share PROVE r \in Counted' <=> r \in Counted
  <2>1. CASE r \in holder[s].receivers
    <3>1. Given(r, s)
      BY <2>1 DEF Given
    <3>2. WorkedOn(r)'
      BY <2>1, <1>1, <1>2 DEF WorkedOn, Unparks
    <3> QED
      BY <3>1, <3>2 DEF Counted
  <2>2. CASE r \notin holder[s].receivers
    <3>1. WorkedOn(r)' <=> WorkedOn(r)
      <4>1. CASE r = s
        BY <4>1, <1>1 DEF Becomes, WorkedOn, Unparks
      <4>2. CASE r # s
        BY <4>2, <2>2, <1>1 DEF WorkedOn, Unparks
      <4> QED
        BY <4>1, <4>2
    <3>2. ASSUME NEW p \in Share PROVE Given(r, p)' <=> Given(r, p)
      <4>1. CASE p = s
        BY <4>1, <2>2, <1>1 DEF Becomes, Given
      <4>2. CASE p \in holder[s].receivers
        BY <4>2, <1>1, <1>2, <1>3 DEF Given
      <4>3. CASE p # s /\ p \notin holder[s].receivers
        BY <4>3, <1>1 DEF Given
      <4> QED
        BY <4>1, <4>2, <4>3
    <3> QED
      BY <3>1, <3>2 DEF Counted
  <2> QED
    BY <2>1, <2>2
<1> QED
  BY <1>4 DEF Counted

\* Steps that leave the word and its shares alone.
LEMMA WordKept ==
  ASSUME AckInv, Balance, Words, NEW s \in Share, Others(s), ParkedUnsettled(s)',
         holder[s].pc \notin {"park", "remove"},
         active' = active, pending = 0 <=> pending' = 0,
         pending' # 0 => Counted' = Counted,
         pending' = 0 => holder'[s].pc \notin {"park", "remove"}
  PROVE  Words'
<1>1. active \in Nat \cup {None}
  BY DEF Balance, OwnerShape
<1> QED
  BY <1>1, WordFrame DEF Words

\* A task goes on, reports, attaches or drops its handle.
LEMMA QuietWords ==
  ASSUME AckInv, Balance, Words, NEW s \in Share,
         \/ ReservePendingShares(s) \/ Park(s) \/ AckAlive(s) \/ DrawSequence(s)
         \/ ObservePending(s) \/ ObserveActive(s) \/ SendProgress(s) \/ DropHandle(s)
         \/ \E receivers \in SUBSET Share : Attach(s, receivers)
         \/ Unpark(s) \/ ReleaseReservation(s) \/ ReleaseIdle(s)
  PROVE  Words'
<1> USE DEF words, reports, owner, tracker
<1>1. active' = active
  BY DEF ReservePendingShares, Park, AckAlive, DrawSequence, ObservePending, ObserveActive,
         SendProgress, DropHandle, Attach, Unpark, ReleaseReservation, ReleaseIdle
<1>2. /\ Consistent(s) /\ IsHolder(holder[s]) /\ ParkedUnsettled(s)
      /\ holder = [r \in Share |-> holder[r]]
      /\ holder[s].receivers # {} => holder[s].fate = None
      /\ holder[s].pc \notin Attaching => holder[s].receivers = {}
      /\ holder[s].pc = "reserve" => holder[s].receivers # {}
  BY DEF AckInv, Shape, Balance, Words
<1>3. pending = 0 <=> pending' = 0
  BY ReserveKeepsUnresolved DEF ReservePendingShares, Park, AckAlive, DrawSequence,
     ObservePending, ObserveActive, SendProgress, DropHandle, Attach, Unpark,
     ReleaseReservation, ReleaseIdle
<1>4. SUFFICES /\ Others(s) /\ ParkedUnsettled(s)' /\ holder[s].pc \notin {"park", "remove"}
               /\ pending' # 0 => Counted' = Counted
               /\ pending' = 0 => holder'[s].pc \notin {"park", "remove"}
  BY <1>1, <1>3, <1>4, WordKept
<1>5. ASSUME Alone(s), holder[s].pc # "absent", holder'[s].pc # "absent",
             \A r \in Share : Given(r, s)' <=> Given(r, s),
             WorkedOn(s)' <=> WorkedOn(s)
      PROVE  Counted' = Counted
  BY <1>5, CountedMove DEF Counted
<1>6. CASE ReservePendingShares(s)
  <2>1. PICK pc \in {"release", "publish"} :
          Goto(s, pc) /\ (pending' # 0 => pc = "publish") /\ holder[s].pc = "reserve"
    BY <1>6 DEF ReservePendingShares, IsResolved
  <2>2. /\ Alone(s) /\ Others(s)
        /\ Becomes(s, pc, holder[s].guard, holder[s].fate, holder[s].receivers, holder[s].held)
    BY <2>1, GotoEffect
  <2>3. pending' # 0 => Counted' = Counted
    BY <1>2, <1>5, <2>1, <2>2 DEF Becomes, Given, WorkedOn, Unparks
  <2> QED
    BY <1>2, <2>1, <2>2, <2>3 DEF Becomes, ParkedUnsettled, Unparks
<1>7. CASE Park(s) \/ AckAlive(s) \/ ReleaseIdle(s)
  <2>1. PICK pc \in {"park", "sequence"} :
          /\ Goto(s, pc) /\ (pc = "park" => pending' # 0) /\ holder[s].pc \in {"ready", "idle"}
    BY <1>7 DEF Park, AckAlive, ReleaseIdle, Owns, IsResolved
  <2>2. /\ Alone(s) /\ Others(s)
        /\ Becomes(s, pc, holder[s].guard, holder[s].fate, holder[s].receivers, holder[s].held)
    BY <2>1, GotoEffect
  <2>3. Counted' = Counted
    BY <1>2, <1>5, <2>1, <2>2 DEF Becomes, Given, WorkedOn, Unparks, Attaching
  <2> QED
    BY <1>2, <2>1, <2>2, <2>3 DEF Becomes, ParkedUnsettled, Unparks
<1>8. CASE DrawSequence(s) \/ ObservePending(s) \/ ObserveActive(s)
  <2>1. holder[s].pc \in {"sequence", "observe", "observeActive"}
    BY <1>8 DEF DrawSequence, ObservePending, ObserveActive
  <2>2. \E pc \in {"observe", "observeActive", "send"} : \E seen :
          holder' = [holder EXCEPT ![s].pc = pc, ![s].seen = seen]
    <3>1. CASE DrawSequence(s)
      BY <3>1 DEF DrawSequence
    <3>2. CASE ObservePending(s)
      BY <3>2 DEF ObservePending
    <3>3. CASE ObserveActive(s)
      BY <3>3 DEF ObserveActive
    <3> QED
      BY <1>8, <3>1, <3>2, <3>3
  <2>3. PICK pc \in {"observe", "observeActive", "send"} : \E seen :
          holder' = [holder EXCEPT ![s].pc = pc, ![s].seen = seen]
    BY <2>2
  <2>4. PICK seen : holder' = [holder EXCEPT ![s].pc = pc, ![s].seen = seen]
    BY <2>3
  <2>5. holder'[s] = [holder[s] EXCEPT !.pc = pc, !.seen = seen] /\ Others(s) /\ Alone(s)
    BY <1>2, <2>4 DEF Others, Alone
  <2>6. Becomes(s, pc, holder[s].guard, holder[s].fate, holder[s].receivers, holder[s].held)
    BY <1>2, <2>5 DEF IsHolder, Becomes
  <2>7. Counted' = Counted
    BY <1>2, <1>5, <2>1, <2>5, <2>6 DEF Becomes, Given, WorkedOn, Unparks
  <2> QED
    BY <1>2, <2>1, <2>5, <2>6, <2>7 DEF Becomes, ParkedUnsettled, Unparks
<1>9. CASE SendProgress(s) \/ ReleaseReservation(s)
  <2>1. holder[s].pc \in {"send", "release"} /\ Return(s)
    BY <1>9 DEF SendProgress, ReleaseReservation
  <2>2. /\ Others(s) /\ Counted' = Counted
        /\ Becomes(s, "ready", holder[s].guard, holder[s].fate, {}, FALSE)
    BY <2>1, ReturnEffect, CountedReturn
  <2> QED
    BY <1>2, <2>1, <2>2 DEF Becomes, ParkedUnsettled, Unparks
<1>10. CASE DropHandle(s)
  <2>1. /\ holder[s].pc = "ready" /\ holder[s].fate = None
        /\ holder'[s] = [holder[s] EXCEPT !.fate = "dropped"] /\ Others(s) /\ Alone(s)
    BY <1>2, <1>10 DEF DropHandle, Owns, Others, Alone
  <2>2. Becomes(s, "ready", holder[s].guard, "dropped", holder[s].receivers, holder[s].held)
    BY <1>2, <2>1 DEF IsHolder, Becomes
  <2>3. Counted' = Counted
    BY <1>2, <1>5, <2>1, <2>2 DEF Becomes, Given, WorkedOn, Unparks
  <2> QED
    BY <2>1, <2>2, <2>3 DEF Becomes, ParkedUnsettled
<1>11. CASE \E receivers \in SUBSET Share : Attach(s, receivers)
  <2>1. PICK receivers \in SUBSET Share : Attach(s, receivers)
    BY <1>11
  <2>2. /\ holder[s].pc = "ready" /\ holder[s].fate = None
        /\ holder'[s] = [holder[s] EXCEPT !.pc = "reserve", !.receivers = receivers]
        /\ Others(s) /\ Alone(s)
    BY <1>2, <2>1 DEF Attach, Owns, Others, Alone
  <2>3. Becomes(s, "reserve", holder[s].guard, holder[s].fate, receivers, holder[s].held)
    BY <1>2, <2>2 DEF IsHolder, Becomes
  <2>4. Counted' = Counted
    BY <1>2, <1>5, <2>2, <2>3 DEF Becomes, Given, WorkedOn, Unparks, Attaching
  <2> QED
    BY <2>2, <2>3, <2>4 DEF Becomes, ParkedUnsettled
<1>12. CASE Unpark(s)
  <2>1. /\ holder[s].pc = "ready" /\ holder[s].guard
        /\ holder'[s] = [holder[s] EXCEPT !.pc = "publish", !.guard = FALSE]
        /\ Others(s) /\ Alone(s)
    BY <1>2, <1>12 DEF Unpark, Others, Alone
  <2>2. Becomes(s, "publish", FALSE, holder[s].fate, holder[s].receivers, holder[s].held)
    BY <1>2, <2>1 DEF IsHolder, Becomes
  <2>3. holder[s].guard = TRUE /\ holder[s].receivers = {}
    BY <1>2, <2>1 DEF Consistent, Attaching
  <2>4. Counted' = Counted
    BY <1>2, <1>5, <2>1, <2>2, <2>3 DEF Becomes, Given, WorkedOn, Unparks
  <2> QED
    BY <1>2, <2>1, <2>2, <2>3, <2>4 DEF Becomes, ParkedUnsettled, Unparks
<1> QED
  BY <1>6, <1>7, <1>8, <1>9, <1>10, <1>11, <1>12

\* Shares that are published join the word: those of the receivers, or the one unparked.
LEMMA PublishWords ==
  ASSUME AckInv, Balance, Words, NEW s \in Share, PublishShares(s)
  PROVE  Words'
<1> USE DEF words, reports, owner, tracker
<1> DEFINE received == holder[s].receivers
<1>1. /\ holder[s].pc = "publish" /\ pending' = pending
      /\ active \in Nat \cup {None}
      /\ Consistent(s) /\ ParkedUnsettled(s)
      /\ received \in SUBSET Share /\ (received # {} => holder[s].fate = None)
  BY DEF PublishShares, AckInv, Shape, Balance, OwnerShape, Words
<1>2. IsFiniteSet(received) /\ Cardinality(received) \in Nat
  BY <1>1, AckAssumption, FS_Subset, FS_CardinalityType
<1>3. PICK pc \in {"release", "sequence"} :
        /\ Goto(s, pc)
        /\ active = None => active' = None
        /\ active # None => active' = active + Published(s)
  BY AckAssumption DEF PublishShares
<1>4. /\ Alone(s) /\ Others(s)
      /\ Becomes(s, pc, holder[s].guard, holder[s].fate, received, holder[s].held)
  BY <1>3, GotoEffect
<1>5. ParkedUnsettled(s)'
  BY <1>1, <1>4 DEF Becomes, ParkedUnsettled, Unparks
<1>6. Published(s) \in Nat
  BY <1>2 DEF Published
<1>7. ASSUME pending' # 0 PROVE active' = Cardinality(Counted')
  <2>1. active = Cardinality(Counted) /\ active # None
    BY <1>1, <1>7, WordSets, AckAssumption DEF Words
  <2>2. CASE received = {}
    <3>1. \A r \in Share : Given(r, s)' <=> Given(r, s)
      BY <1>4, <2>2 DEF Becomes, Given
    <3>2. Counted' \ {s} = Counted \ {s} /\ s \notin Counted /\ s \in Counted'
      <4>1. ~WorkedOn(s) /\ WorkedOn(s)'
        BY <1>1, <1>4, <2>2 DEF Becomes, WorkedOn, Unparks, Consistent, ParkedUnsettled
      <4> QED
        BY <1>1, <1>4, <3>1, <4>1, CountedMove DEF Becomes
    <3>3. Counted' = Counted \cup {s}
      BY <3>2
    <3>4. Cardinality(Counted') = Cardinality(Counted) + 1
      BY <3>2, <3>3, WordSets, FS_AddElement
    <3> QED
      BY <1>3, <2>1, <2>2, <3>4 DEF Published
  <2>3. CASE received # {}
    <3>1. \A r \in received : r \in Share /\ r # s /\ holder[r].pc = "absent"
                             /\ \A q \in Share : r \in holder[q].receivers => q = s
      BY <1>1 DEF AckInv, Fresh
    <3>2. Counted \cap received = {}
      BY <1>1, <3>1 DEF Counted, WorkedOn, Given
    <3>3. WorkedOn(s)' <=> WorkedOn(s)
      BY <1>1, <1>4, <2>3 DEF Becomes, WorkedOn, Unparks
    <3>4. \A r \in Share : (WorkedOn(r)' <=> WorkedOn(r))
      BY <1>4, <3>3 DEF Alone, WorkedOn, Unparks
    <3>5. \A r \in Share : (\E p \in Share : Given(r, p)') <=>
                           r \in received \/ \E p \in Share : Given(r, p)
      <4> SUFFICES ASSUME NEW r \in Share
                   PROVE  (\E p \in Share : Given(r, p)') <=>
                          r \in received \/ \E p \in Share : Given(r, p)
        OBVIOUS
      <4>1. \A p \in Share \ {s} : Given(r, p)' <=> Given(r, p)
        BY <1>4 DEF Alone, Given
      <4>2. (Given(r, s)' <=> r \in received) /\ ~Given(r, s)
        BY <1>1, <1>3, <1>4 DEF Becomes, Given
      <4> QED
        BY <4>1, <4>2
    <3>6. Counted' = Counted \cup received
      BY <1>1, <3>4, <3>5 DEF Counted
    <3>7. Cardinality(Counted \cup received) = Cardinality(Counted) + Cardinality(received)
      <4> HIDE DEF received
      <4>1. Cardinality(Counted \cup received) =
              Cardinality(Counted) + Cardinality(received) - Cardinality(Counted \cap received)
        BY <1>2, WordSets, FS_Union
      <4>2. Cardinality(Counted \cap received) = 0
        BY <3>2, FS_EmptySet
      <4> QED
        BY <1>2, <4>1, <4>2, WordSets
    <3> QED
      BY <1>3, <2>1, <2>3, <3>6, <3>7 DEF Published
  <2> QED
    BY <2>2, <2>3
<1>8. \/ active' = None
      \/ active # None /\ active' \in Nat /\ active' >= active
  BY <1>1, <1>3, <1>6
<1>9. holder'[s].pc \notin {"park", "remove"}
  BY <1>4 DEF Becomes
<1> QED
  BY <1>1, <1>4, <1>5, <1>7, <1>8, <1>9, WordFrame

\* A task removes the share it parks or acknowledged, which the word still counts.
LEMMA RemoveWords ==
  ASSUME AckInv, Balance, Words, NEW s \in Share, RemoveShare(s)
  PROVE  Words'
<1> USE DEF words, reports, owner, tracker
<1>1. /\ holder[s].pc \in {"park", "remove"} /\ pending' = pending
      /\ active \in Nat \cup {None} /\ Consistent(s) /\ ParkedUnsettled(s)
      /\ IsHolder(holder[s]) /\ holder = [r \in Share |-> holder[r]]
      /\ holder[s].receivers = {}
  BY DEF RemoveShare, AckInv, Shape, Balance, OwnerShape, Words, Attaching
<1>2. s \in Removing /\ s \in Counted
  BY <1>1 DEF Removing, Counted, WorkedOn, Consistent, Unparks
<1>3. Cardinality(Removing) # 0 /\ Cardinality(Counted) # 0
  BY <1>2, WordSets, FS_EmptySet
<1>4. active # None => active # 0
  BY <1>1, <1>3, WordSets DEF Words
<1>5. CASE active = None
  <2>1. Return(s) /\ active' = None /\ pending = 0
    BY <1>1, <1>5, WordSets, AckAssumption DEF RemoveShare, Words
  <2>2. Others(s) /\ Becomes(s, "ready", holder[s].guard, holder[s].fate, {}, FALSE)
    BY <1>1, <2>1, ReturnEffect
  <2>3. Ready.pc = "ready" /\ Ready.guard = FALSE
    BY DEF Ready, Task
  <2>4. \A r \in Share : ParkedUnsettled(r)'
    <3> SUFFICES ASSUME NEW r \in Share PROVE ParkedUnsettled(r)'
      OBVIOUS
    <3>1. CASE r = s
      BY <3>1, <1>1, <2>2 DEF Becomes, ParkedUnsettled, Unparks
    <3>2. CASE r # s /\ holder'[r] = holder[r]
      BY <3>2 DEF Words, ParkedUnsettled, Unparks
    <3>3. CASE r # s /\ holder'[r] = Ready
      BY <3>3, <2>3 DEF ParkedUnsettled, Unparks
    <3> QED
      BY <2>2, <3>1, <3>2, <3>3 DEF Others
  <2> QED
    BY <1>1, <2>1, <2>4 DEF Words
<1>6. CASE active # None
  <2> DEFINE pc == IF active = 1 THEN "idle" ELSE "ready"
             guard == holder[s].guard \/ holder[s].pc = "park"
  <2>1. /\ active' = active - 1
        /\ holder' = [holder EXCEPT ![s].pc = pc, ![s].guard = guard]
    BY <1>4, <1>6, Zenon DEF RemoveShare
  <2>2. pc \in {"idle", "ready"} /\ guard \in BOOLEAN /\ (guard = FALSE => holder[s].pc # "park")
        /\ (guard = TRUE => holder[s].guard = TRUE \/ holder[s].pc = "park")
    BY <1>1 DEF Consistent
  <2> HIDE DEF pc, guard
  <2>3. holder'[s] = [holder[s] EXCEPT !.pc = pc, !.guard = guard] /\ Alone(s)
    BY <1>1, <2>1 DEF Alone
  <2>4. Becomes(s, pc, guard, holder[s].fate, {}, holder[s].held)
    BY <1>1, <2>3 DEF IsHolder, Becomes
  <2>5. \A r \in Share : ParkedUnsettled(r)'
    <3> SUFFICES ASSUME NEW r \in Share PROVE ParkedUnsettled(r)'
      OBVIOUS
    <3>1. CASE r = s
      BY <3>1, <1>1, <2>2, <2>4 DEF Becomes, ParkedUnsettled, Unparks, Consistent
    <3>2. CASE r # s
      BY <3>2, <2>3 DEF Alone, Words, ParkedUnsettled, Unparks
    <3> QED
      BY <3>1, <3>2
  <2>6. Counted' = Counted \ {s}
    <3>1. ~WorkedOn(s)'
      BY <1>1, <2>2, <2>4, AckAssumption DEF Becomes, WorkedOn, Consistent
    <3>2. \A r \in Share : Given(r, s)' <=> Given(r, s)
      BY <1>1, <2>4 DEF Becomes, Given
    <3>3. Counted' \ {s} = Counted \ {s} /\ s \notin Counted'
      BY <1>1, <2>2, <2>3, <2>4, <3>1, <3>2, CountedMove DEF Becomes
    <3> QED
      BY <3>3
  <2>7. Removing' = Removing \ {s}
    BY <2>2, <2>3, <2>4 DEF Becomes, Alone, Removing
  <2>8. /\ Cardinality(Counted') = Cardinality(Counted) - 1
        /\ Cardinality(Removing') = Cardinality(Removing) - 1
    BY <1>2, <2>6, <2>7, WordSets, FS_RemoveElement
  <2>9. active \in Nat
    BY <1>1, <1>6
  <2>10. pending' # 0 => active' = Cardinality(Counted')
    BY <1>1, <2>1, <2>8 DEF Words
  <2>11. pending' = 0 /\ active' # None => active' >= Cardinality(Removing')
    BY <1>1, <1>6, <2>1, <2>8, <2>9, WordSets DEF Words
  <2> QED
    BY <2>5, <2>10, <2>11 DEF Words
<1> QED
  BY <1>5, <1>6

\* A local task that settles its share works on it: the word counts the share until it
\* is removed, or closes with the root.
LEMMA SettleWords ==
  ASSUME Remote = {}, AckInv, Balance, Words, NEW s \in Share, AckSuccess(s) \/ NoAck(s)
  PROVE  Words'
<1> USE DEF words, reports, owner, tracker
<1>1. /\ active' = active /\ holder[s].pc = "ready" /\ holder[s].fate = None
      /\ ~holder[s].guard
  BY DEF AckSuccess, NoAck, Settles, Owns
<1>2. /\ active \in Nat \cup {None} /\ holder[s].guard = FALSE /\ IsHolder(holder[s])
      /\ holder = [r \in Share |-> holder[r]] /\ pending \in Nat
      /\ holder[s].receivers = {}
  BY <1>1 DEF AckInv, Shape, Balance, OwnerShape, Attaching, Consistent
<1>3. PICK pc \in {"ready", "complete", "remove"}, fate \in {"acked", "refused"} :
        /\ holder' = [holder EXCEPT ![s].fate = fate, ![s].pc = pc]
        /\ pending' # 0 => pending # 0 /\ pc = "remove"
        /\ pending' = 0 => pc # "remove"
  <2>1. CASE AckSuccess(s)
    <3> DEFINE pc == CASE pending = 0 -> "ready"
                       [] pending = 1 -> "complete"
                       [] OTHER       -> "remove"
    <3>1. /\ holder' = [holder EXCEPT ![s].fate = "acked", ![s].pc = pc]
          /\ pending' = IF pending = 0 THEN 0 ELSE pending - 1
      BY <2>1 DEF AckSuccess, IsResolved
    <3>2. /\ pc \in {"ready", "complete", "remove"}
          /\ pc = "remove" <=> pending \notin {0, 1}
      OBVIOUS
    <3> HIDE DEF pc
    <3>3. pending' # 0 <=> pending \notin {0, 1}
      BY <1>2, <3>1
    <3> QED
      BY <3>1, <3>2, <3>3, Zenon
  <2>2. CASE NoAck(s)
    <3> DEFINE pc == IF pending = 0 THEN "ready" ELSE "complete"
    <3>1. /\ holder' = [holder EXCEPT ![s].fate = "refused", ![s].pc = pc]
          /\ pending' = 0
      BY <2>2 DEF NoAck, IsResolved
    <3>2. pc \in {"ready", "complete"}
      OBVIOUS
    <3> HIDE DEF pc
    <3> QED
      BY <3>1, <3>2
  <2> QED
    BY <2>1, <2>2
<1>4. holder'[s] = [holder[s] EXCEPT !.fate = fate, !.pc = pc] /\ Alone(s) /\ Others(s)
  BY <1>2, <1>3 DEF Others, Alone
<1>5. Becomes(s, pc, FALSE, fate, {}, holder[s].held)
  BY <1>2, <1>4 DEF IsHolder, Becomes
<1>6. ParkedUnsettled(s)'
  BY <1>5 DEF Becomes, ParkedUnsettled, Unparks
<1>7. ASSUME pending' # 0 PROVE active' = Cardinality(Counted')
  <2>1. \A r \in Share : Given(r, s)' <=> Given(r, s)
    BY <1>2, <1>5 DEF Becomes, Given
  <2>2. WorkedOn(s) /\ WorkedOn(s)'
    BY <1>1, <1>2, <1>3, <1>5, <1>7 DEF Becomes, WorkedOn, Unparks
  <2>3. Counted' \ {s} = Counted \ {s} /\ s \in Counted /\ s \in Counted'
    BY <1>1, <1>3, <1>4, <1>5, <2>1, <2>2, CountedMove DEF Becomes
  <2>4. Counted' = Counted
    BY <2>3
  <2> QED
    BY <1>1, <1>3, <1>7, <2>4 DEF Words
<1>8. pending' = 0 => /\ holder'[s].pc \notin {"park", "remove"}
                      /\ \/ active' = None
                         \/ active # None /\ active' \in Nat /\ active' >= active
  BY <1>1, <1>2, <1>3, <1>5 DEF Becomes
<1> QED
  BY <1>1, <1>4, <1>6, <1>7, <1>8, WordFrame

\* The end of the root closes the word, and afterwards removes nothing.
LEMMA EndWords ==
  ASSUME AckInv, Balance, Words, NEW s \in Share,
         Complete(s) \/ ReleaseHandoff(s) \/ ReleaseRoot(s) \/ FinishCompletion(s)
  PROVE  Words'
<1> USE DEF words, reports, owner, tracker, Resolving
<1>1. /\ pending' = pending /\ holder[s].pc \in Resolving
      /\ active' = active \/ active' = None
  BY DEF Complete, ReleaseHandoff, ReleaseRoot, FinishCompletion
<1>2. /\ active \in Nat \cup {None} /\ Consistent(s) /\ IsHolder(holder[s])
      /\ holder = [r \in Share |-> holder[r]] /\ pending = 0
      /\ holder[s].receivers = {} /\ ParkedUnsettled(s)
  BY <1>1 DEF AckInv, Shape, Balance, OwnerShape, Attaching, Consistent, Words
<1>3. PICK pc \in {"ready", "deliver", "untrack", "unroot"} :
        /\ Others(s)
        /\ holder'[s].pc = pc /\ holder'[s].guard = holder[s].guard
        /\ holder'[s].fate = holder[s].fate
  <2>1. CASE Complete(s)
    <3> DEFINE pc == IF release = "AfterConfirmation" THEN "deliver"
                     ELSE IF active \notin {None, 0} THEN "untrack" ELSE "unroot"
               held == active \notin {None, 0}
    <3>1. holder' = [holder EXCEPT ![s].held = held, ![s].pc = pc]
      BY <2>1, Zenon DEF Complete
    <3>2. pc \in {"deliver", "untrack", "unroot"}
      OBVIOUS
    <3> HIDE DEF pc, held
    <3>3. holder'[s] = [holder[s] EXCEPT !.held = held, !.pc = pc] /\ Others(s)
      BY <1>2, <3>1 DEF Others
    <3> QED
      BY <1>2, <3>2, <3>3 DEF IsHolder
  <2>2. ASSUME NEW pc \in {"deliver", "untrack", "unroot"}, Goto(s, pc)
        PROVE  /\ Others(s)
               /\ holder'[s].pc = pc /\ holder'[s].guard = holder[s].guard
               /\ holder'[s].fate = holder[s].fate
    BY <2>2, GotoEffect DEF Becomes
  <2>3. ASSUME Return(s)
        PROVE  /\ Others(s)
               /\ holder'[s].pc = "ready" /\ holder'[s].guard = holder[s].guard
               /\ holder'[s].fate = holder[s].fate
    BY <1>1, <2>3, ReturnEffect DEF Becomes
  <2>4. Complete(s) \/ Return(s) \/ \E pc \in {"deliver", "untrack", "unroot"} : Goto(s, pc)
    BY DEF ReleaseHandoff, ReleaseRoot, FinishCompletion
  <2> QED
    BY <2>1, <2>2, <2>3, <2>4
<1>4. ParkedUnsettled(s)'
  BY <1>2, <1>3 DEF ParkedUnsettled, Unparks
<1>5. /\ holder'[s].pc \notin {"park", "remove"}
      /\ \/ active' = None
         \/ active # None /\ active' \in Nat /\ active' >= active
  BY <1>1, <1>2, <1>3
<1> QED
  BY <1>1, <1>2, <1>3, <1>4, <1>5, WordFrame

\* The owner's steps touch neither word nor task.
LEMMA OwnerWords ==
  ASSUME Words,
         DropCompletion \/ ConfirmHandoff \/ ConfirmRoot \/ DropAckState \/ UNCHANGED vars
  PROVE  Words'
<1> USE DEF words, reports, owner, tracker
<1>1. pending' = pending /\ active' = active /\ holder' = holder
  BY DEF DropCompletion, ConfirmHandoff, ConfirmRoot, DropAckState, vars
<1>2. Counted' = Counted /\ Removing' = Removing
  BY <1>1 DEF Counted, Removing, WorkedOn, Given, Unparks
<1>3. \A s \in Share : ParkedUnsettled(s)'
  BY <1>1 DEF Words, ParkedUnsettled, Unparks
<1> QED
  BY <1>1, <1>2, <1>3 DEF Words

\* Where every share is local, every step keeps the word exact until the root is
\* resolved, and large enough for what is still to be removed afterwards.
LEMMA WordsStep ==
  ASSUME Remote = {}
  PROVE  AckInv /\ Balance /\ Words /\ [Next]_vars => Words'
<1> SUFFICES ASSUME AckInv, Balance, Words, [Next]_vars PROVE Words'
  OBVIOUS
<1>1. ASSUME NEW s \in Share, Works(s) PROVE Words'
  BY <1>1, QuietWords, PublishWords, RemoveWords, EndWords DEF Works
<1>2. ASSUME NEW s \in Share, Starts(s) PROVE Words'
  BY <1>2, QuietWords, SettleWords DEF Starts
<1> QED
  BY <1>1, <1>2, OwnerWords DEF Next

\* While a root of local shares is unresolved and a task owns an active share of it, the
\* tracker's handoff count is positive: an ownership handoff never misses active work,
\* whatever the number of shares.
THEOREM HandoffNeverMisses ==
  ASSUME Remote = {}
  PROVE  Spec => []HandoffSeesActiveWork
<1>1. AckInv /\ Balance /\ Words => HandoffSeesActiveWork
  <2> SUFFICES ASSUME AckInv, Balance, Words, pending # 0, NEW s \in Share, Active(s)
               PROVE  handoff > 0
    BY DEF HandoffSeesActiveWork, IsResolved
  <2>1. s \in Counted /\ ~Gone(s)
    BY DEF Counted, WorkedOn, Unparks, Active, Gone, Balance, Consistent
  <2>2. active \in Nat /\ active # 0
    BY <2>1, WordSets, FS_EmptySet DEF Words
  <2>3. Bit(WordHeld) = 1
    BY <2>1, <2>2, AckAssumption DEF Bit, WordHeld, Balance, Ends
  <2>4. Tokens \in SUBSET Share
    BY DEF Tokens
  <2>5. Cardinality(Tokens) \in Nat
    BY <2>4, AckAssumption, FS_Subset, FS_CardinalityType
  <2> QED
    BY <2>3, <2>5 DEF Balance, HandoffExact, Bit
<1>2. AckInv /\ Balance /\ Words /\ [Next]_vars => Words'
  BY WordsStep
<1> QED
  BY <1>1, <1>2, AckInit, AckStep, BalanceInit, BalanceStep, WordsInit, PTL DEF Spec

\* A local task that parks or acknowledged its share never finds the word empty: no task
\* takes the share another still works on, as remove_share asserts.
THEOREM OwnShareRemoved ==
  ASSUME Remote = {}
  PROVE  Spec => []RemovesOwnShare
<1>1. AckInv /\ Balance /\ Words => RemovesOwnShare
  <2> SUFFICES ASSUME AckInv, Balance, Words, NEW s \in Share,
                      holder[s].pc \in {"park", "remove"}
               PROVE  active # 0
    BY DEF RemovesOwnShare
  <2>1. s \in Counted /\ s \in Removing
    BY DEF Counted, Removing, WorkedOn, Unparks, Balance, Consistent
  <2>2. Cardinality(Counted) # 0 /\ Cardinality(Removing) # 0
    BY <2>1, WordSets, FS_EmptySet
  <2> QED
    BY <2>2, WordSets, AckAssumption DEF Words
<1>2. AckInv /\ Balance /\ Words /\ [Next]_vars => Words'
  BY WordsStep
<1> QED
  BY <1>1, <1>2, AckInit, AckStep, BalanceInit, BalanceStep, WordsInit, PTL DEF Spec

\* Between operations the shares that are counted are those some task has to settle.
LEMMA QuietCounted ==
  ASSUME AckInv, Balance, \A s \in Share : holder[s].pc \in {"absent", "ready"}
  PROVE  Counted # {} <=> Working
<1>1. \A s, p \in Share : ~Given(s, p)
  BY DEF Given, AckInv, Shape, Attaching
<1>2. \A s \in Share : WorkedOn(s) <=> /\ holder[s].pc # "absent" /\ ~holder[s].guard
                                      /\ holder[s].fate \in {None, "dropped"}
  BY DEF WorkedOn, Unparks, Balance, Consistent
<1> QED
  BY <1>1, <1>2 DEF Counted, Working

\* Between operations nothing is counted twice or left behind: the tracker counts a root
\* of local shares while it is unresolved or unconfirmed, and waits for it exactly when it
\* has an active share or had one as it resolved unconfirmed.
THEOREM CountsSettled ==
  ASSUME Remote = {}
  PROVE  Spec => []CountsSettle
<1>1. AckInv /\ Balance /\ Words => CountsSettle
  <2> DEFINE confirmed == completion.confirmation # None
             counted == (pending # 0 /\ ~dropped) \/ confirmed
             waited == \/ pending # 0 /\ ~dropped /\ Working
                       \/ confirmed /\ completion.confirmation.handoff
  <2> SUFFICES ASSUME AckInv, Balance, Words, Quiet
               PROVE  /\ outstanding = (IF counted THEN 1 ELSE 0)
                      /\ handoff = (IF waited THEN 1 ELSE 0)
    BY DEF CountsSettle, IsResolved
  <2>1. /\ \A s \in Share : holder[s].pc \in {"absent", "ready"}
        /\ completion.pc \in {"waiting", "dropped"}
    BY DEF Quiet
  <2>2. Tokens = {} /\ Roots = {}
    BY <2>1 DEF Tokens, Roots, Token, RootToken
  <2>3. /\ outstanding = Bit(Unresolved) + Bit(Unconfirmed) /\ outstanding <= 1
        /\ handoff = Bit(WordHeld) + Bit(Confirming)
    BY <2>2, FS_EmptySet DEF Balance, HandoffExact, RootExact, Bit
  <2>4. dropped \in BOOLEAN
    BY DEF Balance
  <2>5. Confirming <=> confirmed /\ completion.confirmation.handoff
    <3>1. [handoff |-> TRUE] # None
      <4>1. [handoff |-> TRUE] \in [handoff : BOOLEAN]
        OBVIOUS
      <4> QED
        BY <4>1, AckAssumption
    <3>2. \/ completion.confirmation = None
          \/ completion.confirmation = [handoff |-> TRUE]
          \/ completion.confirmation = [handoff |-> FALSE]
      BY DEF Balance, OwnerShape
    <3>3. CASE completion.confirmation = None
      BY <3>1, <3>3 DEF Confirming
    <3>4. CASE completion.confirmation = [handoff |-> TRUE]
      <4>1. completion.pc = "waiting"
        BY <2>1, <3>1, <3>4 DEF Balance, OwnerShape
      <4> QED
        BY <3>1, <3>4, <4>1 DEF Confirming
    <3>5. CASE completion.confirmation = [handoff |-> FALSE]
      BY <3>5 DEF Confirming
    <3> QED
      BY <3>2, <3>3, <3>4, <3>5
  <2>6. WordHeld <=> pending # 0 /\ ~dropped /\ Working
    <3>1. CASE pending = 0
      BY <3>1, <2>1 DEF WordHeld, Balance, Ends
    <3>2. CASE pending # 0
      <4>1. Counted # {} <=> Working
        BY <2>1, QuietCounted
      <4>2. active \in Nat /\ (active = 0 <=> Counted = {})
        BY <3>2, WordSets, FS_EmptySet DEF Words
      <4> QED
        BY <2>4, <3>2, <4>1, <4>2, AckAssumption DEF WordHeld
    <3> QED
      BY <3>1, <3>2
  <2>7. /\ Unresolved <=> pending # 0 /\ ~dropped
        /\ Unconfirmed <=> confirmed
    BY <2>4 DEF Unresolved, Unconfirmed
  <2>8. ~(Unresolved /\ Unconfirmed)
    BY <2>3 DEF Bit
  <2>9. outstanding = (IF counted THEN 1 ELSE 0)
    BY <2>3, <2>7, <2>8 DEF Bit
  <2>10. waited <=> WordHeld \/ Confirming
    BY <2>5, <2>6
  <2>11. ~(WordHeld /\ Confirming)
    BY <2>5, <2>6, <2>7, <2>8
  <2>12. handoff = (IF WordHeld \/ Confirming THEN 1 ELSE 0)
    BY <2>3, <2>11 DEF Bit
  <2> HIDE DEF counted, waited
  <2> QED
    BY <2>9, <2>10, <2>12
<1>2. AckInv /\ Balance /\ Words /\ [Next]_vars => Words'
  BY WordsStep
<1> QED
  BY <1>1, <1>2, AckInit, AckStep, BalanceInit, BalanceStep, WordsInit, PTL DEF Spec

-----------------------------------------------------------------------------
(* What the completion observes.                                           *)

\* A task that has still to draw a sequence, and one that drew one and has to send it.
Drawing(s) == holder[s].pc \in {"idle", "sequence"}
Reporting(s) == holder[s].pc \in {"observe", "observeActive", "send"}
Latest(s) == Reporting(s) /\ holder[s].seen.sequence = progress

\* Sequences are drawn once: no two reports have the same, and none that is still to be
\* sent has the one that was sent.
DrawnOnce ==
  /\ progress \in Nat /\ status.sequence \in 0..progress /\ status.parked \in BOOLEAN
  /\ \A s \in Share : Reporting(s) =>
       /\ holder[s].seen = [sequence |-> holder[s].seen.sequence,
                            parked |-> holder[s].seen.parked]
       /\ holder[s].seen.sequence \in 1..progress /\ holder[s].seen.parked \in BOOLEAN
       /\ holder[s].seen.sequence # status.sequence
       /\ \A r \in Share :
            Reporting(r) /\ holder[r].seen.sequence = holder[s].seen.sequence => r = s

\* The latest sequence is on its way, or it was sent and stays.
LatestStays == (\A s \in Share : ~Latest(s)) => status.sequence = progress

\* Unless a task is about to draw, the latest report says whether the word is empty.
Observed ==
  pending # 0 =>
    /\ \A s \in Share : holder[s].pc = "observeActive" => holder[s].seen.parked = TRUE
    /\ (\A s \in Share : ~Drawing(s)) =>
         /\ \A s \in Share : Latest(s) /\ holder[s].pc = "send" =>
              (holder[s].seen.parked <=> active = 0)
         /\ (\A s \in Share : ~Latest(s)) => (status.parked <=> active = 0)

Reports == DrawnOnce /\ LatestStays /\ Observed

\* The first report is the state's own: the root share is worked on.
LEMMA ReportsInit == Init => Reports
<1> SUFFICES ASSUME Init PROVE Reports
  OBVIOUS
<1>1. /\ progress = 0 /\ status = [sequence |-> 0, parked |-> FALSE] /\ active = 1
      /\ \A s \in Share : holder[s].pc \in {"ready", "absent"}
  BY DEF Init, Ready, Absent, Task
<1>2. \A s \in Share : ~Reporting(s) /\ ~Drawing(s) /\ ~Latest(s)
                       /\ holder[s].pc # "observeActive"
  BY <1>1 DEF Reporting, Drawing, Latest
<1> QED
  BY <1>1, <1>2 DEF Reports, DrawnOnce, LatestStays, Observed

\* Steps that report nothing: what makes the word empty, or active, draws a sequence
\* afterwards.
LEMMA ReportsKept ==
  ASSUME Reports, NEW s \in Share, Others(s), progress' = progress, status' = status,
         ~Reporting(s), ~Reporting(s)', pending' # 0 => pending # 0,
         Drawing(s) => Drawing(s)',
         (active' = 0 <=> active = 0) \/ Drawing(s)' \/ pending' = 0
  PROVE  Reports'
<1>1. \A r \in Share : /\ Reporting(r)' <=> Reporting(r)
                       /\ Reporting(r) => holder'[r] = holder[r]
  BY DEF Others, Reporting, Ready, Task
<1>2. \A r \in Share : Latest(r)' <=> Latest(r)
  BY <1>1 DEF Latest
<1>3. \A r \in Share : Drawing(r) => Drawing(r)'
  BY DEF Others, Drawing
<1>4. DrawnOnce'
  BY <1>1 DEF Reports, DrawnOnce
<1>5. LatestStays'
  BY <1>2 DEF Reports, LatestStays
<1>6. Observed'
  <2> SUFFICES ASSUME pending' # 0
               PROVE  /\ \A r \in Share : holder'[r].pc = "observeActive" =>
                                            holder'[r].seen.parked = TRUE
                      /\ (\A r \in Share : ~Drawing(r)') =>
                           /\ \A r \in Share : Latest(r)' /\ holder'[r].pc = "send" =>
                                (holder'[r].seen.parked <=> active' = 0)
                           /\ (\A r \in Share : ~Latest(r)') => (status'.parked <=> active' = 0)
    BY DEF Observed
  <2>1. pending # 0
    OBVIOUS
  <2>2. \A r \in Share : holder'[r].pc = "observeActive" => holder'[r].seen.parked = TRUE
    BY <1>1, <2>1 DEF Reports, Observed, Reporting
  <2>3. ASSUME \A r \in Share : ~Drawing(r)'
        PROVE  /\ \A r \in Share : Latest(r)' /\ holder'[r].pc = "send" =>
                    (holder'[r].seen.parked <=> active' = 0)
               /\ (\A r \in Share : ~Latest(r)') => (status'.parked <=> active' = 0)
    <3>1. (active' = 0 <=> active = 0) /\ \A r \in Share : ~Drawing(r)
      BY <1>3, <2>3
    <3>2. ASSUME NEW r \in Share, Latest(r)', holder'[r].pc = "send"
          PROVE  holder'[r].seen.parked <=> active' = 0
      <4>1. Latest(r) /\ holder'[r] = holder[r]
        BY <1>1, <1>2, <3>2 DEF Latest
      <4> QED
        BY <2>1, <3>1, <3>2, <4>1 DEF Reports, Observed
    <3>3. (\A r \in Share : ~Latest(r)') => (status'.parked <=> active' = 0)
      BY <1>2, <2>1, <3>1 DEF Reports, Observed
    <3> QED
      BY <3>2, <3>3
  <2> QED
    BY <2>2, <2>3
<1> QED
  BY <1>4, <1>5, <1>6 DEF Reports

\* The steps of attachments, parks, settlements and of the root's end report nothing.
LEMMA UnreportedSteps ==
  ASSUME AckInv, Balance, Reports, NEW s \in Share,
         \/ ReservePendingShares(s) \/ Park(s) \/ AckAlive(s) \/ DropHandle(s)
         \/ \E receivers \in SUBSET Share : Attach(s, receivers)
         \/ Unpark(s) \/ ReleaseReservation(s) \/ ReleaseIdle(s)
         \/ PublishShares(s) \/ RemoveShare(s)
  PROVE  Reports'
<1> USE DEF words, reports, owner, tracker
<1>1. progress' = progress /\ status' = status
  BY DEF ReservePendingShares, Park, AckAlive, DropHandle, Attach, Unpark,
         ReleaseReservation, ReleaseIdle, PublishShares, RemoveShare
<1>2. /\ holder = [r \in Share |-> holder[r]] /\ IsHolder(holder[s])
      /\ active \in Nat \cup {None}
  BY DEF AckInv, Shape, Balance, OwnerShape
<1>3. pending' # 0 => pending # 0
  BY ReserveKeepsUnresolved DEF ReservePendingShares, Park, AckAlive, DropHandle, Attach,
     Unpark, ReleaseReservation, ReleaseIdle, PublishShares, RemoveShare
<1>4. SUFFICES /\ Others(s) /\ ~Reporting(s) /\ ~Reporting(s)'
               /\ Drawing(s) => Drawing(s)'
               /\ (active' = 0 <=> active = 0) \/ Drawing(s)'
  BY <1>1, <1>3, ReportsKept
<1>5. CASE ReservePendingShares(s) \/ Park(s) \/ AckAlive(s) \/ ReleaseIdle(s)
  <2>1. /\ holder[s].pc \in {"reserve", "ready", "idle"} /\ active' = active
        /\ \E pc \in {"release", "publish", "park", "sequence"} :
             Goto(s, pc) /\ (holder[s].pc = "idle" => pc = "sequence")
    BY <1>5 DEF ReservePendingShares, Park, AckAlive, ReleaseIdle, Owns
  <2>2. PICK pc \in {"release", "publish", "park", "sequence"} :
          Goto(s, pc) /\ (holder[s].pc = "idle" => pc = "sequence")
    BY <2>1
  <2>3. Others(s) /\ holder'[s].pc = pc
    BY <2>2, GotoEffect DEF Becomes
  <2> QED
    BY <2>1, <2>2, <2>3 DEF Reporting, Drawing
<1>6. CASE DropHandle(s)
  <2>1. /\ holder[s].pc = "ready" /\ active' = active
        /\ holder'[s] = [holder[s] EXCEPT !.fate = "dropped"] /\ Others(s)
    BY <1>2, <1>6 DEF DropHandle, Owns, Others
  <2>2. holder'[s].pc = "ready"
    BY <1>2, <2>1 DEF IsHolder
  <2> QED
    BY <2>1, <2>2 DEF Reporting, Drawing
<1>7. CASE \E receivers \in SUBSET Share : Attach(s, receivers)
  <2>1. PICK receivers \in SUBSET Share : Attach(s, receivers)
    BY <1>7
  <2>2. /\ holder[s].pc = "ready" /\ active' = active
        /\ holder'[s] = [holder[s] EXCEPT !.pc = "reserve", !.receivers = receivers]
        /\ Others(s)
    BY <1>2, <2>1 DEF Attach, Owns, Others
  <2>3. holder'[s].pc = "reserve"
    BY <1>2, <2>2 DEF IsHolder
  <2> QED
    BY <2>2, <2>3 DEF Reporting, Drawing
<1>8. CASE Unpark(s)
  <2>1. /\ holder[s].pc = "ready" /\ active' = active
        /\ holder'[s] = [holder[s] EXCEPT !.pc = "publish", !.guard = FALSE] /\ Others(s)
    BY <1>2, <1>8 DEF Unpark, Others
  <2>2. holder'[s].pc = "publish"
    BY <1>2, <2>1 DEF IsHolder
  <2> QED
    BY <2>1, <2>2 DEF Reporting, Drawing
<1>9. CASE ReleaseReservation(s)
  <2>1. holder[s].pc = "release" /\ Return(s) /\ active' = active
    BY <1>9 DEF ReleaseReservation
  <2>2. Others(s) /\ holder'[s].pc = "ready"
    BY <2>1, ReturnEffect DEF Becomes
  <2> QED
    BY <2>1, <2>2 DEF Reporting, Drawing
<1>10. CASE PublishShares(s)
  <2>1. Published(s) \in Nat \ {0}
    <3>1. holder[s].receivers \in SUBSET Share
      BY DEF AckInv, Shape
    <3>2. IsFiniteSet(holder[s].receivers) /\ Cardinality(holder[s].receivers) \in Nat
      BY <3>1, AckAssumption, FS_Subset, FS_CardinalityType
    <3> QED
      BY <3>2, FS_EmptySet DEF Published
  <2>2. PICK pc \in {"release", "sequence"} :
          /\ holder[s].pc = "publish" /\ Goto(s, pc)
          /\ active = None => active' = active
          /\ active # None => /\ active' = active + Published(s)
                              /\ active = 0 => pc = "sequence"
    BY <1>10 DEF PublishShares
  <2>3. Others(s) /\ holder'[s].pc = pc
    BY <2>2, GotoEffect DEF Becomes
  <2>4. active = 0 \/ (active' = 0 <=> active = 0)
    BY <1>2, <2>1, <2>2
  <2> QED
    BY <2>2, <2>3, <2>4, AckAssumption DEF Reporting, Drawing
<1>11. CASE RemoveShare(s)
  <2>1. holder[s].pc \in {"park", "remove"}
    BY <1>11 DEF RemoveShare
  <2>2. CASE active \in {None, 0}
    <3>1. Return(s) /\ active' = active
      BY <1>11, <2>2 DEF RemoveShare
    <3>2. Others(s) /\ holder'[s].pc = "ready"
      BY <2>1, <3>1, ReturnEffect DEF Becomes
    <3> QED
      BY <2>1, <3>1, <3>2 DEF Reporting, Drawing
  <2>3. CASE active \notin {None, 0}
    <3> DEFINE pc == IF active = 1 THEN "idle" ELSE "ready"
    <3>1. /\ active' = active - 1
          /\ holder' = [holder EXCEPT ![s].pc = pc, ![s].guard = @ \/ holder[s].pc = "park"]
      BY <1>11, <2>3 DEF RemoveShare
    <3>2. PICK h : /\ h = [holder[s] EXCEPT !.pc = pc, !.guard = @ \/ holder[s].pc = "park"]
                   /\ holder' = [holder EXCEPT ![s] = h]
      BY <1>2, <3>1
    <3>3. h.pc = pc
      BY <1>2, <3>2 DEF IsHolder
    <3>4. Others(s) /\ holder'[s].pc = pc
      BY <1>2, <3>2, <3>3 DEF Others
    <3>5. active = 1 \/ (active' # 0 /\ active # 0)
      BY <1>2, <2>3, <3>1
    <3> QED
      BY <2>1, <3>4, <3>5 DEF Reporting, Drawing
  <2> QED
    BY <2>2, <2>3
<1> QED
  BY <1>5, <1>6, <1>7, <1>8, <1>9, <1>10, <1>11

\* Settling a share resolves the root or removes the share later, and the steps of the
\* root's end come after it is resolved.
LEMMA UnreportedEnd ==
  ASSUME AckInv, Balance, Reports, NEW s \in Share,
         \/ AckSuccess(s) \/ NoAck(s) \/ Complete(s) \/ ReleaseHandoff(s) \/ ReleaseRoot(s)
         \/ FinishCompletion(s)
  PROVE  Reports'
<1> USE DEF words, reports, owner, tracker
<1>1. progress' = progress /\ status' = status
  BY DEF AckSuccess, NoAck, Complete, ReleaseHandoff, ReleaseRoot, FinishCompletion
<1>2. holder = [r \in Share |-> holder[r]] /\ IsHolder(holder[s]) /\ Consistent(s)
  BY DEF AckInv, Shape, Balance
<1>3. SUFFICES /\ Others(s) /\ ~Reporting(s) /\ ~Reporting(s)' /\ ~Drawing(s)
               /\ pending' # 0 => pending # 0
               /\ active' = active \/ pending' = 0
  BY <1>1, ReportsKept
<1>4. CASE AckSuccess(s) \/ NoAck(s)
  <2>1. /\ holder[s].pc = "ready" /\ active' = active /\ (pending = 0 => pending' = 0)
        /\ \E pc \in {"ready", "complete", "remove"}, fate \in {"acked", "refused"} :
             holder' = [holder EXCEPT ![s].fate = fate, ![s].pc = pc]
    <3>1. CASE AckSuccess(s)
      <4> DEFINE pc == CASE pending = 0 -> "ready"
                         [] pending = 1 -> "complete"
                         [] OTHER       -> "remove"
      <4>1. /\ holder[s].pc = "ready" /\ active' = active /\ (pending = 0 => pending' = 0)
            /\ holder' = [holder EXCEPT ![s].fate = "acked", ![s].pc = pc]
        BY <3>1 DEF AckSuccess, Settles, Owns, IsResolved
      <4>2. pc \in {"ready", "complete", "remove"}
        OBVIOUS
      <4> HIDE DEF pc
      <4> QED
        BY <4>1, <4>2
    <3>2. CASE NoAck(s)
      BY <3>2 DEF NoAck, Settles, Owns
    <3> QED
      BY <1>4, <3>1, <3>2
  <2>2. PICK pc \in {"ready", "complete", "remove"}, fate \in {"acked", "refused"} :
          holder' = [holder EXCEPT ![s].fate = fate, ![s].pc = pc]
    BY <2>1
  <2>3. holder'[s] = [holder[s] EXCEPT !.fate = fate, !.pc = pc] /\ Others(s)
    BY <1>2, <2>2 DEF Others
  <2>4. holder'[s].pc = pc
    BY <1>2, <2>3 DEF IsHolder
  <2> QED
    BY <2>1, <2>2, <2>3, <2>4 DEF Reporting, Drawing
<1>5. CASE Complete(s)
  <2>1. holder[s].pc = "complete" /\ pending' = pending
    BY <1>5 DEF Complete
  <2>2. PICK pc \in {"deliver", "untrack", "unroot"}, held \in BOOLEAN :
          holder' = [holder EXCEPT ![s].held = held, ![s].pc = pc]
    BY <1>5 DEF Complete
  <2>3. holder'[s] = [holder[s] EXCEPT !.held = held, !.pc = pc] /\ Others(s)
    BY <1>2, <2>2 DEF Others
  <2>4. holder'[s].pc = pc
    BY <1>2, <2>3 DEF IsHolder
  <2> QED
    BY <1>2, <2>1, <2>2, <2>3, <2>4 DEF Reporting, Drawing, Consistent, Resolving
<1>6. CASE ReleaseHandoff(s) \/ ReleaseRoot(s) \/ FinishCompletion(s)
  <2>1. /\ holder[s].pc \in {"untrack", "unroot", "deliver"}
        /\ pending' = pending /\ active' = active
        /\ Return(s) \/ \E pc \in {"untrack", "unroot", "deliver"} : Goto(s, pc)
    BY <1>6 DEF ReleaseHandoff, ReleaseRoot, FinishCompletion
  <2>2. Others(s) /\ holder'[s].pc \in {"ready", "untrack", "unroot", "deliver"}
    BY <2>1, ReturnEffect, GotoEffect DEF Becomes
  <2> QED
    BY <2>1, <2>2 DEF Reporting, Drawing
<1> QED
  BY <1>4, <1>5, <1>6

\* A task draws the next sequence: its report is the latest, and says nothing yet.
LEMMA DrawReports ==
  ASSUME AckInv, Balance, Reports, NEW s \in Share, DrawSequence(s)
  PROVE  Reports'
<1> USE DEF words, owner, tracker
<1>1. holder = [r \in Share |-> holder[r]] /\ IsHolder(holder[s])
  BY DEF AckInv, Shape
<1>2. /\ holder[s].pc = "sequence" /\ progress' = progress + 1 /\ status' = status
      /\ pending' = pending /\ active' = active
      /\ holder'[s] = [holder[s] EXCEPT !.pc = "observe",
                         !.seen = [sequence |-> progress + 1, parked |-> FALSE]]
      /\ Alone(s)
  BY <1>1 DEF DrawSequence, Alone
<1>3. /\ holder'[s].pc = "observe"
      /\ holder'[s].seen = [sequence |-> progress + 1, parked |-> FALSE]
  BY <1>1, <1>2 DEF IsHolder
<1>4. progress \in Nat /\ status.sequence \in 0..progress /\ status.parked \in BOOLEAN
  BY DEF Reports, DrawnOnce
<1>5. \A r \in Share \ {s} : (Reporting(r)' <=> Reporting(r)) /\ holder'[r] = holder[r]
  BY <1>2 DEF Alone, Reporting
<1>6. \A r \in Share \ {s} : Reporting(r) => holder[r].seen.sequence \in 1..progress
  BY DEF Reports, DrawnOnce
<1>7. Latest(s)' /\ Reporting(s)' /\ \A r \in Share \ {s} : ~Latest(r)'
  BY <1>2, <1>3, <1>4, <1>5, <1>6 DEF Latest, Reporting
<1>8. DrawnOnce'
  <2>1. progress' \in Nat /\ status'.sequence \in 0..progress' /\ status'.parked \in BOOLEAN
    BY <1>2, <1>4
  <2>2. ASSUME NEW q \in Share, Reporting(q)'
        PROVE  /\ holder'[q].seen = [sequence |-> holder'[q].seen.sequence,
                                     parked |-> holder'[q].seen.parked]
               /\ holder'[q].seen.sequence \in 1..progress' /\ holder'[q].seen.parked \in BOOLEAN
               /\ holder'[q].seen.sequence # status'.sequence
               /\ \A r \in Share : Reporting(r)' /\
                    holder'[r].seen.sequence = holder'[q].seen.sequence => r = q
    <3>1. CASE q = s
      <4>1. holder'[s].seen.sequence = progress + 1 /\ holder'[s].seen.parked = FALSE
        BY <1>3
      <4>2. \A r \in Share \ {s} : Reporting(r)' => holder'[r].seen.sequence # progress + 1
        BY <1>4, <1>5, <1>6
      <4>3. progress + 1 \in 1..progress' /\ progress + 1 # status'.sequence
        BY <1>2, <1>4
      <4> QED
        BY <1>3, <3>1, <4>1, <4>2, <4>3
    <3>2. CASE q # s
      <4>1. Reporting(q) /\ holder'[q] = holder[q]
        BY <1>5, <2>2, <3>2
      <4>2. /\ holder[q].seen = [sequence |-> holder[q].seen.sequence,
                                 parked |-> holder[q].seen.parked]
            /\ holder[q].seen.sequence \in 1..progress /\ holder[q].seen.parked \in BOOLEAN
            /\ holder[q].seen.sequence # status.sequence
            /\ \A r \in Share :
                 Reporting(r) /\ holder[r].seen.sequence = holder[q].seen.sequence => r = q
        BY <4>1 DEF Reports, DrawnOnce
      <4>3. holder'[s].seen.sequence # holder'[q].seen.sequence
        BY <1>3, <1>4, <4>1, <4>2
      <4>4. holder[q].seen.sequence \in 1..progress'
        BY <1>2, <1>4, <4>2
      <4>5. \A r \in Share : Reporting(r)' /\
              holder'[r].seen.sequence = holder'[q].seen.sequence => r = q
        BY <1>5, <4>1, <4>2, <4>3
      <4> QED
        BY <1>2, <4>1, <4>2, <4>4, <4>5
    <3> QED
      BY <3>1, <3>2
  <2> QED
    BY <2>1, <2>2 DEF DrawnOnce
<1>9. LatestStays'
  BY <1>7 DEF LatestStays
<1>10. Observed'
  <2>1. \A r \in Share : holder'[r].pc = "observeActive" => r # s /\ holder'[r] = holder[r]
    BY <1>3, <1>5
  <2>2. \A r \in Share : Latest(r)' => holder'[r].pc # "send"
    BY <1>3, <1>7
  <2> QED
    BY <1>2, <1>7, <2>1, <2>2 DEF Reports, Observed
<1> QED
  BY <1>8, <1>9, <1>10 DEF Reports

\* A report that is only filled in keeps its sequence.
LEMMA ObserveReports ==
  ASSUME AckInv, Balance, Reports, NEW s \in Share, ObservePending(s) \/ ObserveActive(s)
  PROVE  Reports'
<1> USE DEF words, reports, owner, tracker
<1> DEFINE parked == IF holder[s].pc = "observe" THEN pending # 0
                     ELSE holder[s].seen.parked /\ active = 0
           pc == IF holder[s].pc = "observe" THEN "observeActive" ELSE "send"
<1>1. holder = [r \in Share |-> holder[r]] /\ IsHolder(holder[s])
  BY DEF AckInv, Shape
<1>2. /\ holder[s].pc \in {"observe", "observeActive"}
      /\ progress' = progress /\ status' = status /\ pending' = pending /\ active' = active
      /\ holder' = [holder EXCEPT ![s].pc = pc, ![s].seen = [@ EXCEPT !.parked = parked]]
  BY DEF ObservePending, ObserveActive, IsResolved
<1>3. holder'[s] = [holder[s] EXCEPT !.pc = pc, !.seen = [@ EXCEPT !.parked = parked]] /\ Alone(s)
  BY <1>1, <1>2 DEF Alone
<1>4. /\ Reporting(s) /\ holder[s].seen.parked \in BOOLEAN
      /\ holder[s].seen = [sequence |-> holder[s].seen.sequence,
                           parked |-> holder[s].seen.parked]
  BY <1>2 DEF Reports, DrawnOnce, Reporting
<1>5. parked \in BOOLEAN /\ pc \in {"observeActive", "send"}
  BY <1>4
<1>6. /\ parked <=> IF holder[s].pc = "observe" THEN pending # 0
                    ELSE holder[s].seen.parked /\ active = 0
      /\ pc = IF holder[s].pc = "observe" THEN "observeActive" ELSE "send"
  OBVIOUS
<1> HIDE DEF parked, pc
<1>7. /\ holder'[s].pc = pc
      /\ holder'[s].seen = [sequence |-> holder[s].seen.sequence, parked |-> parked]
  BY <1>1, <1>3, <1>4 DEF IsHolder
<1>8. \A r \in Share : /\ Reporting(r)' <=> Reporting(r)
                       /\ Reporting(r) => holder'[r].seen.sequence = holder[r].seen.sequence
                       /\ r # s => holder'[r] = holder[r]
  <2>1. /\ Reporting(s)' /\ Reporting(s)
        /\ holder'[s].seen.sequence = holder[s].seen.sequence
    BY <1>4, <1>5, <1>7 DEF Reporting
  <2>2. \A r \in Share \ {s} : holder'[r] = holder[r] /\ (Reporting(r)' <=> Reporting(r))
    BY <1>3 DEF Alone, Reporting
  <2> QED
    BY <2>1, <2>2
<1>9. \A r \in Share : (Latest(r)' <=> Latest(r)) /\ (Drawing(r)' <=> Drawing(r))
  BY <1>2, <1>5, <1>7, <1>8 DEF Latest, Drawing
<1>10. DrawnOnce'
  <2>1. ASSUME NEW q \in Share, Reporting(q)'
        PROVE  /\ holder'[q].seen = [sequence |-> holder'[q].seen.sequence,
                                     parked |-> holder'[q].seen.parked]
               /\ holder'[q].seen.parked \in BOOLEAN
    <3>1. CASE q = s
      BY <1>5, <1>7, <3>1
    <3>2. CASE q # s
      BY <1>8, <2>1, <3>2 DEF Reports, DrawnOnce
    <3> QED
      BY <3>1, <3>2
  <2>2. ASSUME NEW q \in Share, Reporting(q)'
        PROVE  /\ Reporting(q) /\ holder'[q].seen.sequence = holder[q].seen.sequence
               /\ holder[q].seen.sequence \in 1..progress
               /\ holder[q].seen.sequence # status.sequence
    BY <1>8, <2>2 DEF Reports, DrawnOnce
  <2>3. ASSUME NEW q \in Share, NEW r \in Share, Reporting(q)', Reporting(r)',
               holder'[r].seen.sequence = holder'[q].seen.sequence
        PROVE  r = q
    <3>1. Reporting(q) /\ Reporting(r) /\ holder[r].seen.sequence = holder[q].seen.sequence
      BY <2>2, <2>3
    <3> QED
      BY <3>1 DEF Reports, DrawnOnce
  <2>4. progress \in Nat /\ status.sequence \in 0..progress /\ status.parked \in BOOLEAN
    BY DEF Reports, DrawnOnce
  <2> QED
    BY <1>2, <2>1, <2>2, <2>3, <2>4 DEF DrawnOnce
<1>11. LatestStays'
  BY <1>2, <1>9 DEF Reports, LatestStays
<1>12. Observed'
  <2> SUFFICES ASSUME pending # 0
               PROVE  /\ \A r \in Share : holder'[r].pc = "observeActive" =>
                                            holder'[r].seen.parked = TRUE
                      /\ (\A r \in Share : ~Drawing(r)') =>
                           /\ \A r \in Share : Latest(r)' /\ holder'[r].pc = "send" =>
                                (holder'[r].seen.parked <=> active = 0)
                           /\ (\A r \in Share : ~Latest(r)') => (status.parked <=> active = 0)
    BY <1>2 DEF Observed
  <2>1. \A r \in Share : holder'[r].pc = "observeActive" => holder'[r].seen.parked = TRUE
    <3>1. holder'[s].pc = "observeActive" => parked
      BY <1>6, <1>7
    <3>2. holder'[s].pc = "observeActive" => holder'[s].seen.parked = TRUE
      BY <1>5, <1>7, <3>1
    <3> QED
      BY <1>8, <3>2 DEF Reports, Observed
  <2>2. ASSUME NEW r \in Share, Latest(r)', holder'[r].pc = "send",
               \A q \in Share : ~Drawing(q)'
        PROVE  holder'[r].seen.parked <=> active = 0
    <3>1. CASE r = s
      <4>1. holder[s].pc = "observeActive"
        BY <1>2, <1>6, <1>7, <2>2, <3>1
      <4>2. holder[s].seen.parked = TRUE
        BY <4>1 DEF Reports, Observed
      <4> QED
        BY <1>6, <1>7, <3>1, <4>1, <4>2
    <3>2. CASE r # s
      BY <1>8, <1>9, <2>2, <3>2 DEF Reports, Observed
    <3> QED
      BY <3>1, <3>2
  <2>3. (\A r \in Share : ~Drawing(r)') /\ (\A r \in Share : ~Latest(r)') =>
          (status.parked <=> active = 0)
    BY <1>9 DEF Reports, Observed
  <2> QED
    BY <2>1, <2>2, <2>3
<1> QED
  BY <1>10, <1>11, <1>12 DEF Reports

\* A report is sent: the latest replaces what was observed, an older one does not.
LEMMA SendReports ==
  ASSUME AckInv, Balance, Reports, NEW s \in Share, SendProgress(s)
  PROVE  Reports'
<1> USE DEF words, owner, tracker
<1>1. /\ holder[s].pc = "send" /\ Return(s) /\ progress' = progress
      /\ pending' = pending /\ active' = active
      /\ status' = IF holder[s].seen.sequence > status.sequence THEN holder[s].seen ELSE status
  BY DEF SendProgress
<1>2. Others(s) /\ holder'[s].pc = "ready"
  BY <1>1, ReturnEffect DEF Becomes
<1>3. /\ progress \in Nat /\ status.sequence \in 0..progress /\ status.parked \in BOOLEAN
      /\ Reporting(s)
      /\ holder[s].seen.sequence \in 1..progress /\ holder[s].seen.parked \in BOOLEAN
      /\ holder[s].seen.sequence # status.sequence
      /\ \A r \in Share :
           Reporting(r) /\ holder[r].seen.sequence = holder[s].seen.sequence => r = s
  BY <1>1 DEF Reports, DrawnOnce, Reporting
<1>4. \A r \in Share : /\ Reporting(r)' <=> Reporting(r) /\ r # s
                       /\ Reporting(r)' => holder'[r] = holder[r]
                       /\ holder'[r].pc \in {"observeActive", "send"} => Reporting(r)'
  BY <1>2 DEF Others, Reporting, Ready, Task
<1>5. \A r \in Share : /\ Latest(r)' <=> Latest(r) /\ r # s
                       /\ Drawing(r)' <=> Drawing(r)
  BY <1>1, <1>2, <1>4 DEF Latest, Drawing, Others, Ready, Task
<1>6. /\ status'.sequence \in 0..progress /\ status'.parked \in BOOLEAN
      /\ status'.sequence \in {status.sequence, holder[s].seen.sequence}
      /\ status'.sequence >= status.sequence /\ status'.sequence >= holder[s].seen.sequence
  BY <1>1, <1>3
<1>7. DrawnOnce'
  <2>1. ASSUME NEW q \in Share, Reporting(q)'
        PROVE  /\ holder'[q].seen = [sequence |-> holder'[q].seen.sequence,
                                     parked |-> holder'[q].seen.parked]
               /\ holder'[q].seen.sequence \in 1..progress /\ holder'[q].seen.parked \in BOOLEAN
               /\ holder'[q].seen.sequence # status'.sequence
               /\ \A r \in Share : Reporting(r)' /\
                    holder'[r].seen.sequence = holder'[q].seen.sequence => r = q
    <3>1. Reporting(q) /\ q # s /\ holder'[q] = holder[q]
      BY <1>4, <2>1
    <3>2. /\ holder[q].seen = [sequence |-> holder[q].seen.sequence,
                               parked |-> holder[q].seen.parked]
          /\ holder[q].seen.sequence \in 1..progress /\ holder[q].seen.parked \in BOOLEAN
          /\ holder[q].seen.sequence # status.sequence
          /\ \A r \in Share :
               Reporting(r) /\ holder[r].seen.sequence = holder[q].seen.sequence => r = q
      BY <3>1 DEF Reports, DrawnOnce
    <3>3. holder[q].seen.sequence # holder[s].seen.sequence
      BY <1>3, <3>1
    <3> QED
      BY <1>4, <1>6, <3>1, <3>2, <3>3
  <2> QED
    BY <1>1, <1>3, <1>6, <2>1 DEF DrawnOnce
<1>8. ASSUME \A r \in Share : ~Latest(r)'
      PROVE  /\ status'.sequence = progress
             /\ \/ Latest(s) /\ status' = holder[s].seen
                \/ status' = status /\ \A r \in Share : ~Latest(r)
  <2>1. CASE Latest(s)
    <3>1. holder[s].seen.sequence = progress
      BY <2>1 DEF Latest
    <3> QED
      BY <1>1, <1>3, <2>1, <3>1
  <2>2. CASE ~Latest(s)
    <3>1. \A r \in Share : ~Latest(r)
      BY <1>5, <1>8, <2>2
    <3>2. status.sequence = progress
      BY <3>1 DEF Reports, LatestStays
    <3> QED
      BY <1>1, <1>3, <3>1, <3>2
  <2> QED
    BY <2>1, <2>2
<1>9. LatestStays'
  BY <1>1, <1>8 DEF LatestStays
<1>10. Observed'
  <2> SUFFICES ASSUME pending # 0
               PROVE  /\ \A r \in Share : holder'[r].pc = "observeActive" =>
                                            holder'[r].seen.parked = TRUE
                      /\ (\A r \in Share : ~Drawing(r)') =>
                           /\ \A r \in Share : Latest(r)' /\ holder'[r].pc = "send" =>
                                (holder'[r].seen.parked <=> active = 0)
                           /\ (\A r \in Share : ~Latest(r)') => (status'.parked <=> active = 0)
    BY <1>1 DEF Observed
  <2>1. \A r \in Share : holder'[r].pc = "observeActive" => holder'[r].seen.parked = TRUE
    BY <1>4 DEF Reports, Observed
  <2>2. ASSUME NEW r \in Share, Latest(r)', holder'[r].pc = "send",
               \A q \in Share : ~Drawing(q)'
        PROVE  holder'[r].seen.parked <=> active = 0
    BY <1>4, <1>5, <2>2 DEF Reports, Observed
  <2>3. ASSUME \A r \in Share : ~Drawing(r)', \A r \in Share : ~Latest(r)'
        PROVE  status'.parked <=> active = 0
    BY <1>1, <1>5, <1>8, <2>3 DEF Reports, Observed
  <2> QED
    BY <2>1, <2>2, <2>3
<1> QED
  BY <1>7, <1>9, <1>10 DEF Reports

\* What the owner does, and stuttering, report nothing.
LEMMA OwnerReports ==
  ASSUME Reports, DropCompletion \/ ConfirmHandoff \/ ConfirmRoot \/ DropAckState \/ UNCHANGED vars
  PROVE  Reports'
<1>1. /\ pending' = pending /\ active' = active /\ holder' = holder
      /\ progress' = progress /\ status' = status
  BY DEF DropCompletion, ConfirmHandoff, ConfirmRoot, DropAckState, vars, words, reports
<1> QED
  BY <1>1 DEF Reports, DrawnOnce, LatestStays, Observed, Reporting, Drawing, Latest

\* Every step keeps the latest report true of the word, or draws a later one.
LEMMA ReportsStep == AckInv /\ Balance /\ Reports /\ [Next]_vars => Reports'
<1> SUFFICES ASSUME AckInv, Balance, Reports, [Next]_vars PROVE Reports'
  OBVIOUS
<1>1. ASSUME NEW s \in Share, Works(s) PROVE Reports'
  BY <1>1, UnreportedSteps, UnreportedEnd, DrawReports, ObserveReports, SendReports DEF Works
<1>2. ASSUME NEW s \in Share, Starts(s) PROVE Reports'
  BY <1>2, UnreportedSteps, UnreportedEnd DEF Starts
<1> QED
  BY <1>1, <1>2, OwnerReports DEF Next

\* Between operations the progress the completion observes says whether every share of
\* an unresolved root of local shares is parked, whatever the number of reports under
\* way and the order in which they are sent.
THEOREM ProgressSettled ==
  ASSUME Remote = {}
  PROVE  Spec => []ProgressSettles
<1>1. AckInv /\ Balance /\ Words /\ Reports => ProgressSettles
  <2> SUFFICES ASSUME AckInv, Balance, Words, Reports, Quiet, pending # 0
               PROVE  status.parked <=> ~Working
    BY DEF ProgressSettles, IsResolved
  <2>1. \A s \in Share : holder[s].pc \in {"absent", "ready"}
    BY DEF Quiet
  <2>2. status.parked <=> active = 0
    BY <2>1 DEF Reports, Observed, Drawing, Latest, Reporting
  <2>3. Counted # {} <=> Working
    BY <2>1, QuietCounted
  <2>4. active = 0 <=> Counted = {}
    BY WordSets, FS_EmptySet DEF Words
  <2> QED
    BY <2>2, <2>3, <2>4
<1>2. AckInv /\ Balance /\ Words /\ [Next]_vars => Words'
  BY WordsStep
<1> QED
  BY <1>1, <1>2, AckInit, AckStep, BalanceInit, BalanceStep, WordsInit, ReportsInit,
     ReportsStep, PTL DEF Spec
=============================================================================
