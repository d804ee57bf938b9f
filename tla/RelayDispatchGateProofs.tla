---------------------- MODULE RelayDispatchGateProofs ----------------------
(***************************************************************************)
(* For any number of dispatches and fences: a lease excludes dispatches,   *)
(* and no fence sleeps through the departure it waits for.  For any        *)
(* publishers and consumers of a fan-out: no publisher sleeps through the  *)
(* place it waits for, and no consumer is admitted more than its capacity. *)
(***************************************************************************)
EXTENDS RelayDispatchGate, RelayFanout, FiniteSetTheorems, SequenceTheorems, TLAPS

Readers == Dispatches \cup {"count"}
Counted == {d \in Dispatches : dispatch[d] \in {"entered", "inside", "rejected"}}

\* The count is the number of dispatches between their enter and their leave.
CountExact == count = Cardinality(Counted)

\* The flag says whether an engagement is held, and nobody reads only older values.
FlagExact ==
    /\ flag = FlagFor(engagement)
    /\ \A x \in Readers : flag \in readable[x]

\* Once a fence has its lease, whoever reads the count knows the gate is closed.
LeaseKnown ==
    (\E f \in Fences : engagement[f] = "leased") =>
      /\ readable["count"] = {"closed"}
      /\ \A d \in Dispatches :
           dispatch[d] # "inside" /\ (dispatch[d] = "entered" => readable[d] = {"closed"})

\* And so once a fence went to sleep.
SleepKnown ==
    \A f \in Fences :
      fence[f] = "asleep" /\ f \notin woken /\ engagement[f] = "fencing"
        => readable["count"] = {"closed"}

Inv == TypeOK /\ CountExact /\ FlagExact /\ LeaseKnown /\ SleepKnown /\ NoLostWakeup

-----------------------------------------------------------------------------
\* The dispatches that are counted are finitely many.
LEMMA CountedFinite == IsFiniteSet(Counted) /\ Cardinality(Counted) \in Nat
<1>1. Counted \subseteq Dispatches
  BY DEF Counted
<1> QED
  BY <1>1, GateAssumption, FS_Subset, FS_CardinalityType DEF GateAssumption

\* The count of a step that takes d in, out, or leaves it where it was.
LEMMA CountStep ==
    ASSUME TypeOK, NEW d \in Dispatches, NEW step \in DispatchSteps,
           dispatch' = [dispatch EXCEPT ![d] = step]
    PROVE  /\ step \in {"entered", "inside", "rejected"} /\ d \notin Counted
                => Cardinality(Counted') = Cardinality(Counted) + 1
           /\ step \notin {"entered", "inside", "rejected"} /\ d \in Counted
                => Cardinality(Counted') = Cardinality(Counted) - 1
           /\ (step \in {"entered", "inside", "rejected"} <=> d \in Counted)
                => Counted' = Counted
<1>1. IsFiniteSet(Counted) /\ Cardinality(Counted) \in Nat
  BY CountedFinite
<1>2. CASE step \in {"entered", "inside", "rejected"} /\ d \notin Counted
  <2>1. Counted' = Counted \cup {d}
    BY <1>2 DEF Counted, TypeOK
  <2> QED
    BY <1>1, <1>2, <2>1, FS_AddElement
<1>3. CASE step \notin {"entered", "inside", "rejected"} /\ d \in Counted
  <2>1. Counted' = Counted \ {d}
    BY <1>3 DEF Counted, TypeOK
  <2> QED
    BY <1>1, <1>3, <2>1, FS_RemoveElement
<1>4. CASE step \in {"entered", "inside", "rejected"} <=> d \in Counted
  BY <1>4 DEF Counted, TypeOK
<1> QED
  BY <1>2, <1>3, <1>4

\* What is left of an expiry, or of a release, still includes every lease but the
\* one released.
LEMMA StoreExact ==
    ASSUME TypeOK, NEW engagements, Store(FlagFor(engagements)), engagement' = engagements
    PROVE  FlagExact'
<1>1. flag' = FlagFor(engagements) /\ \A x \in Readers : flag' \in readable'[x]
  BY DEF Store, Readers
<1> QED
  BY <1>1 DEF FlagExact, Readers, FlagFor, Holding

-----------------------------------------------------------------------------
\* Init establishes the inductive invariant.
THEOREM InitInv == Init => Inv
<1> SUFFICES ASSUME Init PROVE Inv
  OBVIOUS
<1>1. TypeOK
  BY GateAssumption DEF Init, TypeOK, Flags, DispatchSteps, FenceSteps
<1>2. CountExact
  <2>1. Counted = {}
    BY DEF Init, Counted
  <2> QED
    BY <2>1, FS_EmptySet DEF Init, CountExact
<1>3. FlagExact
  BY DEF Init, FlagExact, FlagFor, Holding, Readers
<1>4. LeaseKnown /\ SleepKnown /\ NoLostWakeup
  BY DEF Init, LeaseKnown, SleepKnown, NoLostWakeup
<1> QED
  BY <1>1, <1>2, <1>3, <1>4 DEF Inv

\* The variables keep their types; the count never falls below zero (release_dispatch).
LEMMA TypeStep == TypeOK /\ CountExact /\ Next => TypeOK'
<1> SUFFICES ASSUME TypeOK, CountExact, Next PROVE TypeOK'
  OBVIOUS
<1> USE DEF TypeOK, Flags, DispatchSteps, FenceSteps
<1>1. ASSUME NEW d \in Dispatches, Dispatch(d) PROVE TypeOK'
  <2>1. CASE Enter(d)
    BY <2>1 DEF Enter, Synchronized, Known, Goto, gateVars, fenceVars
  <2>2. CASE Look(d)
    BY <2>2 DEF Look, Goto, gateVars, fenceVars
  <2>3. CASE Leave(d)
    <3>1. count # 0
      <4>1. d \in Counted
        BY <2>3 DEF Leave, Counted
      <4> QED
        BY <4>1, CountedFinite, FS_EmptySet DEF CountExact
    <3> QED
      BY <2>3, <3>1 DEF Leave, Synchronized, Known, Goto, Returned, gateVars, fenceVars
  <2>4. CASE LookAfter(d)
    BY <2>4 DEF LookAfter, WakeDrained, Goto, Returned, gateVars, fenceVars
  <2>5. CASE Block(d)
    BY <2>5 DEF Block, ClearAndEnable, Cleared, Store, FlagFor, Everyone, Goto, fenceVars
  <2>6. CASE GiveUp(d) \/ Await(d) \/ Wake(d)
    BY <2>6 DEF GiveUp, Await, Wake, Refreshed, Goto, gateVars, fenceVars
  <2> QED
    BY <1>1, <2>1, <2>2, <2>3, <2>4, <2>5, <2>6 DEF Dispatch
<1>2. ASSUME NEW f \in Fences, Operate(f) PROVE TypeOK'
  <2>1. CASE Engage(f)
    BY <2>1 DEF Engage, Store, WakeChanged, Everyone, Proceed
  <2>2. CASE Enable(f)
    BY <2>2 DEF Enable, ClearAndEnable, Cleared, Store, FlagFor, Everyone, Proceed
  <2>3. CASE Poll(f)
    BY <2>3 DEF Poll, Proceed
  <2>4. CASE Expire(f)
    BY <2>4 DEF Expire, ClearAndEnable, Cleared, Store, FlagFor, Everyone, Proceed
  <2>5. CASE FenceWake(f)
    BY <2>5 DEF FenceWake, Proceed, gateVars
  <2>6. CASE Release(f)
    BY <2>6 DEF Release, Removed, Store, FlagFor, WakeChanged, Everyone, Proceed
  <2>7. CASE DeadlinePasses(f)
    BY <2>7 DEF DeadlinePasses, fenceVars
  <2> QED
    BY <1>2, <2>1, <2>2, <2>3, <2>4, <2>5, <2>6, <2>7 DEF Operate
<1> QED
  BY <1>1, <1>2 DEF Next

-----------------------------------------------------------------------------
\* A step that removes engagements, or keeps them all, tells nobody who knows the
\* gate closed otherwise while one is left.
LEMMA ClearStep ==
    ASSUME TypeOK, FlagExact, NEW x \in Everyone, ClearAndEnable(x)
    PROVE  /\ FlagExact'
           /\ \A f \in Fences : engagement'[f] \in {engagement[f], "none"}
           /\ \A f \in Fences : engagement[f] = "leased" => engagement'[f] = "leased"
           /\ \A f \in Fences : f # x /\ f \notin woken' => f \notin woken
           /\ Holding(engagement') =>
                \A y \in Readers : readable[y] = {"closed"} => readable'[y] = {"closed"}
<1>1. CASE Expired = {}
  <2>1. UNCHANGED <<flag, readable, engagement>> /\ woken' = woken \ {x}
    BY <1>1 DEF ClearAndEnable
  <2> QED
    BY <2>1 DEF FlagExact, FlagFor, Holding
<1>2. CASE Expired # {}
  <2>1. engagement' = Cleared /\ Store(FlagFor(Cleared)) /\ woken' = Everyone \ {x}
    BY <1>2 DEF ClearAndEnable
  <2>2. FlagExact'
    BY <2>1, StoreExact
  <2>3. \A f \in Fences : engagement'[f] \in {engagement[f], "none"}
    BY <2>1 DEF Cleared
  <2>4. \A f \in Fences : engagement[f] = "leased" => engagement'[f] = "leased"
    BY <2>1 DEF Cleared, Expired, Fencing
  <2>5. ASSUME NEW f \in Fences, f # x, f \notin woken' PROVE f \notin woken
    BY <2>1, <2>5 DEF Everyone
  <2>6. ASSUME Holding(engagement'), NEW y \in Readers, readable[y] = {"closed"}
        PROVE  readable'[y] = {"closed"}
    <3>1. readable'[y] = readable[y] \cup {"closed"}
      BY <2>1, <2>6 DEF Store, FlagFor, Readers
    <3> QED
      BY <3>1, <2>6
  <2> QED
    BY <2>2, <2>3, <2>4, <2>5, <2>6
<1> QED
  BY <1>1, <1>2

\* Fencing or leased, an engagement keeps the flag closed.
LEMMA HeldClosed ==
    ASSUME FlagExact, NEW f \in Fences, engagement[f] # "none"
    PROVE  /\ flag = "closed"
           /\ \A x \in Readers : "closed" \in readable[x]
BY DEF FlagExact, FlagFor, Holding

\* The parts about what is known, for a step that keeps the dispatches where they
\* are, keeps or removes engagements and tells nothing new.
LEMMA QuietStep ==
    ASSUME Inv, TypeOK', UNCHANGED <<count, dispatch>>,
           \A f \in Fences : engagement'[f] \in {engagement[f], "none"},
           Holding(engagement') =>
             \A y \in Readers : readable[y] = {"closed"} => readable'[y] = {"closed"},
           \A f \in Fences : fence'[f] = "asleep" => fence[f] = "asleep",
           \A f \in Fences : fence'[f] = "asleep" /\ f \notin woken' => f \notin woken
    PROVE  LeaseKnown' /\ SleepKnown' /\ NoLostWakeup'
<1> USE DEF Inv
<1>1. LeaseKnown'
  <2> SUFFICES ASSUME NEW f \in Fences, engagement'[f] = "leased"
               PROVE  /\ readable'["count"] = {"closed"}
                      /\ \A d \in Dispatches :
                           dispatch'[d] # "inside"
                           /\ (dispatch'[d] = "entered" => readable'[d] = {"closed"})
    BY DEF LeaseKnown
  <2>1. engagement[f] = "leased" /\ Holding(engagement')
    BY DEF Holding
  <2>2. /\ readable["count"] = {"closed"}
        /\ \A d \in Dispatches :
             dispatch[d] # "inside" /\ (dispatch[d] = "entered" => readable[d] = {"closed"})
    BY <2>1 DEF LeaseKnown
  <2> QED
    BY <2>1, <2>2 DEF Readers
<1>2. ASSUME NEW f \in Fences, fence'[f] = "asleep", f \notin woken', engagement'[f] = "fencing"
      PROVE  /\ readable'["count"] = {"closed"}
             /\ \/ count' > 0
                \/ \E d \in Dispatches : /\ dispatch'[d] \in {"insideLast", "rejectedLast"}
                                         /\ readable'[d] = {"closed"}
  <2>1. fence[f] = "asleep" /\ f \notin woken /\ engagement[f] = "fencing" /\ Holding(engagement')
    BY <1>2 DEF Holding
  <2>2. readable["count"] = {"closed"}
    BY <2>1 DEF SleepKnown
  <2>3. \/ count > 0
        \/ \E d \in Dispatches : /\ dispatch[d] \in {"insideLast", "rejectedLast"}
                                 /\ readable[d] = {"closed"}
    BY <2>1 DEF NoLostWakeup
  <2> QED
    BY <2>1, <2>2, <2>3 DEF Readers
<1> QED
  BY <1>1, <1>2 DEF SleepKnown, NoLostWakeup

\* A read-modify-write of the count keeps what its readers know.
LEMMA Synchronizing ==
    ASSUME Inv, NEW d \in Dispatches, readable' = Synchronized(d),
           UNCHANGED <<flag, engagement>>
    PROVE  /\ FlagExact'
           /\ \A e \in Dispatches : readable[e] = {"closed"} => readable'[e] = {"closed"}
           /\ readable["count"] = {"closed"} /\ flag = "closed"
                => readable'["count"] = {"closed"} /\ readable'[d] = {"closed"}
<1> USE DEF Inv
<1>1. "count" \notin Dispatches
  BY GateAssumption DEF GateAssumption
<1>2. \A x \in Readers : flag \in readable[x] /\ readable[x] \subseteq Flags
  BY DEF FlagExact, TypeOK, Readers
<1>3. readable' = [y \in Readers |-> IF y \in {d, "count"} THEN Known(d) ELSE readable[y]]
  BY <1>1 DEF Synchronized, TypeOK, Readers
<1>4. flag \in Known(d) /\ Known(d) \subseteq readable[d] /\ Known(d) \subseteq readable["count"]
  BY <1>2 DEF Known, Readers
<1>5. FlagExact'
  BY <1>2, <1>3, <1>4 DEF FlagExact, Readers, FlagFor, Holding
<1>6. ASSUME NEW e \in Dispatches, readable[e] = {"closed"} PROVE readable'[e] = {"closed"}
  BY <1>2, <1>3, <1>4, <1>6 DEF Readers
<1>7. ASSUME readable["count"] = {"closed"}, flag = "closed"
      PROVE  readable'["count"] = {"closed"} /\ readable'[d] = {"closed"}
  BY <1>3, <1>4, <1>7 DEF Readers
<1> QED
  BY <1>5, <1>6, <1>7

\* A dispatch that counts itself in (enter).
LEMMA EnterStep == ASSUME Inv, NEW d \in Dispatches, Enter(d) PROVE Inv'
<1> USE DEF Inv
<1>1. TypeOK'
  BY TypeStep DEF Next, Dispatch
<1>2. CountExact'
  <2>1. d \notin Counted
    BY DEF Enter, Counted
  <2> QED
    BY <2>1, CountStep DEF Enter, Goto, CountExact, DispatchSteps
<1>3. readable' = Synchronized(d) /\ UNCHANGED <<flag, engagement, fence, woken>>
  BY DEF Enter, gateVars, fenceVars
<1>4. FlagExact'
  BY <1>3, Synchronizing
<1>5. LeaseKnown'
  <2> SUFFICES ASSUME NEW f \in Fences, engagement[f] = "leased" PROVE LeaseKnown'
    BY <1>3 DEF LeaseKnown
  <2>1. flag = "closed" /\ readable["count"] = {"closed"}
    BY HeldClosed DEF LeaseKnown
  <2> QED
    BY <1>3, <2>1, Synchronizing DEF LeaseKnown, Enter, Goto, TypeOK
<1>6. SleepKnown'
  <2> SUFFICES ASSUME NEW f \in Fences, fence[f] = "asleep", f \notin woken, engagement[f] = "fencing"
               PROVE  readable'["count"] = {"closed"}
    BY <1>3 DEF SleepKnown
  <2>1. flag = "closed" /\ readable["count"] = {"closed"}
    BY HeldClosed DEF SleepKnown
  <2> QED
    BY <1>3, <2>1, Synchronizing
<1>7. NoLostWakeup'
  <2>1. count' > 0
    BY DEF Enter, TypeOK
  <2> QED
    BY <2>1 DEF NoLostWakeup
<1> QED
  BY <1>1, <1>2, <1>4, <1>5, <1>6, <1>7

\* Its look at the flag, which a lease makes it see closed (try_enter).
LEMMA LookStep == ASSUME Inv, NEW d \in Dispatches, Look(d) PROVE Inv'
<1> USE DEF Inv
<1>1. TypeOK'
  BY TypeStep DEF Next, Dispatch
<1>2. PICK value \in readable[d] : Goto(d, IF value = "closed" THEN "rejected" ELSE "inside")
  BY DEF Look
<1>3. dispatch[d] = "entered" /\ UNCHANGED <<flag, readable, count, engagement, fence, woken>>
  BY DEF Look, gateVars, fenceVars
<1>4. CountExact'
  <2>1. d \in Counted
    BY <1>3 DEF Counted
  <2> QED
    BY <1>2, <1>3, <2>1, CountStep DEF Goto, CountExact, DispatchSteps
<1>5. FlagExact'
  BY <1>3 DEF FlagExact, FlagFor, Holding
<1>6. LeaseKnown'
  <2> SUFFICES ASSUME NEW f \in Fences, engagement[f] = "leased" PROVE LeaseKnown'
    BY <1>3 DEF LeaseKnown
  <2>1. readable[d] = {"closed"}
    BY <1>3 DEF LeaseKnown
  <2>2. dispatch' = [dispatch EXCEPT ![d] = "rejected"]
    BY <1>2, <2>1 DEF Goto
  <2> QED
    BY <1>3, <2>2 DEF LeaseKnown, TypeOK
<1>7. SleepKnown' /\ NoLostWakeup'
  BY <1>2, <1>3 DEF SleepKnown, NoLostWakeup, Goto, TypeOK
<1> QED
  BY <1>1, <1>4, <1>5, <1>6, <1>7

\* A dispatch that leaves (release_dispatch).
LEMMA LeaveStep == ASSUME Inv, NEW d \in Dispatches, Leave(d) PROVE Inv'
<1> USE DEF Inv
<1>1. TypeOK'
  BY TypeStep DEF Next, Dispatch
<1>2. readable' = Synchronized(d) /\ UNCHANGED <<flag, engagement, fence, woken>>
  BY DEF Leave, gateVars, fenceVars
<1>3. PICK step \in {"insideLast", "rejectedLast", "idle", "blocked"} :
        /\ dispatch' = [dispatch EXCEPT ![d] = step]
        /\ count = 1 => step \in {"insideLast", "rejectedLast"}
  BY DEF Leave, Goto, Returned
<1>4. d \in Counted /\ count' = count - 1
  BY DEF Leave, Counted
<1>5. CountExact'
  BY <1>3, <1>4, CountStep DEF CountExact, DispatchSteps
<1>6. FlagExact'
  BY <1>2, Synchronizing
<1>7. LeaseKnown'
  <2> SUFFICES ASSUME NEW f \in Fences, engagement[f] = "leased" PROVE LeaseKnown'
    BY <1>2 DEF LeaseKnown
  <2>1. flag = "closed" /\ readable["count"] = {"closed"}
    BY HeldClosed DEF LeaseKnown
  <2> QED
    BY <1>2, <1>3, <2>1, Synchronizing DEF LeaseKnown, TypeOK
<1>8. ASSUME NEW f \in Fences, fence[f] = "asleep", f \notin woken, engagement[f] = "fencing"
      PROVE  /\ readable'["count"] = {"closed"}
             /\ \/ count' > 0
                \/ \E e \in Dispatches : /\ dispatch'[e] \in {"insideLast", "rejectedLast"}
                                         /\ readable'[e] = {"closed"}
  <2>1. flag = "closed" /\ readable["count"] = {"closed"}
    BY <1>8, HeldClosed DEF SleepKnown
  <2>2. readable'["count"] = {"closed"} /\ readable'[d] = {"closed"}
    BY <1>2, <2>1, Synchronizing
  <2>3. CASE count = 1
    BY <1>3, <2>2, <2>3 DEF TypeOK
  <2>4. CASE count # 1
    BY <1>1, <1>4, <2>2, <2>4 DEF TypeOK
  <2> QED
    BY <2>3, <2>4
<1>9. SleepKnown' /\ NoLostWakeup'
  BY <1>2, <1>8 DEF SleepKnown, NoLostWakeup
<1> QED
  BY <1>1, <1>5, <1>6, <1>7, <1>9

\* The last one wakes the fences (leave).
LEMMA LookAfterStep == ASSUME Inv, NEW d \in Dispatches, LookAfter(d) PROVE Inv'
<1> USE DEF Inv
<1>1. TypeOK'
  BY TypeStep DEF Next, Dispatch
<1>2. UNCHANGED <<flag, readable, count, engagement, fence>>
  BY DEF LookAfter, gateVars, fenceVars
<1>3. PICK value \in readable[d] : IF value = "closed" THEN WakeDrained ELSE UNCHANGED woken
  BY DEF LookAfter
<1>4. dispatch[d] \in {"insideLast", "rejectedLast"}
  BY DEF LookAfter
<1>5. PICK step \in {"idle", "blocked"} : dispatch' = [dispatch EXCEPT ![d] = step]
  BY DEF LookAfter, Goto, Returned
<1>6. CountExact'
  <2>1. d \notin Counted
    BY <1>4 DEF Counted
  <2> QED
    BY <1>2, <1>5, <2>1, CountStep DEF CountExact, DispatchSteps
<1>7. FlagExact'
  BY <1>2 DEF FlagExact, FlagFor, Holding
<1>8. LeaseKnown'
  BY <1>2, <1>5 DEF LeaseKnown, TypeOK
<1>9. ASSUME NEW f \in Fences, fence[f] = "asleep", f \notin woken', engagement[f] = "fencing"
      PROVE  /\ readable["count"] = {"closed"}
             /\ \/ count > 0
                \/ \E e \in Dispatches : /\ dispatch'[e] \in {"insideLast", "rejectedLast"}
                                         /\ readable[e] = {"closed"}
  <2>1. value # "closed" /\ f \notin woken
    BY <1>3, <1>9 DEF WakeDrained
  <2>2. readable[d] # {"closed"}
    BY <1>3, <2>1
  <2>3. \/ count > 0
        \/ \E e \in Dispatches : /\ dispatch[e] \in {"insideLast", "rejectedLast"}
                                 /\ readable[e] = {"closed"}
    BY <1>9, <2>1 DEF NoLostWakeup
  <2> QED
    BY <1>5, <1>9, <2>1, <2>2, <2>3 DEF SleepKnown, TypeOK
<1>10. SleepKnown' /\ NoLostWakeup'
  BY <1>2, <1>9 DEF SleepKnown, NoLostWakeup
<1> QED
  BY <1>1, <1>6, <1>7, <1>8, <1>10

\* A dispatch that waits for the gate to open (acquire).
LEMMA WaitStep ==
    ASSUME Inv, NEW d \in Dispatches, Block(d) \/ GiveUp(d) \/ Await(d) \/ Wake(d)
    PROVE  Inv'
<1> USE DEF Inv
<1>1. TypeOK'
  BY TypeStep DEF Next, Dispatch
<1>2. PICK step \in {"idle", "retry", "asleep", "enabled", "blocked"} :
        dispatch' = [dispatch EXCEPT ![d] = step]
  BY DEF Block, GiveUp, Await, Wake, Goto
<1>3. dispatch[d] \in {"blocked", "enabled", "asleep"} /\ UNCHANGED <<count, fence>>
  BY DEF Block, GiveUp, Await, Wake, gateVars, fenceVars
<1>4. CountExact'
  <2>1. d \notin Counted
    BY <1>3 DEF Counted
  <2> QED
    BY <1>2, <1>3, <2>1, CountStep DEF CountExact, DispatchSteps
<1>5. /\ FlagExact'
      /\ \A f \in Fences : engagement'[f] \in {engagement[f], "none"}
      /\ \A f \in Fences : f \notin woken' => f \notin woken
      /\ Holding(engagement') =>
           \A y \in Readers : y # d /\ readable[y] = {"closed"} => readable'[y] = {"closed"}
  <2>1. CASE Block(d)
    <3>1. d \in Everyone /\ d \notin Fences
      BY GateAssumption DEF Everyone, GateAssumption
    <3> QED
      BY <2>1, <3>1, ClearStep DEF Block
  <2>2. CASE GiveUp(d) \/ Wake(d)
    <3>1. UNCHANGED <<flag, readable, engagement, woken>>
      BY <2>2 DEF GiveUp, Wake, gateVars
    <3> QED
      BY <3>1 DEF FlagExact, FlagFor, Holding
  <2>3. CASE Await(d)
    <3>1. UNCHANGED <<flag, engagement, woken>> /\ readable' = [readable EXCEPT ![d] = {flag}]
      BY <2>3 DEF Await, gateVars, Refreshed
    <3> QED
      BY <3>1 DEF FlagExact, FlagFor, Holding, Readers, TypeOK
  <2> QED
    BY <2>1, <2>2, <2>3
<1>6. \A e \in Dispatches : dispatch'[e] \in {"entered", "inside", "insideLast", "rejectedLast"}
                              => e # d /\ dispatch'[e] = dispatch[e]
  BY <1>2 DEF TypeOK
<1>7. "count" \in Readers /\ "count" # d /\ Dispatches \subseteq Readers
  BY GateAssumption DEF Readers, GateAssumption
<1>8. LeaseKnown'
  <2> SUFFICES ASSUME NEW f \in Fences, engagement'[f] = "leased"
               PROVE  /\ readable'["count"] = {"closed"}
                      /\ \A e \in Dispatches :
                           dispatch'[e] # "inside"
                           /\ (dispatch'[e] = "entered" => readable'[e] = {"closed"})
    BY DEF LeaseKnown
  <2>1. engagement[f] = "leased" /\ Holding(engagement')
    BY <1>5 DEF Holding
  <2> QED
    BY <1>5, <1>6, <1>7, <2>1 DEF LeaseKnown
<1>9. ASSUME NEW f \in Fences, fence'[f] = "asleep", f \notin woken', engagement'[f] = "fencing"
      PROVE  /\ readable'["count"] = {"closed"}
             /\ \/ count' > 0
                \/ \E e \in Dispatches : /\ dispatch'[e] \in {"insideLast", "rejectedLast"}
                                         /\ readable'[e] = {"closed"}
  <2>1. fence[f] = "asleep" /\ f \notin woken /\ engagement[f] = "fencing" /\ Holding(engagement')
    BY <1>3, <1>5, <1>9 DEF Holding
  <2>2. readable["count"] = {"closed"}
    BY <2>1 DEF SleepKnown
  <2>3. \/ count > 0
        \/ \E e \in Dispatches : /\ dispatch[e] \in {"insideLast", "rejectedLast"}
                                 /\ readable[e] = {"closed"}
    BY <2>1 DEF NoLostWakeup
  <2>4. \A e \in Dispatches : dispatch[e] \in {"insideLast", "rejectedLast"}
                                => e # d /\ dispatch'[e] = dispatch[e]
    BY <1>2, <1>3 DEF TypeOK
  <2> QED
    BY <1>3, <1>5, <1>7, <2>1, <2>2, <2>3, <2>4
<1>10. SleepKnown' /\ NoLostWakeup'
  BY <1>9 DEF SleepKnown, NoLostWakeup
<1> QED
  BY <1>1, <1>4, <1>5, <1>8, <1>10

-----------------------------------------------------------------------------
\* An operation closes the gate (engage).
LEMMA EngageStep == ASSUME Inv, NEW f \in Fences, Engage(f) PROVE Inv'
<1> USE DEF Inv
<1>1. TypeOK'
  BY TypeStep DEF Next, Operate
<1>2. /\ engagement' = [engagement EXCEPT ![f] = "fencing"] /\ Store("closed")
      /\ woken' = Everyone /\ UNCHANGED <<count, dispatch>>
  BY DEF Engage, WakeChanged
<1>3. CountExact'
  BY <1>2 DEF CountExact, Counted
<1>4. FlagExact'
  <2>1. FlagFor(engagement') = "closed"
    BY <1>2 DEF FlagFor, Holding, TypeOK
  <2> QED
    BY <1>2, <2>1, StoreExact
<1>5. LeaseKnown'
  <2>1. \A x \in Readers : readable'[x] = readable[x] \cup {"closed"}
    BY <1>2 DEF Store, Readers
  <2>2. \A g \in Fences : engagement'[g] = "leased" => engagement[g] = "leased"
    BY <1>2 DEF TypeOK
  <2> QED
    BY <1>2, <2>1, <2>2 DEF LeaseKnown, Readers
<1>6. SleepKnown' /\ NoLostWakeup'
  BY <1>2 DEF SleepKnown, NoLostWakeup, Everyone
<1> QED
  BY <1>1, <1>3, <1>4, <1>5, <1>6

\* A fence removes the engagements whose deadline passed (clear_if_expired).
LEMMA ClearingStep == ASSUME Inv, NEW f \in Fences, Enable(f) \/ Expire(f) PROVE Inv'
<1> USE DEF Inv
<1>1. TypeOK'
  BY TypeStep DEF Next, Operate
<1>2. /\ ClearAndEnable(f) /\ UNCHANGED <<count, dispatch>>
      /\ fence' = [fence EXCEPT ![f] = "enabled"] \/ fence' = [fence EXCEPT ![f] = "failed"]
  BY DEF Enable, Expire, Proceed
<1>3. CountExact'
  BY <1>2 DEF CountExact, Counted
<1>4. \A g \in Fences : fence'[g] = "asleep" => g # f /\ fence[g] = "asleep"
  BY <1>2 DEF TypeOK
<1>5. f \in Everyone
  BY DEF Everyone
<1>6. FlagExact' /\ LeaseKnown' /\ SleepKnown' /\ NoLostWakeup'
  BY <1>1, <1>2, <1>4, <1>5, ClearStep, QuietStep
<1> QED
  BY <1>1, <1>3, <1>6

\* The look of a fence: what it reads of the count and of the flag reaches every
\* dispatch that raises or lowers the count later.
LEMMA PollStep == ASSUME Inv, NEW f \in Fences, Poll(f) PROVE Inv'
<1> USE DEF Inv
<1>1. TypeOK'
  BY TypeStep DEF Next, Operate
<1>2. /\ readable' = [readable EXCEPT !["count"] = {flag}]
      /\ UNCHANGED <<flag, count, dispatch, woken>>
  BY DEF Poll
<1>3. readable'["count"] = {flag} /\ \A d \in Dispatches : readable'[d] = readable[d]
  BY <1>2, GateAssumption DEF TypeOK, GateAssumption
<1>4. PICK step \in {"failed", "expired", "leased", "asleep"} :
        /\ fence' = [fence EXCEPT ![f] = step]
        /\ step = "leased" => /\ engagement' = [engagement EXCEPT ![f] = "leased"]
                              /\ count = 0 /\ engagement[f] # "none"
        /\ step # "leased" => UNCHANGED engagement
        /\ step = "asleep" => count # 0
  BY DEF Poll, Proceed
<1>5. CountExact'
  BY <1>2 DEF CountExact, Counted
<1>6. \A g \in Fences : engagement'[g] = "none" <=> engagement[g] = "none"
  BY <1>4 DEF TypeOK
<1>7. FlagExact'
  BY <1>2, <1>3, <1>6 DEF FlagExact, FlagFor, Holding, Readers
<1>8. LeaseKnown'
  <2> SUFFICES ASSUME NEW g \in Fences, engagement'[g] = "leased" PROVE LeaseKnown'
    BY DEF LeaseKnown
  <2>1. flag = "closed"
    BY <1>6, HeldClosed
  <2>2. CASE step = "leased"
    <3>1. Counted = {}
      BY <1>4, <2>2, CountedFinite, FS_EmptySet DEF CountExact
    <3> QED
      BY <1>2, <1>3, <2>1, <3>1 DEF LeaseKnown, Counted
  <2>3. CASE step # "leased"
    BY <1>2, <1>3, <1>4, <2>1, <2>3 DEF LeaseKnown
  <2> QED
    BY <2>2, <2>3
<1>9. SleepKnown'
  BY <1>3, <1>6, HeldClosed DEF SleepKnown, TypeOK
<1>10. ASSUME NEW g \in Fences, fence'[g] = "asleep", g \notin woken', engagement'[g] = "fencing"
       PROVE  \/ count' > 0
              \/ \E d \in Dispatches : /\ dispatch'[d] \in {"insideLast", "rejectedLast"}
                                       /\ readable'[d] = {"closed"}
  <2>1. CASE g = f
    <3>1. step = "asleep"
      BY <1>4, <1>10, <2>1 DEF TypeOK
    <3> QED
      BY <1>2, <1>4, <3>1 DEF TypeOK
  <2>2. CASE g # f
    <3>1. fence[g] = "asleep" /\ g \notin woken /\ engagement[g] = "fencing"
      BY <1>2, <1>4, <1>10, <2>2 DEF TypeOK
    <3> QED
      BY <1>2, <1>3, <3>1 DEF NoLostWakeup
  <2> QED
    BY <2>1, <2>2
<1>11. NoLostWakeup'
  BY <1>10 DEF NoLostWakeup
<1> QED
  BY <1>1, <1>5, <1>7, <1>8, <1>9, <1>11

\* A fence wakes, and a deadline passes.
LEMMA FenceWakeStep ==
    ASSUME Inv, NEW f \in Fences, FenceWake(f) \/ DeadlinePasses(f) PROVE Inv'
<1> USE DEF Inv
<1>1. TypeOK'
  BY TypeStep DEF Next, Operate
<1>2. /\ UNCHANGED <<flag, readable, count, engagement, dispatch, woken>>
      /\ fence' = [fence EXCEPT ![f] = "engaged"] \/ fence' = fence
  BY DEF FenceWake, DeadlinePasses, Proceed, gateVars, fenceVars
<1>3. CountExact' /\ FlagExact'
  BY <1>2 DEF CountExact, Counted, FlagExact, FlagFor, Holding
<1>4. \A g \in Fences : fence'[g] = "asleep" => fence[g] = "asleep"
  BY <1>2 DEF TypeOK
<1>5. LeaseKnown' /\ SleepKnown' /\ NoLostWakeup'
  BY <1>1, <1>2, <1>4, QuietStep
<1> QED
  BY <1>1, <1>3, <1>5

\* A lease is dropped (release).
LEMMA ReleaseStep == ASSUME Inv, NEW f \in Fences, Release(f) PROVE Inv'
<1> USE DEF Inv
<1>1. TypeOK'
  BY TypeStep DEF Next, Operate
<1>2. UNCHANGED <<count, dispatch>> /\ fence' = [fence EXCEPT ![f] = "idle"]
  BY DEF Release, Proceed
<1>3. CountExact'
  BY <1>2 DEF CountExact, Counted
<1>4. \A g \in Fences : fence'[g] = "asleep" => fence[g] = "asleep"
  BY <1>2 DEF TypeOK
<1>5. CASE engagement[f] = "none"
  <2>1. UNCHANGED <<flag, readable, engagement, woken>>
    BY <1>5 DEF Release
  <2>2. FlagExact'
    BY <2>1 DEF FlagExact, FlagFor, Holding
  <2>3. LeaseKnown' /\ SleepKnown' /\ NoLostWakeup'
    BY <1>1, <1>2, <1>4, <2>1, QuietStep
  <2> QED
    BY <1>1, <1>3, <2>2, <2>3
<1>6. CASE engagement[f] # "none"
  <2>1. engagement' = Removed(f) /\ Store(FlagFor(Removed(f))) /\ woken' = Everyone
    BY <1>6 DEF Release, WakeChanged
  <2>2. FlagExact'
    BY <2>1, StoreExact
  <2>3. \A g \in Fences : engagement'[g] \in {engagement[g], "none"} /\ g \in woken'
    BY <2>1 DEF Removed, TypeOK, Everyone
  <2>4. ASSUME Holding(engagement'), NEW y \in Readers, readable[y] = {"closed"}
        PROVE  readable'[y] = {"closed"}
    <3>1. readable'[y] = readable[y] \cup {"closed"}
      BY <2>1, <2>4 DEF Store, FlagFor, Readers
    <3> QED
      BY <3>1, <2>4
  <2>5. LeaseKnown' /\ SleepKnown' /\ NoLostWakeup'
    BY <1>1, <1>2, <1>4, <2>3, <2>4, QuietStep
  <2> QED
    BY <1>1, <1>3, <2>2, <2>5
<1> QED
  BY <1>5, <1>6

\* And every step of a dispatch or a fence keeps it.
THEOREM Inductive == Inv /\ [Next]_vars => Inv'
<1> SUFFICES ASSUME Inv, [Next]_vars PROVE Inv'
  OBVIOUS
<1>1. ASSUME NEW d \in Dispatches, Dispatch(d) PROVE Inv'
  BY <1>1, EnterStep, LookStep, LeaveStep, LookAfterStep, WaitStep DEF Dispatch
<1>2. ASSUME NEW f \in Fences, Operate(f) PROVE Inv'
  BY <1>2, EngageStep, ClearingStep, PollStep, FenceWakeStep, ReleaseStep DEF Operate
<1>3. CASE UNCHANGED vars
  BY <1>3 DEF vars, Inv, TypeOK, CountExact, Counted, FlagExact, FlagFor, Holding, Readers,
              LeaseKnown, SleepKnown, NoLostWakeup
<1> QED
  BY <1>1, <1>2, <1>3 DEF Next

\* The inductive invariant holds throughout.
THEOREM Invariance == Spec => []Inv
<1>1. Init => Inv
  BY InitInv
<1>2. Inv /\ [Next]_vars => Inv'
  BY Inductive
<1> QED
  BY <1>1, <1>2, PTL DEF Spec

\* While a fence holds its lease no dispatch is in progress, for any number of
\* dispatches and fences and whatever values of the flag the atomics' orderings
\* leave readable (try_enter, poll_quiescence).
THEOREM GateExcludes == Spec => []LeaseExcludesDispatch
<1>1. Inv => LeaseExcludesDispatch
  BY DEF Inv, LeaseKnown, LeaseExcludesDispatch
<1> QED
  BY <1>1, Invariance, PTL

\* A fence that sleeps still has a dispatch counted, or one about to wake it
\* (release_dispatch, leave).
THEOREM GateWakes == Spec => []NoLostWakeup
<1>1. Inv => NoLostWakeup
  BY DEF Inv
<1> QED
  BY <1>1, Invariance, PTL

(***************************************************************************)
(* The fan-out (RelayFanout): no publisher sleeps through the room, the    *)
(* close or the capacity it waits for.                                     *)
(*                                                                         *)
(* The waiting count may be read stale, so what a consumer knows of it is  *)
(* followed: a publisher that is counted can no longer read that nobody    *)
(* waits, it hands that on to the admission count it looks at, and whoever *)
(* returns an admission there takes it up.  The exact count is needed with *)
(* it, since the last publisher to leave makes zero readable again.        *)
(***************************************************************************)
\* What the argument needs of the bounds.
Bounds == IsFiniteSet(Publishers) /\ Capacities \subseteq Int /\ MaxBatches \in Nat

\* The steps of a publisher that is counted as waiting.
Waits == {"enable", "check", "admit", "raise", "asleep", "lower"}
\* The publishers that are.
Waiters == {p \in Publishers : pub[p].step \in Waits}
\* Where views of the waiting count are kept: at tasks and at the admission counts.
Keys == Publishers \cup Consumers \cup {<<"admitted", c>> : c \in Consumers}
\* The steps of a publisher, and of a receiver.
Steps == Waits \cup {"idle", "reserving", "begin", "deliver"}
Places == {"absent", "poll", "register", "repoll", "pending", "woken", "taken", "returned", "leaving",
           "left", "done"}
\* What a publisher is doing.
Publication ==
    [step : Steps, to : Seq(Consumers), at : Int, held : Seq(Consumers), capacity : Int, sent : Int]

\* A publisher that is not done with its consumers is at one of them.
Walking(r) == r.step \in Waits \cup {"reserving", "begin"} => r.at \in 1 .. Len(r.to)

\* The types.
Shape ==
    /\ list \in Seq(Consumers) /\ capacity \in Int
    /\ admitted \in [Consumers -> Int] /\ receiver \in [Consumers -> Places]
    /\ views \in [Keys -> SUBSET Nat]
    /\ pub \in [Publishers -> Publication]
    /\ \A p \in Publishers : Walking(pub[p])

\* The count is exact, although it may be read stale.
WaitersCounted == waiting = Cardinality(Waiters)

\* A waiting publisher is known of where its wait ends.
Told(p) ==
    /\ p \in Waiters => 0 \notin views[p]
    /\ pub[p].step \in {"raise", "asleep"} => 0 \notin views[Location(To(p))]
    /\ pub[p].step \in {"admit", "raise"} /\ p \notin roused =>
         notices # {} \/ (To(p) \notin ended /\ pub[p].capacity = capacity)
    /\ pub[p].step = "asleep" /\ p \notin roused =>
         \/ notices # {}
         \/ To(p) \notin ended /\ admitted[To(p)] >= capacity
         \/ receiver[To(p)] = "returned" /\ 0 \notin views[To(p)]

\* The inductive invariant.
FanoutInv == Shape /\ WaitersCounted /\ \A p \in Publishers : Told(p)

LEMMA WaitersFinite ==
    ASSUME Bounds
    PROVE  IsFiniteSet(Waiters) /\ Cardinality(Waiters) \in Nat
<1>1. Waiters \subseteq Publishers
  BY DEF Waiters
<1> QED
  BY <1>1, FS_Subset, FS_CardinalityType DEF Bounds

LEMMA ToConsumer ==
    ASSUME Shape, NEW p \in Publishers, pub[p].step \in Waits \cup {"reserving", "begin"}
    PROVE  To(p) \in Consumers /\ Location(To(p)) \in Keys
<1>1. pub[p] \in Publication /\ Walking(pub[p])
  BY DEF Shape
<1>2. pub[p].to \in Seq(Consumers) /\ pub[p].at \in 1 .. Len(pub[p].to)
  BY <1>1 DEF Publication, Walking
<1>3. To(p) \in Consumers
  BY <1>2 DEF To
<1> QED
  BY <1>3 DEF Location, Keys

\* The publication of p changed, and no other.
LEMMA Moved ==
    ASSUME Bounds, Shape, NEW p \in Publishers, NEW r \in Publication, Walking(r),
           pub' = [pub EXCEPT ![p] = r]
    PROVE  /\ pub' \in [Publishers -> Publication] /\ \A q \in Publishers : Walking(pub'[q])
           /\ pub'[p] = r /\ \A q \in Publishers \ {p} : pub'[q] = pub[q]
           /\ r.step \in Waits /\ p \notin Waiters => Cardinality(Waiters') = Cardinality(Waiters) + 1
           /\ r.step \notin Waits /\ p \in Waiters => Cardinality(Waiters') = Cardinality(Waiters) - 1
           /\ (r.step \in Waits <=> p \in Waiters) => Waiters' = Waiters
<1>1. IsFiniteSet(Waiters) /\ Cardinality(Waiters) \in Nat
  BY WaitersFinite
<1>2. /\ pub' \in [Publishers -> Publication]
      /\ pub'[p] = r /\ \A q \in Publishers \ {p} : pub'[q] = pub[q]
  BY DEF Shape
<1>3. \A q \in Publishers : Walking(pub'[q])
  BY <1>2 DEF Shape
<1>4. CASE r.step \in Waits /\ p \notin Waiters
  <2>1. Waiters' = Waiters \cup {p}
    BY <1>2, <1>4 DEF Waiters
  <2> QED
    BY <1>1, <1>2, <1>3, <1>4, <2>1, FS_AddElement
<1>5. CASE r.step \notin Waits /\ p \in Waiters
  <2>1. Waiters' = Waiters \ {p}
    BY <1>2, <1>5 DEF Waiters
  <2> QED
    BY <1>1, <1>2, <1>3, <1>5, <2>1, FS_RemoveElement
<1>6. CASE r.step \in Waits <=> p \in Waiters
  <2>1. Waiters' = Waiters
    BY <1>2, <1>6 DEF Waiters
  <2> QED
    BY <1>1, <1>2, <1>3, <1>6, <2>1
<1> QED
  BY <1>4, <1>5, <1>6

\* Two publishers that are counted make the count two.
LEMMA AnotherCounted ==
    ASSUME Bounds, NEW p \in Waiters, NEW q \in Waiters, p # q
    PROVE  Cardinality(Waiters) # 1 /\ Cardinality(Waiters) # 0
<1>1. IsFiniteSet(Waiters) /\ Cardinality(Waiters) \in Nat
  BY WaitersFinite
<1>2. Cardinality(Waiters \ {p}) = Cardinality(Waiters) - 1
  BY <1>1, FS_RemoveElement
<1>3. IsFiniteSet(Waiters \ {p}) /\ Waiters \ {p} # {}
  BY <1>1, FS_Subset
<1>4. Cardinality(Waiters \ {p}) # 0 /\ Cardinality(Waiters \ {p}) \in Nat
  BY <1>3, FS_EmptySet, FS_CardinalityType
<1> QED
  BY <1>1, <1>2, <1>4

\* A publisher that did not move is still told.
LEMMA OthersTold ==
    ASSUME Shape, NEW q \in Publishers, Told(q), pub'[q] = pub[q],
           q \in Waiters =>
             /\ \A x \in Keys : 0 \in views'[x] => 0 \in views[x]
             /\ q \in roused => q \in roused'
             /\ \/ q \in roused'
                \/ notices' # {}
                \/ /\ notices = {} /\ capacity' = capacity
                   /\ To(q) \in ended' => To(q) \in ended
                   /\ \/ admitted'[To(q)] >= admitted[To(q)]
                      \/ To(q) \in ended
                      \/ /\ receiver'[To(q)] = "returned"
                         /\ 0 \in views'[To(q)] => 0 \in views[Location(To(q))]
                   /\ receiver[To(q)] = "returned" => receiver'[To(q)] = "returned",
           Shape'
    PROVE  Told(q)'
<1>1. q \in Waiters' <=> q \in Waiters
  BY DEF Waiters
<1>2. To(q)' = To(q) /\ Location(To(q))' = Location(To(q))
  BY DEF To, Location
<1>3. CASE q \notin Waiters
  BY <1>1, <1>3 DEF Told, Waiters, Waits
<1>4. CASE q \in Waiters
  <2>1. To(q) \in Consumers /\ Location(To(q)) \in Keys /\ To(q) \in Keys /\ q \in Keys
    BY <1>4, ToConsumer DEF Waiters, Keys
  <2>2. admitted[To(q)] \in Int /\ admitted'[To(q)] \in Int /\ capacity \in Int
    BY <2>1 DEF Shape
  <2>3. 0 \notin views'[q]
    BY <1>4, <2>1 DEF Told
  <2>4. pub[q].step \in {"raise", "asleep"} => 0 \notin views'[Location(To(q))]
    BY <1>4, <2>1 DEF Told
  <2>5. pub[q].step \in {"admit", "raise"} /\ q \notin roused' =>
           notices' # {} \/ (To(q) \notin ended' /\ pub[q].capacity = capacity')
    BY <1>4 DEF Told
  <2>6. ASSUME pub[q].step = "asleep", q \notin roused', notices' = {}
        PROVE  \/ To(q) \notin ended' /\ admitted'[To(q)] >= capacity'
               \/ receiver'[To(q)] = "returned" /\ 0 \notin views'[To(q)]
    BY <1>4, <2>1, <2>2, <2>6 DEF Told
  <2> QED
    BY <1>2, <2>3, <2>4, <2>5, <2>6 DEF Told
<1> QED
  BY <1>3, <1>4

\* What a read-modify-write of an admission count leaves to read.
LEMMA MeetViews ==
    ASSUME Shape, NEW x \in Keys, NEW c \in Consumers, Meet(x, c)
    PROVE  /\ views' \in [Keys -> SUBSET Nat]
           /\ \A y \in Keys : views'[y] \subseteq views[y]
           /\ views'[Location(c)] \subseteq views[x]
           /\ views'[x] \subseteq views[Location(c)]
<1>1. Location(c) \in Keys
  BY DEF Location, Keys
<1>2. PICK known : known = views[x] \cap views[Location(c)]
                   /\ views' = [views EXCEPT ![x] = known, ![Location(c)] = known]
  BY DEF Meet
<1>3. known \in SUBSET Nat
  BY <1>1, <1>2 DEF Shape
<1> QED
  BY <1>1, <1>2, <1>3 DEF Shape

\* What a change of the waiting count leaves to read.
LEMMA CountViews ==
    ASSUME Shape, NEW p \in Publishers, NEW n \in Nat, Count(p, n)
    PROVE  /\ views' \in [Keys -> SUBSET Nat] /\ views'[p] = {n}
           /\ n # 0 => \A y \in Keys : 0 \in views'[y] => 0 \in views[y]
<1>1. p \in Keys /\ DOMAIN views = Keys
  BY DEF Keys, Shape
<1> QED
  BY <1>1 DEF Count, Shape

LEMMA IdleShape == Idle \in Publication /\ Idle.step = "idle" /\ Idle.at = 1
<1>1. << >> \in Seq(Consumers)
  OBVIOUS
<1>2. PICK none : none = << >> /\ none \in Seq(Consumers)
  BY <1>1
<1>3. Idle = [step |-> "idle", to |-> none, at |-> 1, held |-> none, capacity |-> 0, sent |-> 0]
  BY <1>2 DEF Idle
<1> QED
  BY <1>2, <1>3 DEF Publication, Steps

LEMMA InitHolds == ASSUME Bounds, FanoutInit PROVE FanoutInv
<1>1. Idle \in Publication /\ Idle.step = "idle"
  BY IdleShape
<1>2. Shape
  <2>1. list \in Seq(Consumers) /\ capacity \in Int
    BY DEF FanoutInit, Bounds
  <2>4. admitted \in [Consumers -> Int] /\ receiver \in [Consumers -> Places]
    BY DEF FanoutInit, Places
  <2>5. pub \in [Publishers -> Publication]
    BY <1>1 DEF FanoutInit
  <2>2. views \in [Keys -> SUBSET Nat]
    BY DEF FanoutInit, Keys
  <2>3. \A p \in Publishers : Walking(pub[p])
    BY <1>1 DEF FanoutInit, Walking, Waits
  <2> QED
    BY <2>1, <2>2, <2>3, <2>4, <2>5 DEF Shape
<1>3. Waiters = {} /\ \A p \in Publishers : pub[p].step = "idle"
  BY <1>1 DEF FanoutInit, Waiters, Waits
<1>4. WaitersCounted
  BY <1>3, FS_EmptySet DEF WaitersCounted, FanoutInit
<1>5. \A p \in Publishers : Told(p)
  BY <1>3 DEF Told
<1> QED
  BY <1>2, <1>4, <1>5 DEF FanoutInv

\* A step of p that neither counts nor discounts it, lowers no admission of a queue
\* that is open and tells nobody.
LEMMA Step ==
    ASSUME Bounds, FanoutInv, NEW p \in Publishers, NEW r \in Publication, Walking(r),
           pub' = [pub EXCEPT ![p] = r], r.step \in Waits <=> p \in Waiters,
           UNCHANGED <<list, capacity, waiting, ended, notices>>,
           admitted' \in [Consumers -> Int], receiver' \in [Consumers -> Places],
           views' \in [Keys -> SUBSET Nat],
           \A x \in Keys : views'[x] \subseteq views[x],
           \A q \in Publishers \ {p} : q \in roused => q \in roused',
           \A c \in Consumers :
             /\ admitted'[c] >= admitted[c] \/ c \in ended
             /\ receiver[c] = "returned" => receiver'[c] = "returned",
           Shape' => Told(p)'
    PROVE  FanoutInv'
<1>1. /\ pub' \in [Publishers -> Publication] /\ \A q \in Publishers : Walking(pub'[q])
      /\ pub'[p] = r /\ \A q \in Publishers \ {p} : pub'[q] = pub[q]
      /\ Waiters' = Waiters
  BY Moved DEF FanoutInv
<1>2. Shape'
  BY <1>1 DEF Shape, FanoutInv, Walking
<1>3. WaitersCounted'
  BY <1>1 DEF WaitersCounted, FanoutInv
<1>4. ASSUME NEW q \in Publishers, q # p
      PROVE  Told(q)'
  <2>1. q \in Waiters => To(q) \in Consumers
    BY ToConsumer DEF FanoutInv, Waiters
  <2>2. pub'[q] = pub[q] /\ Told(q) /\ Shape
    BY <1>1, <1>4 DEF FanoutInv
  <2>3. ASSUME q \in Waiters
        PROVE  /\ \A x \in Keys : 0 \in views'[x] => 0 \in views[x]
               /\ q \in roused => q \in roused'
               /\ \/ q \in roused'
                  \/ notices' # {}
                  \/ /\ notices = {} /\ capacity' = capacity
                     /\ To(q) \in ended' => To(q) \in ended
                     /\ \/ admitted'[To(q)] >= admitted[To(q)]
                        \/ To(q) \in ended
                        \/ /\ receiver'[To(q)] = "returned"
                           /\ 0 \in views'[To(q)] => 0 \in views[Location(To(q))]
                     /\ receiver[To(q)] = "returned" => receiver'[To(q)] = "returned"
    BY <1>4, <2>1, <2>3
  <2> QED
    BY <1>2, <2>2, <2>3, OthersTold
<1>5. Told(p)'
  BY <1>2
<1> QED
  BY <1>2, <1>3, <1>4, <1>5 DEF FanoutInv

\* What follows the consumer p was at.
LEMMA PassedOn ==
    ASSUME Shape, NEW p \in Publishers, pub[p].step \in Waits \cup {"reserving", "begin"},
           NEW held \in Seq(Consumers), NEW next \in {"reserving", "begin"}
    PROVE  /\ Passed(p, held, next) \in Publication
           /\ Walking(Passed(p, held, next))
           /\ Passed(p, held, next).step \in {"deliver", "reserving", "begin"}
<1>1. pub[p] \in Publication /\ Walking(pub[p])
  BY DEF Shape
<1>2. PICK s : s = IF AtLast(p) THEN "deliver" ELSE next
  OBVIOUS
<1>3. PICK a : a = IF AtLast(p) THEN 1 ELSE pub[p].at + 1
  OBVIOUS
<1>4. Passed(p, held, next) = [pub[p] EXCEPT !.step = s, !.at = a, !.held = held]
  BY <1>2, <1>3 DEF Passed
<1>5. /\ pub[p].to \in Seq(Consumers) /\ pub[p].at \in 1 .. Len(pub[p].to) /\ pub[p].at \in Int
      /\ Len(pub[p].to) \in Nat
  BY <1>1 DEF Publication, Walking
<1>6. /\ s \in Steps /\ a \in Int /\ (s # "deliver" => a \in 1 .. Len(pub[p].to))
      /\ s \in {"deliver", "reserving", "begin"}
  <2>1. CASE AtLast(p)
    BY <1>2, <1>3, <2>1 DEF Steps
  <2>2. CASE ~AtLast(p)
    <3>1. s = next /\ a = pub[p].at + 1
      BY <1>2, <1>3, <2>2
    <3>2. a \in 1 .. Len(pub[p].to)
      BY <1>5, <2>2, <3>1 DEF AtLast
    <3>3. s \in Steps
      BY <3>1 DEF Steps
    <3> QED
      BY <3>1, <3>2, <3>3
  <2> QED
    BY <2>1, <2>2
<1>7. PICK h : h = Passed(p, held, next)
  OBVIOUS
<1>8. h \in Publication /\ h.step = s /\ h.at = a /\ h.to = pub[p].to
  BY <1>1, <1>4, <1>6, <1>7 DEF Publication
<1>9. Walking(h)
  BY <1>6, <1>8 DEF Walking, Waits
<1> QED
  BY <1>6, <1>7, <1>8, <1>9

\* p goes to another step.
LEMMA GoesTo ==
    ASSUME Shape, NEW p \in Publishers, NEW step \in Steps, Goes(p, step),
           step \in Waits \cup {"reserving", "begin"}
             => pub[p].step \in Waits \cup {"reserving", "begin"}
    PROVE  \E r \in Publication :
             /\ Walking(r) /\ pub' = [pub EXCEPT ![p] = r] /\ r.step = step
             /\ r.to = pub[p].to /\ r.at = pub[p].at /\ r.capacity = pub[p].capacity
<1>1. pub[p] \in Publication /\ Walking(pub[p])
  BY DEF Shape
<1>2. PICK r : r = [pub[p] EXCEPT !.step = step]
  OBVIOUS
<1>3. /\ r \in Publication /\ r.step = step
      /\ r.to = pub[p].to /\ r.at = pub[p].at /\ r.capacity = pub[p].capacity
  BY <1>1, <1>2 DEF Publication
<1>4. Walking(r)
  BY <1>1, <1>3 DEF Walking
<1>5. pub' = [pub EXCEPT ![p] = r]
  BY <1>2 DEF Goes, Shape
<1> QED
  BY <1>3, <1>4, <1>5

\* A publisher that is at no wait needs no notice.
LEMMA NotWaiting ==
    ASSUME NEW p \in Publishers, pub'[p].step \notin Waits
    PROVE  Told(p)'
BY DEF Told, Waiters, Waits

\* A publisher that only starts to look, or leaves, needs to be seen counted.
LEMMA OnlyCounted ==
    ASSUME NEW p \in Publishers, pub'[p].step \in {"enable", "check", "lower"}, 0 \notin views'[p]
    PROVE  Told(p)'
BY DEF Told, Waiters, Waits

\* A step that changes the waiting count with its publisher.
LEMMA Counts ==
    ASSUME Bounds, FanoutInv, NEW p \in Publishers, NEW r \in Publication, Walking(r),
           pub' = [pub EXCEPT ![p] = r], Count(p, Cardinality(Waiters')),
           UNCHANGED <<settingVars, consumerVars, admitted, roused>>,
           r.step \in {"enable"} \/ r.step \notin Waits
    PROVE  FanoutInv'
<1>1. /\ pub' \in [Publishers -> Publication] /\ \A q \in Publishers : Walking(pub'[q])
      /\ pub'[p] = r /\ \A q \in Publishers \ {p} : pub'[q] = pub[q]
  BY Moved DEF FanoutInv
<1>2. PICK n : n = Cardinality(Waiters')
  OBVIOUS
<1>3. Waiters' \subseteq Publishers
  BY DEF Waiters
<1>4. n \in Nat /\ IsFiniteSet(Waiters')
  BY <1>2, <1>3, FS_Subset, FS_CardinalityType DEF Bounds
<1>5. /\ views' \in [Keys -> SUBSET Nat] /\ views'[p] = {n}
      /\ n # 0 => \A y \in Keys : 0 \in views'[y] => 0 \in views[y]
  BY <1>2, <1>4, CountViews DEF FanoutInv
<1>6. Shape'
  BY <1>1, <1>5 DEF Shape, FanoutInv, Walking, settingVars, consumerVars
<1>7. WaitersCounted'
  BY DEF WaitersCounted, Count
<1>8. \A q \in Waiters' : n # 0
  BY <1>2, <1>4, FS_EmptySet
<1>9. Told(p)'
  <2>1. CASE r.step \notin Waits
    BY <1>1, <2>1, NotWaiting
  <2>2. CASE r.step = "enable"
    <3>1. p \in Waiters'
      BY <1>1, <2>2 DEF Waiters, Waits
    <3> QED
      BY <1>1, <1>5, <1>8, <2>2, <3>1, OnlyCounted
  <2> QED
    BY <2>1, <2>2
<1>10. ASSUME NEW q \in Publishers, q # p
       PROVE  Told(q)'
  <2>1. pub'[q] = pub[q] /\ Told(q) /\ Shape
    BY <1>1, <1>10 DEF FanoutInv
  <2>2. ASSUME q \in Waiters
        PROVE  \A x \in Keys : 0 \in views'[x] => 0 \in views[x]
    <3>1. q \in Waiters'
      BY <2>1, <2>2 DEF Waiters
    <3> QED
      BY <1>5, <1>8, <3>1
  <2>3. q \in Waiters => To(q) \in Consumers /\ admitted[To(q)] \in Int
    BY <2>1, ToConsumer DEF Shape, Waiters
  <2>4. ASSUME q \in Waiters
        PROVE  /\ \A x \in Keys : 0 \in views'[x] => 0 \in views[x]
               /\ q \in roused => q \in roused'
               /\ \/ q \in roused'
                  \/ notices' # {}
                  \/ /\ notices = {} /\ capacity' = capacity
                     /\ To(q) \in ended' => To(q) \in ended
                     /\ \/ admitted'[To(q)] >= admitted[To(q)]
                        \/ To(q) \in ended
                        \/ /\ receiver'[To(q)] = "returned"
                           /\ 0 \in views'[To(q)] => 0 \in views[Location(To(q))]
                     /\ receiver[To(q)] = "returned" => receiver'[To(q)] = "returned"
    BY <2>2, <2>3, <2>4 DEF settingVars, consumerVars
  <2> QED
    BY <1>6, <2>1, <2>4, OthersTold
<1> QED
  BY <1>6, <1>7, <1>9, <1>10 DEF FanoutInv

\* A step of p that leaves the consumers, the count and the notices alone.
LEMMA Alone ==
    ASSUME Bounds, FanoutInv, NEW p \in Publishers, NEW r \in Publication, Walking(r),
           pub' = [pub EXCEPT ![p] = r], r.step \in Waits <=> p \in Waiters,
           UNCHANGED <<settingVars, consumerVars, admitted, waiting>>,
           views' \in [Keys -> SUBSET Nat], \A x \in Keys : views'[x] \subseteq views[x],
           \A q \in Publishers \ {p} : q \in roused => q \in roused',
           Shape' => Told(p)'
    PROVE  FanoutInv'
<1>1. \A c \in Consumers : admitted[c] \in Int
  BY DEF FanoutInv, Shape
<1>2. /\ admitted' \in [Consumers -> Int] /\ receiver' \in [Consumers -> Places]
      /\ UNCHANGED <<list, capacity, waiting, ended, notices>>
  BY DEF FanoutInv, Shape, settingVars, consumerVars
<1>3. \A c \in Consumers :
             /\ admitted'[c] >= admitted[c] \/ c \in ended
             /\ receiver[c] = "returned" => receiver'[c] = "returned"
  BY <1>1 DEF consumerVars
<1> QED
  BY <1>2, <1>3, Step

LEMMA PublishHolds ==
    ASSUME Bounds, FanoutInv, NEW p \in Publishers, Publish(p) PROVE FanoutInv'
<1>1. Shape
  BY DEF FanoutInv
<1>2. PICK l : l = list /\ l \in Seq(Consumers) /\ Len(l) \in Nat
  BY <1>1 DEF Shape
<1>3. PICK i : i = Idle /\ i \in Publication /\ i.step = "idle" /\ i.at = 1
  BY IdleShape
<1>4. PICK k : k = pub[p].sent + 1
  OBVIOUS
<1>5. k \in Int
  BY <1>1, <1>4 DEF Shape, Publication
<1>6. PICK r : r = [i EXCEPT !.step = "reserving", !.to = l, !.capacity = capacity, !.sent = k]
  OBVIOUS
<1>7. r = [Idle EXCEPT !.step = "reserving", !.to = list, !.capacity = capacity,
                       !.sent = pub[p].sent + 1]
  BY <1>2, <1>3, <1>4, <1>6
<1>8. r \in Publication /\ r.step = "reserving" /\ r.at = 1 /\ r.to = l
  BY <1>1, <1>2, <1>3, <1>5, <1>6 DEF Publication, Steps, Shape
<1>9. Len(l) >= 1
  BY <1>2 DEF Publish
<1>10. Walking(r)
  BY <1>2, <1>8, <1>9 DEF Walking
<1>11. pub' = [pub EXCEPT ![p] = r]
  BY <1>7 DEF Publish
<1>12. p \notin Waiters /\ r.step \notin Waits
  BY <1>8 DEF Publish, Waiters, Waits
<1>13. pub'[p] = r
  BY <1>1, <1>11 DEF Shape
<1>14. Told(p)'
  BY <1>12, <1>13, NotWaiting
<1>15. /\ UNCHANGED <<settingVars, consumerVars, admitted, waiting>>
       /\ views' \in [Keys -> SUBSET Nat] /\ \A x \in Keys : views'[x] \subseteq views[x]
       /\ \A q \in Publishers \ {p} : q \in roused => q \in roused'
  BY <1>1 DEF Publish, Shape
<1> QED
  BY <1>8, <1>10, <1>11, <1>12, <1>14, <1>15, Alone

LEMMA BeginHolds ==
    ASSUME Bounds, FanoutInv, NEW p \in Publishers, Begin(p) PROVE FanoutInv'
<1>1. Shape
  BY DEF FanoutInv
<1>2. PICK r \in Publication : /\ Walking(r) /\ pub' = [pub EXCEPT ![p] = r] /\ r.step = "enable"
  BY <1>1, GoesTo DEF Begin, Steps, Waits
<1>3. p \notin Waiters /\ r.step \in Waits
  BY <1>2 DEF Begin, Waiters, Waits
<1>4. Cardinality(Waiters') = Cardinality(Waiters) + 1
  BY <1>1, <1>2, <1>3, Moved
<1>5. Count(p, Cardinality(Waiters'))
  BY <1>4 DEF Begin, FanoutInv, WaitersCounted
<1> QED
  BY <1>2, <1>5, Counts DEF Begin

LEMMA LowerHolds ==
    ASSUME Bounds, FanoutInv, NEW p \in Publishers, Lower(p) PROVE FanoutInv'
<1>1. Shape
  BY DEF FanoutInv
<1>2. pub[p].held \in Seq(Consumers) /\ pub[p].step \in Waits
  BY <1>1 DEF Shape, Publication, Lower, Waits
<1>3. PICK r : r = Passed(p, pub[p].held, "begin")
  OBVIOUS
<1>4. /\ r \in Publication /\ Walking(r) /\ r.step \in {"deliver", "reserving", "begin"}
  BY <1>1, <1>2, <1>3, PassedOn
<1>5. pub' = [pub EXCEPT ![p] = r]
  BY <1>3 DEF Lower
<1>6. p \in Waiters /\ r.step \notin Waits
  BY <1>2, <1>4 DEF Waiters, Waits
<1>7. Cardinality(Waiters') = Cardinality(Waiters) - 1
  BY <1>1, <1>4, <1>5, <1>6, Moved
<1>8. Count(p, Cardinality(Waiters'))
  BY <1>7 DEF Lower, FanoutInv, WaitersCounted
<1> QED
  BY <1>4, <1>5, <1>6, <1>8, Counts DEF Lower

LEMMA IdleAgain ==
    ASSUME NEW k \in Int
    PROVE  \E r \in Publication : r = [Idle EXCEPT !.sent = k] /\ Walking(r) /\ r.step = "idle"
<1>1. PICK i : i = Idle /\ i \in Publication /\ i.step = "idle"
  BY IdleShape
<1>2. PICK r : r = [i EXCEPT !.sent = k]
  OBVIOUS
<1>3. r = [Idle EXCEPT !.sent = k]
  BY <1>1, <1>2
<1>4. r \in Publication /\ r.step = "idle"
  BY <1>1, <1>2 DEF Publication
<1> QED
  BY <1>3, <1>4 DEF Walking, Waits

LEMMA AbortHolds ==
    ASSUME Bounds, FanoutInv, NEW p \in Publishers, Abort(p) PROVE FanoutInv'
<1>1. Shape
  BY DEF FanoutInv
<1>2. PICK r \in Publication : r = [Idle EXCEPT !.sent = MaxBatches + 1] /\ Walking(r) /\ r.step = "idle"
  <2>1. MaxBatches + 1 \in Int
    BY DEF Bounds
  <2> QED
    BY <2>1, IdleAgain
<1>3. pub' = [pub EXCEPT ![p] = r]
  BY <1>2 DEF Abort
<1>4. p \in Waiters /\ r.step \notin Waits
  BY <1>2 DEF Waiters, Waits, Abort
<1>5. Cardinality(Waiters') = Cardinality(Waiters) - 1
  BY <1>1, <1>2, <1>3, <1>4, Moved
<1>6. Count(p, Cardinality(Waiters'))
  BY <1>5 DEF Abort, FanoutInv, WaitersCounted
<1> QED
  BY <1>2, <1>3, <1>4, <1>6, Counts DEF Abort

LEMMA FinishHolds ==
    ASSUME Bounds, FanoutInv, NEW p \in Publishers, Finish(p) PROVE FanoutInv'
<1>1. Shape
  BY DEF FanoutInv
<1>2. PICK r \in Publication : r = [Idle EXCEPT !.sent = pub[p].sent] /\ Walking(r) /\ r.step = "idle"
  <2>1. pub[p].sent \in Int
    BY <1>1 DEF Shape, Publication
  <2> QED
    BY <2>1, IdleAgain
<1>3. pub' = [pub EXCEPT ![p] = r]
  BY <1>2 DEF Finish
<1>4. p \notin Waiters /\ r.step \notin Waits
  BY <1>2 DEF Waiters, Waits, Finish
<1>5. pub'[p] = r
  BY <1>1, <1>3 DEF Shape
<1>6. Told(p)'
  BY <1>4, <1>5, NotWaiting
<1>7. /\ UNCHANGED <<settingVars, consumerVars, admitted, waiting>>
      /\ views' \in [Keys -> SUBSET Nat] /\ \A x \in Keys : views'[x] \subseteq views[x]
      /\ \A q \in Publishers \ {p} : q \in roused => q \in roused'
  BY <1>1 DEF Finish, Shape
<1> QED
  BY <1>2, <1>3, <1>4, <1>6, <1>7, Alone

\* Of what p holds.
LEMMA Holds ==
    ASSUME Shape, NEW p \in Publishers, NEW c \in Consumers
    PROVE  Append(pub[p].held, c) \in Seq(Consumers)
<1>1. PICK h : h = pub[p].held
  OBVIOUS
<1>2. h \in Seq(Consumers)
  BY <1>1 DEF Shape, Publication
<1>3. Append(h, c) \in Seq(Consumers)
  BY <1>2
<1> QED
  BY <1>1, <1>3

LEMMA ReserveHolds ==
    ASSUME Bounds, FanoutInv, NEW p \in Publishers, Reserve(p) PROVE FanoutInv'
<1>1. Shape /\ p \in Keys /\ pub[p].step = "reserving"
  BY DEF FanoutInv, Reserve, Keys
<1>2. To(p) \in Consumers /\ p \notin Waiters
  BY <1>1, ToConsumer DEF Waiters, Waits
<1>3. /\ receiver' \in [Consumers -> Places] /\ UNCHANGED <<list, capacity, waiting, ended, notices>>
      /\ \A q \in Publishers \ {p} : q \in roused => q \in roused'
      /\ \A c \in Consumers : receiver[c] = "returned" => receiver'[c] = "returned"
  BY <1>1 DEF Reserve, settingVars, consumerVars, Shape
<1>4. CASE /\ admitted' = [admitted EXCEPT ![To(p)] = @ + 1]
           /\ Meet(p, To(p))
           /\ pub' = [pub EXCEPT ![p] = Passed(p, Append(pub[p].held, To(p)), "reserving")]
  <2>1. PICK h : h = Append(pub[p].held, To(p)) /\ h \in Seq(Consumers)
    BY <1>1, <1>2, Holds
  <2>2. PICK r : r = Passed(p, h, "reserving")
    OBVIOUS
  <2>3. /\ r \in Publication /\ Walking(r) /\ r.step \in {"deliver", "reserving", "begin"}
    BY <1>1, <2>1, <2>2, PassedOn
  <2>4. pub' = [pub EXCEPT ![p] = r]
    BY <1>4, <2>1, <2>2
  <2>5. pub'[p] = r /\ r.step \notin Waits
    BY <1>1, <2>3, <2>4 DEF Shape, Waits
  <2>6. Told(p)'
    BY <2>5, NotWaiting
  <2>7. /\ views' \in [Keys -> SUBSET Nat] /\ \A x \in Keys : views'[x] \subseteq views[x]
    BY <1>1, <1>2, <1>4, MeetViews
  <2>8. /\ admitted' \in [Consumers -> Int]
        /\ \A c \in Consumers : admitted'[c] >= admitted[c]
    BY <1>1, <1>2, <1>4 DEF Shape
  <2> QED
    BY <1>2, <1>3, <2>3, <2>4, <2>5, <2>6, <2>7, <2>8, Step
<1>5. CASE Goes(p, "begin") /\ UNCHANGED <<admitted, views>>
  <2>1. PICK r \in Publication : /\ Walking(r) /\ pub' = [pub EXCEPT ![p] = r] /\ r.step = "begin"
    BY <1>1, <1>5, GoesTo DEF Steps, Waits
  <2>2. pub'[p] = r /\ r.step \notin Waits
    BY <1>1, <2>1 DEF Shape, Waits
  <2>3. Told(p)'
    BY <2>2, NotWaiting
  <2>4. /\ UNCHANGED <<settingVars, consumerVars, admitted, waiting>>
        /\ views' \in [Keys -> SUBSET Nat] /\ \A x \in Keys : views'[x] \subseteq views[x]
    BY <1>1, <1>5 DEF Reserve, Shape
  <2> QED
    BY <1>2, <1>3, <2>1, <2>2, <2>3, <2>4, Alone
<1> QED
  BY <1>4, <1>5 DEF Reserve

LEMMA EnableHolds ==
    ASSUME Bounds, FanoutInv, NEW p \in Publishers, EnableWait(p) PROVE FanoutInv'
<1>1. Shape /\ p \in Keys /\ Told(p) /\ pub[p].step = "enable"
  BY DEF FanoutInv, EnableWait, Keys
<1>2. PICK r \in Publication : /\ Walking(r) /\ pub' = [pub EXCEPT ![p] = r] /\ r.step = "check"
  BY <1>1, GoesTo DEF EnableWait, Steps, Waits
<1>3. p \in Waiters /\ r.step \in Waits /\ pub'[p] = r
  BY <1>1, <1>2 DEF Waiters, Waits, Shape
<1>4. /\ UNCHANGED <<settingVars, consumerVars, admitted, waiting>>
      /\ views' \in [Keys -> SUBSET Nat] /\ \A x \in Keys : views'[x] \subseteq views[x]
      /\ \A q \in Publishers \ {p} : q \in roused => q \in roused'
  BY <1>1 DEF EnableWait, Shape
<1>5. 0 \notin views'[p]
  BY <1>1, <1>3 DEF Told, EnableWait
<1>6. Told(p)'
  BY <1>2, <1>3, <1>5, OnlyCounted
<1> QED
  BY <1>2, <1>3, <1>4, <1>6, Alone

LEMMA WakeHolds ==
    ASSUME Bounds, FanoutInv, NEW p \in Publishers, WakePublisher(p) PROVE FanoutInv'
<1>1. Shape /\ p \in Keys /\ Told(p) /\ pub[p].step = "asleep"
  BY DEF FanoutInv, WakePublisher, Keys
<1>2. PICK r \in Publication : /\ Walking(r) /\ pub' = [pub EXCEPT ![p] = r] /\ r.step = "enable"
  BY <1>1, GoesTo DEF WakePublisher, Steps, Waits
<1>3. p \in Waiters /\ r.step \in Waits /\ pub'[p] = r
  BY <1>1, <1>2 DEF Waiters, Waits, Shape
<1>4. /\ UNCHANGED <<settingVars, consumerVars, admitted, waiting>>
      /\ views' \in [Keys -> SUBSET Nat] /\ \A x \in Keys : views'[x] \subseteq views[x]
      /\ \A q \in Publishers \ {p} : q \in roused => q \in roused'
  BY <1>1 DEF WakePublisher, Shape
<1>5. 0 \notin views'[p]
  BY <1>1, <1>3 DEF Told, WakePublisher
<1>6. Told(p)'
  BY <1>2, <1>3, <1>5, OnlyCounted
<1> QED
  BY <1>2, <1>3, <1>4, <1>6, Alone

LEMMA CheckHolds ==
    ASSUME Bounds, FanoutInv, NEW p \in Publishers, Check(p) PROVE FanoutInv'
<1>1. Shape /\ p \in Keys /\ Told(p) /\ pub[p].step = "check" /\ capacity \in Int
  BY DEF FanoutInv, Check, Keys, Shape
<1>2. p \in Waiters /\ pub[p] \in Publication /\ Walking(pub[p])
  BY <1>1 DEF Waiters, Waits, Shape
<1>3. /\ UNCHANGED <<settingVars, consumerVars, admitted, waiting, ended, capacity, views>>
      /\ views' \in [Keys -> SUBSET Nat] /\ \A x \in Keys : views'[x] \subseteq views[x]
      /\ \A q \in Publishers \ {p} : q \in roused => q \in roused'
  BY <1>1 DEF Check, Shape, consumerVars, settingVars
<1>4. 0 \notin views'[p]
  BY <1>1, <1>2, <1>3 DEF Told
<1>5. CASE To(p) \in ended
  <2>1. PICK r : r = [pub[p] EXCEPT !.step = "lower"]
    OBVIOUS
  <2>2. pub' = [pub EXCEPT ![p] = r]
    BY <1>5, <2>1 DEF Check
  <2>3. r \in Publication /\ r.step = "lower" /\ r.at = pub[p].at /\ r.to = pub[p].to
    BY <1>2, <2>1 DEF Publication, Steps, Waits
  <2>4. Walking(r) /\ r.step \in Waits /\ pub'[p] = r
    BY <1>1, <1>2, <2>2, <2>3 DEF Walking, Waits, Shape
  <2>5. Told(p)'
    BY <1>4, <2>3, <2>4, OnlyCounted
  <2> QED
    BY <1>2, <1>3, <2>2, <2>3, <2>4, <2>5, Alone
<1>6. CASE To(p) \notin ended
  <2>1. PICK r : r = [pub[p] EXCEPT !.step = "admit", !.capacity = capacity]
    OBVIOUS
  <2>2. pub' = [pub EXCEPT ![p] = r]
    BY <1>6, <2>1 DEF Check
  <2>3. /\ r \in Publication /\ r.step = "admit" /\ r.at = pub[p].at /\ r.to = pub[p].to
        /\ r.capacity = capacity
    BY <1>1, <1>2, <2>1 DEF Publication, Steps, Waits
  <2>4. Walking(r) /\ r.step \in Waits /\ pub'[p] = r
    BY <1>1, <1>2, <2>2, <2>3 DEF Walking, Waits, Shape
  <2>5. To(p)' = To(p)
    BY <2>3, <2>4 DEF To
  <2>6. Told(p)'
    BY <1>3, <1>4, <1>6, <2>3, <2>4, <2>5 DEF Told
  <2> QED
    BY <1>2, <1>3, <2>2, <2>3, <2>4, <2>6, Alone
<1> QED
  BY <1>5, <1>6

LEMMA AdmitHolds ==
    ASSUME Bounds, FanoutInv, NEW p \in Publishers, Admit(p) PROVE FanoutInv'
<1>1. Shape /\ p \in Keys /\ Told(p) /\ pub[p].step = "admit" /\ capacity \in Int
  BY DEF FanoutInv, Admit, Keys, Shape
<1>2. p \in Waiters /\ pub[p] \in Publication /\ pub[p].capacity \in Int
  BY <1>1 DEF Waiters, Waits, Shape, Publication
<1>3. To(p) \in Consumers /\ admitted[To(p)] \in Int /\ Location(To(p)) \in Keys
  BY <1>1, ToConsumer DEF Shape, Waits
<1>4. PICK step : step = IF admitted[To(p)] < pub[p].capacity THEN "raise" ELSE "asleep"
  OBVIOUS
<1>5. step \in {"raise", "asleep"} /\ Goes(p, step)
  BY <1>4 DEF Admit
<1>6. PICK r \in Publication :
             /\ Walking(r) /\ pub' = [pub EXCEPT ![p] = r] /\ r.step = step
             /\ r.to = pub[p].to /\ r.at = pub[p].at /\ r.capacity = pub[p].capacity
  BY <1>1, <1>5, GoesTo DEF Steps, Waits
<1>7. /\ views' \in [Keys -> SUBSET Nat] /\ \A x \in Keys : views'[x] \subseteq views[x]
      /\ views'[Location(To(p))] \subseteq views[p]
  BY <1>1, <1>3, MeetViews DEF Admit
<1>8. /\ UNCHANGED <<settingVars, consumerVars, admitted, waiting, ended, capacity, notices, roused>>
      /\ \A q \in Publishers \ {p} : q \in roused => q \in roused'
  BY DEF Admit, consumerVars, settingVars
<1>9. pub'[p] = r /\ r.step \in Waits
  BY <1>1, <1>5, <1>6 DEF Shape, Waits
<1>10. To(p)' = To(p) /\ Location(To(p))' = Location(To(p))
  BY <1>6, <1>9 DEF To, Location
<1>11. 0 \notin views'[p] /\ 0 \notin views'[Location(To(p))]
  BY <1>1, <1>2, <1>7 DEF Told
<1>12. Told(p)'
  <2>1. p \notin roused => notices # {} \/ (To(p) \notin ended /\ pub[p].capacity = capacity)
    BY <1>1 DEF Told
  <2>2. CASE step = "raise"
    BY <1>6, <1>8, <1>9, <1>10, <1>11, <2>1, <2>2 DEF Told
  <2>3. CASE step = "asleep"
    <3>1. admitted[To(p)] >= pub[p].capacity
      BY <1>2, <1>3, <1>4, <2>3
    <3> QED
      BY <1>6, <1>8, <1>9, <1>10, <1>11, <2>1, <2>3, <3>1 DEF Told
  <2> QED
    BY <1>5, <2>2, <2>3
<1> QED
  BY <1>2, <1>6, <1>7, <1>8, <1>9, <1>12, Alone

LEMMA RaiseHolds ==
    ASSUME Bounds, FanoutInv, NEW p \in Publishers, Raise(p) PROVE FanoutInv'
<1>1. Shape /\ p \in Keys /\ Told(p) /\ pub[p].step = "raise" /\ capacity \in Int
  BY DEF FanoutInv, Raise, Keys, Shape
<1>2. p \in Waiters /\ pub[p] \in Publication /\ pub[p].capacity \in Int /\ Walking(pub[p])
  BY <1>1 DEF Waiters, Waits, Shape, Publication
<1>3. To(p) \in Consumers /\ admitted[To(p)] \in Int /\ Location(To(p)) \in Keys
  BY <1>1, ToConsumer DEF Shape, Waits
<1>4. /\ receiver' \in [Consumers -> Places]
      /\ UNCHANGED <<settingVars, consumerVars, waiting>>
      /\ UNCHANGED <<list, capacity, waiting, ended, notices, roused>>
      /\ \A q \in Publishers \ {p} : q \in roused => q \in roused'
      /\ \A c \in Consumers : receiver[c] = "returned" => receiver'[c] = "returned"
  BY <1>1 DEF Raise, settingVars, consumerVars, Shape
<1>5. CASE admitted[To(p)] < pub[p].capacity
  <2>1. PICK h : h = Append(pub[p].held, To(p)) /\ h \in Seq(Consumers)
    BY <1>1, <1>3, Holds
  <2>2. PICK r : r = [pub[p] EXCEPT !.step = "lower", !.held = h]
    OBVIOUS
  <2>3. r \in Publication /\ r.step = "lower" /\ r.at = pub[p].at /\ r.to = pub[p].to
    BY <1>2, <2>1, <2>2 DEF Publication, Steps, Waits
  <2>4. /\ pub' = [pub EXCEPT ![p] = r] /\ Meet(p, To(p))
        /\ admitted' = [admitted EXCEPT ![To(p)] = @ + 1]
    BY <1>5, <2>1, <2>2 DEF Raise
  <2>5. Walking(r) /\ r.step \in Waits /\ pub'[p] = r
    BY <1>1, <1>2, <2>3, <2>4 DEF Walking, Waits, Shape
  <2>6. /\ views' \in [Keys -> SUBSET Nat] /\ \A x \in Keys : views'[x] \subseteq views[x]
    BY <1>1, <1>3, <2>4, MeetViews
  <2>7. /\ admitted' \in [Consumers -> Int]
        /\ \A c \in Consumers : admitted'[c] >= admitted[c]
    BY <1>1, <1>3, <2>4 DEF Shape
  <2>8. 0 \notin views'[p]
    BY <1>1, <1>2, <2>6 DEF Told
  <2>9. Told(p)'
    BY <2>3, <2>5, <2>8, OnlyCounted
  <2> QED
    BY <1>2, <1>4, <2>3, <2>4, <2>5, <2>6, <2>7, <2>9, Step
<1>6. CASE ~(admitted[To(p)] < pub[p].capacity)
  <2>1. Goes(p, "asleep") /\ UNCHANGED <<admitted, views>>
    BY <1>6 DEF Raise
  <2>2. PICK r \in Publication :
             /\ Walking(r) /\ pub' = [pub EXCEPT ![p] = r] /\ r.step = "asleep"
             /\ r.to = pub[p].to /\ r.at = pub[p].at /\ r.capacity = pub[p].capacity
    BY <1>1, <2>1, GoesTo DEF Steps, Waits
  <2>3. pub'[p] = r /\ r.step \in Waits
    BY <1>1, <2>2 DEF Shape, Waits
  <2>4. To(p)' = To(p) /\ Location(To(p))' = Location(To(p))
    BY <2>2, <2>3 DEF To, Location
  <2>5. admitted[To(p)] >= pub[p].capacity
    BY <1>2, <1>3, <1>6
  <2>6. Told(p)'
    <3>1. p \notin roused => notices # {} \/ (To(p) \notin ended /\ pub[p].capacity = capacity)
      BY <1>1 DEF Told
    <3>2. 0 \notin views'[p] /\ 0 \notin views'[Location(To(p))]
      BY <1>1, <1>2, <2>1 DEF Told
    <3> QED
      BY <1>4, <2>1, <2>2, <2>3, <2>4, <2>5, <3>1, <3>2 DEF Told
  <2>7. views' \in [Keys -> SUBSET Nat] /\ \A x \in Keys : views'[x] \subseteq views[x]
    BY <1>1, <2>1 DEF Shape
  <2> QED
    BY <1>2, <1>4, <2>1, <2>2, <2>3, <2>6, <2>7, Alone
<1> QED
  BY <1>5, <1>6

LEMMA DeliverHolds ==
    ASSUME Bounds, FanoutInv, NEW p \in Publishers, Deliver(p) PROVE FanoutInv'
<1>1. Shape /\ p \in Keys /\ pub[p].step = "deliver" /\ pub[p].held # << >>
  BY DEF FanoutInv, Deliver, Keys
<1>2. PICK h : h = pub[p].held /\ h \in Seq(Consumers) /\ h # << >>
  BY <1>1 DEF Shape, Publication
<1>3. PICK c : c = Head(h) /\ c \in Consumers
  BY <1>2
<1>4. PICK t : t = Tail(h) /\ t \in Seq(Consumers)
  BY <1>2, HeadTailProperties
<1>5. PICK r : r = [pub[p] EXCEPT !.held = t]
  OBVIOUS
<1>6. r \in Publication /\ r.step = "deliver"
  BY <1>1, <1>4, <1>5 DEF Shape, Publication
<1>7. pub' = [pub EXCEPT ![p] = r] /\ pub'[p] = r
  BY <1>1, <1>2, <1>4, <1>5 DEF Deliver, Shape
<1>8. p \notin Waiters /\ r.step \notin Waits /\ Walking(r)
  BY <1>1, <1>6 DEF Waiters, Waits, Walking
<1>9. Told(p)'
  BY <1>7, <1>8, NotWaiting
<1>10. UNCHANGED <<list, capacity, waiting, ended, notices, roused>>
  BY DEF Deliver, settingVars
<1>11. CASE c \in ended
  <2>1. admitted' = [admitted EXCEPT ![c] = @ - 1] /\ Meet(p, c) /\ UNCHANGED receiver
    BY <1>2, <1>3, <1>11 DEF Deliver
  <2>2. /\ views' \in [Keys -> SUBSET Nat] /\ \A x \in Keys : views'[x] \subseteq views[x]
    BY <1>1, <1>3, <2>1, MeetViews
  <2>3. /\ admitted' \in [Consumers -> Int]
        /\ \A d \in Consumers : admitted'[d] >= admitted[d] \/ d \in ended
    BY <1>1, <1>3, <1>11, <2>1 DEF Shape
  <2>4. receiver' \in [Consumers -> Places]
    BY <1>1, <2>1 DEF Shape
  <2> QED
    BY <1>6, <1>7, <1>8, <1>9, <1>10, <2>1, <2>2, <2>3, <2>4, Step
<1>12. CASE c \notin ended
  <2>1. /\ receiver' = IF receiver[c] = "pending" THEN [receiver EXCEPT ![c] = "woken"] ELSE receiver
        /\ UNCHANGED <<admitted, views>>
    BY <1>2, <1>3, <1>12 DEF Deliver
  <2>2. /\ receiver' \in [Consumers -> Places]
        /\ \A d \in Consumers : receiver[d] = "returned" => receiver'[d] = "returned"
    BY <1>1, <1>3, <2>1 DEF Shape, Places
  <2>3. /\ views' \in [Keys -> SUBSET Nat] /\ \A x \in Keys : views'[x] \subseteq views[x]
        /\ admitted' \in [Consumers -> Int] /\ \A d \in Consumers : admitted'[d] >= admitted[d]
    BY <1>1, <2>1 DEF Shape
  <2> QED
    BY <1>6, <1>7, <1>8, <1>9, <1>10, <2>2, <2>3, Step
<1> QED
  BY <1>11, <1>12

\* A step that moves no publisher.
LEMMA Still ==
    ASSUME FanoutInv, Shape', UNCHANGED <<pub, waiting>>,
           \A x \in Keys : 0 \in views'[x] => 0 \in views[x],
           \A q \in Waiters :
             /\ q \in roused => q \in roused'
             /\ \/ q \in roused'
                \/ notices' # {}
                \/ /\ notices = {} /\ capacity' = capacity
                   /\ To(q) \in ended' => To(q) \in ended
                   /\ \/ admitted'[To(q)] >= admitted[To(q)]
                      \/ To(q) \in ended
                      \/ /\ receiver'[To(q)] = "returned"
                         /\ 0 \in views'[To(q)] => 0 \in views[Location(To(q))]
                   /\ receiver[To(q)] = "returned" => receiver'[To(q)] = "returned"
    PROVE  FanoutInv'
<1>1. Waiters' = Waiters
  BY DEF Waiters
<1>2. WaitersCounted'
  BY <1>1 DEF WaitersCounted, FanoutInv
<1>3. ASSUME NEW q \in Publishers
      PROVE  Told(q)'
  <2>1. pub'[q] = pub[q] /\ Told(q) /\ Shape
    BY DEF FanoutInv
  <2> QED
    BY <2>1, OthersTold
<1> QED
  BY <1>2, <1>3 DEF FanoutInv

\* The waiters' consumers.
LEMMA WaitersTo == ASSUME FanoutInv PROVE \A q \in Waiters : To(q) \in Consumers
BY ToConsumer DEF FanoutInv, Waiters

\* A step of a receiver that is not about to look for publishers.
LEMMA Receives ==
    ASSUME FanoutInv, UNCHANGED <<pub, waiting, admitted, capacity, views, roused>>,
           list' \in Seq(Consumers), NEW c \in Consumers, NEW step \in Places, At(c, step),
           receiver[c] # "returned",
           UNCHANGED <<ended, notices>> \/ notices' # {}
    PROVE  FanoutInv'
<1>1. Shape'
  BY DEF FanoutInv, Shape, At, Walking
<1>2. \A q \in Waiters : To(q) \in Consumers
  BY WaitersTo
<1>3. /\ \A d \in Consumers : receiver[d] = "returned" => receiver'[d] = "returned"
      /\ \A d \in Consumers : admitted'[d] >= admitted[d]
  BY DEF FanoutInv, Shape, At
<1> QED
  BY <1>1, <1>2, <1>3, Still

LEMMA RegisterHolds ==
    ASSUME Bounds, FanoutInv, NEW c \in Consumers, Register(c) PROVE FanoutInv'
<1>1. list' \in Seq(Consumers)
  BY DEF Register, FanoutInv, Shape
<1> QED
  BY <1>1, Receives DEF Register, Places

LEMMA PollHolds ==
    ASSUME Bounds, FanoutInv, NEW c \in Consumers, PollQueue(c) PROVE FanoutInv'
<1>1. list' \in Seq(Consumers)
  BY DEF PollQueue, FanoutInv, Shape, settingVars
<1>2. PICK step \in Places : At(c, step)
  BY DEF PollQueue, Places
<1>3. UNCHANGED <<pub, waiting, admitted, capacity, views, roused, ended, notices>>
      /\ receiver[c] # "returned"
  BY DEF PollQueue, settingVars
<1> QED
  BY <1>1, <1>2, <1>3, Receives

LEMMA RegisterWakerHolds ==
    ASSUME Bounds, FanoutInv, NEW c \in Consumers, RegisterWaker(c) PROVE FanoutInv'
<1>1. list' \in Seq(Consumers)
  BY DEF RegisterWaker, FanoutInv, Shape, settingVars
<1> QED
  BY <1>1, Receives DEF RegisterWaker, settingVars, Places

LEMMA DeregisterHolds ==
    ASSUME Bounds, FanoutInv, NEW c \in Consumers, Deregister(c) PROVE FanoutInv'
<1>1. PICK i \in DOMAIN list : list' = RemoveAt(list, i)
  BY DEF Deregister
<1>2. list \in Seq(Consumers)
  BY DEF FanoutInv, Shape
<1>3. list' \in Seq(Consumers)
  BY <1>1, <1>2 DEF RemoveAt
<1> QED
  BY <1>3, Receives DEF Deregister, Places

LEMMA CloseHolds ==
    ASSUME Bounds, FanoutInv, NEW c \in Consumers, Close(c) PROVE FanoutInv'
<1>1. list' \in Seq(Consumers) /\ notices' # {}
  BY DEF Close, FanoutInv, Shape
<1> QED
  BY <1>1, Receives DEF Close, Places

LEMMA ReturnHolds ==
    ASSUME Bounds, FanoutInv, NEW c \in Consumers, Return(c) PROVE FanoutInv'
<1>1. Shape /\ c \in Keys
  BY DEF FanoutInv, Keys
<1>2. /\ views' \in [Keys -> SUBSET Nat] /\ \A x \in Keys : views'[x] \subseteq views[x]
      /\ views'[c] \subseteq views[Location(c)]
  BY <1>1, MeetViews DEF Return
<1>3. UNCHANGED <<list, capacity, notices, ended, pub, roused, waiting>>
  BY DEF Return, settingVars
<1>4. /\ receiver' \in [Consumers -> Places] /\ receiver'[c] = "returned"
      /\ \A d \in Consumers : receiver[d] = "returned" => receiver'[d] = "returned"
  BY <1>1 DEF Return, At, Shape, Places
<1>5. /\ admitted' \in [Consumers -> Int]
      /\ \A d \in Consumers : d # c => admitted'[d] >= admitted[d]
  BY <1>1 DEF Return, Shape
<1>6. Shape'
  BY <1>1, <1>2, <1>3, <1>4, <1>5 DEF Shape, Walking
<1>7. \A q \in Waiters : To(q) \in Consumers
  BY WaitersTo
<1> QED
  BY <1>2, <1>3, <1>4, <1>5, <1>6, <1>7, Still

LEMMA LookWaitingHolds ==
    ASSUME Bounds, FanoutInv, NEW c \in Consumers, LookWaiting(c) PROVE FanoutInv'
<1>1. Shape /\ c \in Keys /\ receiver[c] = "returned"
  BY DEF FanoutInv, Keys, LookWaiting
<1>2. UNCHANGED <<list, capacity, notices, ended, pub, waiting, admitted, views>>
  BY DEF LookWaiting, settingVars
<1>3. /\ receiver' \in [Consumers -> Places]
      /\ \A d \in Consumers : d # c => receiver'[d] = receiver[d]
  BY <1>1 DEF LookWaiting, At, Shape, Places
<1>4. Shape'
  BY <1>1, <1>2, <1>3 DEF Shape, Walking
<1>5. PICK seen \in views[c] : roused' = IF seen > 0 THEN Publishers ELSE roused
  BY DEF LookWaiting
<1>6. seen \in Nat
  BY <1>1, <1>5 DEF Shape
<1>7. \A q \in Waiters : q \in Publishers /\ To(q) \in Consumers /\ admitted[To(q)] \in Int
  BY <1>1, WaitersTo DEF Waiters, Shape
<1>8. CASE seen > 0
  BY <1>2, <1>4, <1>5, <1>7, <1>8, Still
<1>9. CASE seen = 0
  <2>1. roused' = roused /\ 0 \in views[c]
    BY <1>5, <1>9
  <2>2. ASSUME NEW q \in Publishers
        PROVE  Told(q)'
    <3>1. Told(q) /\ pub'[q] = pub[q] /\ To(q)' = To(q) /\ Location(To(q))' = Location(To(q))
      BY <1>2 DEF FanoutInv, To, Location
    <3>2. q \in Waiters' <=> q \in Waiters
      BY <1>2 DEF Waiters
    <3>3. pub[q].step = "asleep" => To(q) \in Consumers
      BY <1>7 DEF Waiters, Waits
    <3> QED
      BY <1>2, <1>3, <2>1, <3>1, <3>2, <3>3 DEF Told
  <2>3. WaitersCounted'
    BY <1>2 DEF WaitersCounted, FanoutInv, Waiters
  <2> QED
    BY <1>4, <2>2, <2>3 DEF FanoutInv
<1> QED
  BY <1>6, <1>8, <1>9

LEMMA SetCapacityHolds == ASSUME Bounds, FanoutInv, SetCapacity PROVE FanoutInv'
<1>1. Shape'
  BY DEF FanoutInv, Shape, SetCapacity, Bounds, Walking, consumerVars
<1>2. notices' # {} /\ UNCHANGED <<pub, waiting, views, roused>>
  BY DEF SetCapacity
<1> QED
  BY <1>1, <1>2, Still

LEMMA CloseReceiversHolds == ASSUME Bounds, FanoutInv, CloseReceivers PROVE FanoutInv'
<1>1. receiver' \in [Consumers -> Places]
  BY DEF FanoutInv, Shape, CloseReceivers, Places
<1>2. Shape'
  BY <1>1 DEF FanoutInv, Shape, CloseReceivers, Walking
<1>3. notices' # {} /\ UNCHANGED <<pub, waiting, views, roused>>
  BY DEF CloseReceivers
<1> QED
  BY <1>2, <1>3, Still

LEMMA NotifyHolds == ASSUME Bounds, FanoutInv, Notify PROVE FanoutInv'
<1>1. Shape'
  BY DEF FanoutInv, Shape, Notify, Walking, consumerVars
<1>2. roused' = Publishers /\ UNCHANGED <<pub, waiting, views>>
  BY DEF Notify
<1>3. \A q \in Waiters : q \in roused'
  BY <1>2 DEF Waiters
<1> QED
  BY <1>1, <1>2, <1>3, Still

LEMMA StutterHolds == ASSUME FanoutInv, UNCHANGED fanoutVars PROVE FanoutInv'
<1>1. Waiters' = Waiters
  BY DEF fanoutVars, Waiters
<1>2. \A q \in Publishers : Told(q)' <=> Told(q)
  BY <1>1 DEF fanoutVars, Told, To, Location
<1> QED
  BY <1>1, <1>2 DEF FanoutInv, Shape, Walking, WaitersCounted, fanoutVars

LEMMA StepHolds == ASSUME Bounds, FanoutInv, [FanoutNext]_fanoutVars PROVE FanoutInv'
<1>1. ASSUME NEW p \in Publishers, Broadcast(p) PROVE FanoutInv'
  BY <1>1, PublishHolds, ReserveHolds, BeginHolds, EnableHolds, CheckHolds, AdmitHolds,
       RaiseHolds, WakeHolds, LowerHolds, AbortHolds, DeliverHolds, FinishHolds
     DEF Broadcast
<1>2. ASSUME NEW c \in Consumers, Register(c) \/ Receive(c) \/ Deregister(c) \/ Close(c)
      PROVE  FanoutInv'
  BY <1>2, RegisterHolds, PollHolds, RegisterWakerHolds, ReturnHolds, LookWaitingHolds,
     DeregisterHolds, CloseHolds DEF Receive
<1>3. CASE SetCapacity \/ CloseReceivers \/ Notify
  BY <1>3, SetCapacityHolds, CloseReceiversHolds, NotifyHolds
<1> QED
  BY <1>1, <1>2, <1>3, StutterHolds DEF FanoutNext

\* A publisher that sleeps for a place of its consumer is woken, or a wake is on its way,
\* whenever the place is there or will not come: although the count of waiting publishers
\* may be read stale (relay fan-out, admission and its waiting counter).
THEOREM PublishersAreWoken == ASSUME Bounds PROVE FanoutSpec => []PublishersWoken
<1>1. FanoutInit => FanoutInv
  BY InitHolds
<1>2. FanoutInv /\ [FanoutNext]_fanoutVars => FanoutInv'
  BY StepHolds
<1>3. FanoutInv => PublishersWoken
  BY DEF FanoutInv, Shape, Told, PublishersWoken
<1> QED
  BY <1>1, <1>2, <1>3, PTL DEF FanoutSpec

\* Until the capacity is first changed, it is what every publisher that reserves goes by.
Walks == Waits \cup {"reserving", "begin"}
Roomy ==
    /\ changes \in Nat
    /\ changes = 0 => /\ \A c \in Consumers : admitted[c] <= capacity
                      /\ \A p \in Publishers : pub[p].step \in Walks => pub[p].capacity = capacity

\* A step of p keeps to the capacity, or reserves nothing more.
LEMMA KeepsRoom ==
    ASSUME Shape, Shape', Roomy, NEW p \in Publishers, NEW r, pub' = [pub EXCEPT ![p] = r],
           UNCHANGED <<capacity, changes>>,
           changes = 0 => /\ r.step \in Walks => r.capacity = capacity
                          /\ \A c \in Consumers : admitted'[c] <= capacity
    PROVE  Roomy'
<1>1. pub'[p] = r /\ \A q \in Publishers \ {p} : pub'[q] = pub[q]
  BY DEF Shape
<1> QED
  BY <1>1 DEF Roomy

\* A step of p whose publication goes by the same capacity.
LEMMA SameRoom ==
    ASSUME Shape, Shape', Roomy, NEW p \in Publishers, pub'[p].capacity = pub[p].capacity,
           pub'[p].step \in Walks => pub[p].step \in Walks,
           \A q \in Publishers \ {p} : pub'[q] = pub[q],
           UNCHANGED <<capacity, changes>>,
           \/ UNCHANGED admitted
           \/ \E c \in Consumers : admitted' = [admitted EXCEPT ![c] = @ - 1]
           \/ /\ pub[p].step \in Walks /\ admitted[To(p)] < pub[p].capacity
              /\ admitted' = [admitted EXCEPT ![To(p)] = @ + 1]
    PROVE  Roomy'
<1>1. capacity \in Int /\ admitted \in [Consumers -> Int]
  BY DEF Shape
<1>2. ASSUME changes = 0, NEW c \in Consumers PROVE admitted'[c] <= capacity
  <2>1. CASE UNCHANGED admitted
    BY <1>2, <2>1 DEF Roomy
  <2>2. CASE \E d \in Consumers : admitted' = [admitted EXCEPT ![d] = @ - 1]
    BY <1>1, <1>2, <2>2 DEF Roomy
  <2>3. CASE /\ pub[p].step \in Walks /\ admitted[To(p)] < pub[p].capacity
             /\ admitted' = [admitted EXCEPT ![To(p)] = @ + 1]
    <3>1. To(p) \in Consumers
      BY <2>3, ToConsumer DEF Walks
    <3>2. pub[p].capacity = capacity
      BY <1>2, <2>3 DEF Roomy
    <3> QED
      BY <1>1, <1>2, <2>3, <3>1, <3>2 DEF Roomy
  <2> QED
    BY <2>1, <2>2, <2>3
<1> QED
  BY <1>2 DEF Roomy

\* Another step with the same publication but for where it is.
LEMMA StepsKeep ==
    ASSUME Shape, NEW p \in Publishers, Broadcast(p)
    PROVE  /\ UNCHANGED <<capacity, changes>>
           /\ \A q \in Publishers \ {p} : pub'[q] = pub[q]
<1>1. DOMAIN pub = Publishers
  BY DEF Shape
<1> QED
  BY <1>1 DEF Broadcast, Publish, Reserve, Begin, EnableWait,
       Check, Admit, Raise, WakePublisher, Lower, Abort,
       Deliver, Finish, Goes, settingVars

LEMMA RoomStep == ASSUME Shape, Shape', Roomy, [FanoutNext]_fanoutVars PROVE Roomy'
<1>1. ASSUME NEW p \in Publishers, Broadcast(p) PROVE Roomy'
  <2>1. /\ UNCHANGED <<capacity, changes>>
        /\ \A q \in Publishers \ {p} : pub'[q] = pub[q]
    BY <1>1, StepsKeep
  <2>2. pub[p] \in Publication /\ DOMAIN pub = Publishers
    BY DEF Shape
  <2>3. CASE Publish(p)
    <3>1. PICK i : i = Idle /\ i \in Publication
      BY IdleShape
    <3>2. PICK r : r = [i EXCEPT !.step = "reserving", !.to = list, !.capacity = capacity,
                                 !.sent = pub[p].sent + 1]
                   /\ pub' = [pub EXCEPT ![p] = r]
      BY <2>3, <3>1 DEF Publish
    <3>3. r.capacity = capacity
      BY <3>1, <3>2 DEF Publication
    <3>4. pub'[p] = r /\ UNCHANGED admitted
      BY <2>2, <2>3, <3>2 DEF Publish
    <3> QED
      BY <2>1, <3>3, <3>4 DEF Roomy
  <2>4. CASE \/ /\ pub[p].step = "reserving"
                /\ Goes(p, "begin") /\ UNCHANGED admitted
             \/ Begin(p) \/ EnableWait(p) \/ Admit(p) \/ WakePublisher(p)
             \/ /\ pub[p].step = "raise"
                /\ Goes(p, "asleep") /\ UNCHANGED admitted
    <3>1. PICK s : Goes(p, s) /\ UNCHANGED admitted /\ pub[p].step \in Walks
      BY <2>4 DEF Begin, EnableWait, Admit, WakePublisher, Walks, Waits
    <3>2. pub'[p].capacity = pub[p].capacity
      BY <2>2, <3>1 DEF Goes, Publication
    <3> QED
      BY <2>1, <3>1, <3>2, SameRoom
  <2>5. CASE /\ pub[p].step = "reserving" /\ admitted[To(p)] < pub[p].capacity
             /\ admitted' = [admitted EXCEPT ![To(p)] = @ + 1]
             /\ pub' = [pub EXCEPT ![p] = Passed(p, Append(pub[p].held, To(p)), "reserving")]
    <3>1. pub'[p] = Passed(p, Append(pub[p].held, To(p)), "reserving")
      BY <2>2, <2>5
    <3>2. pub'[p].capacity = pub[p].capacity
      BY <2>2, <3>1 DEF Passed, Publication
    <3> QED
      BY <2>1, <2>5, <3>2, SameRoom DEF Walks
  <2>6. CASE Check(p)
    <3>1. \/ pub'[p] = [pub[p] EXCEPT !.step = "lower"]
          \/ pub'[p] = [pub[p] EXCEPT !.step = "admit", !.capacity = capacity]
      BY <2>2, <2>6 DEF Check
    <3>2. pub'[p].capacity = pub[p].capacity \/ pub'[p].capacity = capacity
      BY <2>2, <3>1 DEF Publication
    <3>3. UNCHANGED admitted /\ pub[p].step \in Walks
      BY <2>6 DEF Check, Walks, Waits
    <3> QED
      BY <2>1, <3>2, <3>3 DEF Roomy
  <2>7. CASE /\ pub[p].step = "raise" /\ admitted[To(p)] < pub[p].capacity
             /\ admitted' = [admitted EXCEPT ![To(p)] = @ + 1]
             /\ pub' = [pub EXCEPT ![p] = [pub[p] EXCEPT !.step = "lower",
                                                         !.held = Append(pub[p].held, To(p))]]
    <3>1. pub'[p] = [pub[p] EXCEPT !.step = "lower", !.held = Append(pub[p].held, To(p))]
      BY <2>2, <2>7
    <3>2. pub'[p].capacity = pub[p].capacity
      BY <2>2, <3>1 DEF Publication
    <3> QED
      BY <2>1, <2>7, <3>2, SameRoom DEF Walks, Waits
  <2>8. CASE Lower(p)
    <3>1. pub'[p] = Passed(p, pub[p].held, "begin")
      BY <2>2, <2>8 DEF Lower
    <3>2. pub'[p].capacity = pub[p].capacity
      BY <2>2, <3>1 DEF Passed, Publication
    <3> QED
      BY <2>1, <2>8, <3>2, SameRoom DEF Walks, Waits, Lower
  <2>9. CASE Abort(p) \/ Finish(p)
    <3>1. PICK k : pub' = [pub EXCEPT ![p] = [Idle EXCEPT !.sent = k]] /\ UNCHANGED admitted
      BY <2>9 DEF Abort, Finish
    <3>2. PICK i : i = Idle /\ i \in Publication /\ i.step = "idle"
      BY IdleShape
    <3>3. PICK r : r = [i EXCEPT !.sent = k]
      OBVIOUS
    <3>4. pub'[p] = r /\ r.step = "idle"
      BY <2>2, <3>1, <3>2, <3>3 DEF Publication
    <3> QED
      BY <2>1, <3>1, <3>4 DEF Roomy, Walks, Waits
  <2>10. CASE Deliver(p)
    <3>1. PICK h : h = pub[p].held /\ h \in Seq(Consumers) /\ h # << >>
      BY <2>2, <2>10 DEF Deliver, Publication
    <3>2. Head(h) \in Consumers
      BY <3>1
    <3>3. pub'[p].capacity = pub[p].capacity /\ pub'[p].step = pub[p].step
      BY <2>2, <2>10 DEF Deliver, Publication
    <3>4. UNCHANGED admitted \/ \E c \in Consumers : admitted' = [admitted EXCEPT ![c] = @ - 1]
      BY <2>10, <3>1, <3>2 DEF Deliver
    <3> QED
      BY <2>1, <3>3, <3>4, SameRoom
  <2> QED
    BY <1>1, <2>3, <2>4, <2>5, <2>6, <2>7, <2>8, <2>9, <2>10 DEF Broadcast,
         Reserve, Raise
<1>2. ASSUME NEW c \in Consumers, Register(c) \/ Receive(c) \/ Deregister(c) \/ Close(c)
      PROVE  Roomy'
  <2>1. UNCHANGED <<pub, capacity, changes>>
    BY <1>2 DEF Register, Receive, Deregister, Close, PollQueue,
         RegisterWaker, Return, LookWaiting, settingVars
  <2>2. UNCHANGED admitted \/ admitted' = [admitted EXCEPT ![c] = @ - 1]
    BY <1>2 DEF Register, Receive, Deregister, Close, PollQueue,
         RegisterWaker, Return, LookWaiting
  <2>3. capacity \in Int /\ admitted \in [Consumers -> Int]
    BY DEF Shape
  <2>4. CASE UNCHANGED admitted
    BY <2>1, <2>4 DEF Roomy
  <2>5. CASE admitted' = [admitted EXCEPT ![c] = @ - 1]
    BY <2>1, <2>3, <2>5 DEF Roomy
  <2> QED
    BY <2>2, <2>4, <2>5
<1>3. CASE SetCapacity
  BY <1>3 DEF Roomy, SetCapacity
<1>4. CASE CloseReceivers \/ Notify \/ UNCHANGED fanoutVars
  BY <1>4 DEF Roomy, CloseReceivers, Notify, fanoutVars
<1> QED
  BY <1>1, <1>2, <1>3, <1>4 DEF FanoutNext

\* While the capacity is not changed, no race of any number of publishers admits more than it to
\* a consumer, whatever they read of it before they reserve (admit_from).
THEOREM AdmitsWithin == ASSUME Bounds, Capacities \subseteq Nat PROVE FanoutSpec => []WithinCapacity
<1>1. FanoutInit => FanoutInv /\ Roomy
  <2>1. ASSUME FanoutInit PROVE Roomy
    <3>1. \A p \in Publishers : pub[p].step = "idle"
      BY <2>1, IdleShape DEF FanoutInit
    <3>2. changes = 0 /\ capacity \in Nat /\ \A c \in Consumers : admitted[c] = 0
      BY <2>1 DEF FanoutInit
    <3> QED
      BY <3>1, <3>2 DEF Roomy, Walks, Waits
  <2> QED
    BY <2>1, InitHolds
<1>2. FanoutInv /\ [FanoutNext]_fanoutVars => FanoutInv'
  BY StepHolds
<1>3. FanoutInv /\ FanoutInv' /\ Roomy /\ [FanoutNext]_fanoutVars => Roomy'
  BY RoomStep DEF FanoutInv
<1>4. Roomy => WithinCapacity
  BY DEF Roomy, WithinCapacity
<1> QED
  BY <1>1, <1>2, <1>3, <1>4, PTL DEF FanoutSpec
=============================================================================
