----------------------- MODULE StateAssignmentProofs -----------------------
(***************************************************************************)
(* For any number of tasks and of assignments: no operation outlives its   *)
(* assignment past the rebind that superseded it, and whoever holds the    *)
(* barrier then sees all that was done under earlier ones.                 *)
(***************************************************************************)
EXTENDS StateAssignment, FiniteSetTheorems, TLAPS

\* Assignments below the frontier are superseded by a rebind that waited.
Frontier == IF \E u \in Tasks : at[u] = "published" THEN generation - 1 ELSE generation

Counted(p) == {t \in Tasks : at[t] \in Admitted /\ Parity(token[t]) = p}

\* Each count is the number of operations between their admission and its drop.
CountExact == \A p \in Counts : count[p] = Cardinality(Counted(p))

\* The barrier has one holder, which published what it waits for.
Holder ==
    \A t \in Tasks : /\ at[t] \in Holding <=> barrier = t
                     /\ at[t] = "published" => reads[t] = generation /\ generation > 0

\* No view is ahead of the binding, no token either.
Bounded ==
    /\ \A x \in Views : reads[x] <= generation
    /\ \A t \in Tasks : token[t] <= generation

\* Whoever is counted in from now on reads a newer binding than those superseded.
CountsKnow == \A g \in Nat : g < Frontier => reads[Parity(g)] > g

\* So does whoever is counted in already; and what acts was not superseded.
OperationsKnow ==
    \A t \in Tasks :
      /\ at[t] = "admitted" /\ token[t] < Frontier => reads[t] > token[t]
      /\ at[t] = "acting" => token[t] >= Frontier /\ acted[t] = token[t] /\ t \in visible[t]

\* The view the next holder of the barrier takes over.
Chain == IF barrier = "free" THEN "barrier" ELSE barrier

\* An act is in its actor's hands, in the count it was counted out of, or in the
\* barrier's view; acts of superseded assignments are in the latter.
EffectsKnown ==
    \A t \in Tasks : acted[t] # 0 =>
      /\ at[t] = "acting" \/ t \in visible[Parity(acted[t])] \/ t \in visible[Chain]
      /\ acted[t] < Frontier => t \in visible[Chain]

Inv == /\ TypeOK /\ CountExact /\ Holder /\ Bounded /\ CountsKnow /\ OperationsKnow
       /\ EffectsKnown

Starting(t) == TakeToken(t) \/ Admit(t) \/ Capture(t) \/ Exclusive(t) \/ Rebind(t)

-----------------------------------------------------------------------------
\* A generation has one of the two counts.
LEMMA ParityType == \A g : Parity(g) \in Counts
BY DEF Parity, Counts

\* The frontier is a generation once something was published.
LEMMA FrontierType == TypeOK /\ Holder => Frontier \in Nat /\ Frontier <= generation
BY DEF TypeOK, Holder, Frontier

\* Tasks, counts and barrier are different views.
LEMMA ViewsDiffer ==
    /\ \A t \in Tasks : t \notin Counts /\ t # "barrier" /\ t # "free"
    /\ "barrier" \notin Counts
BY StateAssumption DEF StateAssumption, Counts

-----------------------------------------------------------------------------
\* The operations that are counted in are finitely many.
LEMMA CountedFinite == \A p : IsFiniteSet(Counted(p)) /\ Cardinality(Counted(p)) \in Nat
<1> SUFFICES ASSUME NEW p PROVE IsFiniteSet(Counted(p)) /\ Cardinality(Counted(p)) \in Nat
  OBVIOUS
<1>1. Counted(p) \subseteq Tasks
  BY DEF Counted
<1> QED
  BY <1>1, StateAssumption, FS_Subset, FS_CardinalityType DEF StateAssumption

\* The count of an operation that is counted in is not zero.
LEMMA CountPositive ==
    ASSUME TypeOK, CountExact, NEW t \in Tasks, at[t] \in Admitted
    PROVE  count[Parity(token[t])] \in Nat \ {0}
<1> DEFINE p == Parity(token[t])
<1>1. p \in Counts
  BY ParityType
<1>2. t \in Counted(p)
  BY DEF Counted
<1>3. Cardinality(Counted(p)) # 0
  BY <1>2, CountedFinite, FS_EmptySet
<1> QED
  BY <1>1, <1>3 DEF TypeOK, CountExact

\* The variables keep their types; the counts never fall below zero, since what is
\* counted out was counted in (StateAdmission::drop).
LEMMA TypeStep == TypeOK /\ CountExact /\ Next => TypeOK'
<1> SUFFICES ASSUME TypeOK, CountExact, NEW t \in Tasks, Starting(t) \/ Proceed(t)
             PROVE  TypeOK'
  BY DEF Next, Starting
<1> USE ParityType DEF TypeOK, Views, Admitted, Holding, Goto, Later
<1>1. CASE TakeToken(t)
  BY <1>1 DEF TakeToken
<1>2. CASE Admit(t)
  BY <1>2 DEF Admit, Starts, Join
<1>3. CASE Capture(t) \/ Exclusive(t) \/ Rebind(t)
  BY <1>3 DEF Capture, Exclusive, Rebind, Lock, Starts, Learn
<1>4. CASE Look(t)
  BY <1>4 DEF Look, Acts
<1>5. CASE Finish(t)
  <2>1. count[Parity(token[t])] \in Nat \ {0}
    BY <1>5, CountPositive DEF Finish
  <2> QED
    BY <1>5, <2>1 DEF Finish, Learn
<1>6. CASE Check(t)
  BY <1>6 DEF Check, Acts
<1>7. CASE Publish(t)
  BY <1>7 DEF Publish
<1>8. CASE Wait(t)
  BY <1>8 DEF Wait, Join
<1>9. CASE Unlock(t)
  BY <1>9 DEF Unlock, Learn
<1> QED
  BY <1>1, <1>2, <1>3, <1>4, <1>5, <1>6, <1>7, <1>8, <1>9 DEF Starting, Proceed

\* The counts stay exact: admit adds its operation, drop removes it.
LEMMA CountStep == TypeOK /\ CountExact /\ Next => CountExact'
<1> SUFFICES ASSUME TypeOK, CountExact, NEW t \in Tasks, Starting(t) \/ Proceed(t),
                    NEW p \in Counts
             PROVE  count'[p] = Cardinality(Counted(p)')
  BY DEF Next, Starting, CountExact
<1> USE ParityType DEF TypeOK, Admitted, Holding, Goto
<1>0. count[p] = Cardinality(Counted(p)) /\ Cardinality(Counted(p)) \in Nat
  BY CountedFinite DEF CountExact
<1>1. CASE TakeToken(t)
  <2>1. Counted(p)' = Counted(p)
    BY <1>1 DEF TakeToken, Counted
  <2> QED
    BY <1>0, <1>1, <2>1 DEF TakeToken
<1>2. CASE Admit(t)
  <2>1. CASE Parity(token[t]) = p
    <3>1. Counted(p)' = Counted(p) \cup {t} /\ t \notin Counted(p)
      BY <1>2, <2>1 DEF Admit, Starts, Counted
    <3>2. Cardinality(Counted(p)') = Cardinality(Counted(p)) + 1
      BY <3>1, CountedFinite, FS_AddElement
    <3> QED
      BY <1>0, <1>2, <2>1, <3>2 DEF Admit
  <2>2. CASE Parity(token[t]) # p
    <3>1. Counted(p)' = Counted(p)
      BY <1>2, <2>2 DEF Admit, Starts, Counted
    <3> QED
      BY <1>0, <1>2, <2>2, <3>1 DEF Admit
  <2> QED
    BY <2>1, <2>2
<1>3. CASE Capture(t) \/ Exclusive(t) \/ Rebind(t)
  <2>1. Counted(p)' = Counted(p)
    BY <1>3 DEF Capture, Exclusive, Rebind, Lock, Starts, Counted
  <2> QED
    BY <1>0, <1>3, <2>1 DEF Capture, Exclusive, Rebind, Lock
<1>4. CASE Look(t)
  <2>1. Counted(p)' = Counted(p)
    BY <1>4 DEF Look, Counted
  <2> QED
    BY <1>0, <1>4, <2>1 DEF Look
<1>5. CASE Finish(t)
  <2>1. CASE Parity(token[t]) = p
    <3>1. Counted(p)' = Counted(p) \ {t} /\ t \in Counted(p)
      BY <1>5, <2>1 DEF Finish, Counted
    <3>2. Cardinality(Counted(p)') = Cardinality(Counted(p)) - 1
      BY <3>1, CountedFinite, FS_RemoveElement
    <3> QED
      BY <1>0, <1>5, <2>1, <3>2 DEF Finish
  <2>2. CASE Parity(token[t]) # p
    <3>1. Counted(p)' = Counted(p)
      BY <1>5, <2>2 DEF Finish, Counted
    <3> QED
      BY <1>0, <1>5, <2>2, <3>1 DEF Finish
  <2> QED
    BY <2>1, <2>2
<1>6. CASE Check(t) \/ Publish(t) \/ Wait(t) \/ Unlock(t)
  <2>1. Counted(p)' = Counted(p)
    BY <1>6 DEF Check, Publish, Wait, Unlock, Counted
  <2> QED
    BY <1>0, <1>6, <2>1 DEF Check, Publish, Wait, Unlock
<1> QED
  BY <1>1, <1>2, <1>3, <1>4, <1>5, <1>6 DEF Starting, Proceed

\* The barrier keeps one holder (barrier.lock in every operation that takes it).
LEMMA HolderStep == TypeOK /\ Holder /\ Bounded /\ Next => Holder'
<1> SUFFICES ASSUME TypeOK, Holder, Bounded, NEW t \in Tasks, Starting(t) \/ Proceed(t)
             PROVE  Holder'
  BY DEF Next, Starting
<1> USE ParityType, ViewsDiffer DEF TypeOK, Holder, Views, Admitted, Holding, Goto, Later
<1>1. CASE TakeToken(t)
  BY <1>1 DEF TakeToken
<1>2. CASE Admit(t)
  BY <1>2 DEF Admit, Starts, Join
<1>3. CASE Capture(t) \/ Exclusive(t) \/ Rebind(t)
  BY <1>3 DEF Capture, Exclusive, Rebind, Lock, Starts, Learn
<1>4. CASE Look(t)
  BY <1>4 DEF Look
<1>5. CASE Finish(t)
  BY <1>5 DEF Finish, Learn
<1>6. CASE Check(t)
  BY <1>6 DEF Check
<1>7. CASE Publish(t)
  BY <1>7 DEF Publish
<1>8. CASE Wait(t)
  <2>1. Parity(generation - 1) \in Views /\ Parity(generation - 1) \notin Tasks
    BY ParityType, ViewsDiffer DEF Views
  <2>2. reads'[t] = generation
    BY <1>8, <2>1 DEF Wait, Join, Bounded
  <2> QED
    BY <1>8, <2>1, <2>2 DEF Wait, Join
<1>9. CASE Unlock(t)
  BY <1>9 DEF Unlock, Learn
<1> QED
  BY <1>1, <1>2, <1>3, <1>4, <1>5, <1>6, <1>7, <1>8, <1>9 DEF Starting, Proceed

\* Nothing gets ahead of the binding.
LEMMA BoundedStep == TypeOK /\ Bounded /\ Next => Bounded'
<1> SUFFICES ASSUME TypeOK, Bounded, NEW t \in Tasks, Starting(t) \/ Proceed(t)
             PROVE  Bounded'
  BY DEF Next, Starting
<1> USE ParityType DEF TypeOK, Bounded, Views, Later
<1>1. CASE TakeToken(t)
  BY <1>1 DEF TakeToken
<1>2. CASE Admit(t)
  BY <1>2 DEF Admit, Join
<1>3. CASE Capture(t) \/ Exclusive(t) \/ Rebind(t)
  BY <1>3 DEF Capture, Exclusive, Rebind, Lock, Learn
<1>4. CASE Look(t)
  BY <1>4 DEF Look
<1>5. CASE Finish(t)
  BY <1>5 DEF Finish, Learn
<1>6. CASE Check(t)
  BY <1>6 DEF Check
<1>7. CASE Publish(t)
  BY <1>7 DEF Publish
<1>8. CASE Wait(t)
  BY <1>8 DEF Wait, Join
<1>9. CASE Unlock(t)
  BY <1>9 DEF Unlock, Learn
<1> QED
  BY <1>1, <1>2, <1>3, <1>4, <1>5, <1>6, <1>7, <1>8, <1>9 DEF Starting, Proceed

-----------------------------------------------------------------------------
\* The wait that finds nobody moves the frontier, and nothing else does (rebind).
LEMMA FrontierStep ==
    ASSUME TypeOK, Holder, NEW t \in Tasks, Starting(t) \/ Proceed(t)
    PROVE  \/ Frontier' = Frontier
           \/ /\ Wait(t) /\ count[Parity(generation - 1)] = 0
              /\ Frontier = generation - 1 /\ Frontier' = generation
<1> USE DEF TypeOK, Holder, Holding, Goto, Frontier
<1>1. CASE TakeToken(t)
  BY <1>1 DEF TakeToken
<1>2. CASE Admit(t)
  BY <1>2 DEF Admit, Starts
<1>3. CASE Capture(t) \/ Exclusive(t) \/ Rebind(t)
  BY <1>3 DEF Capture, Exclusive, Rebind, Lock, Starts
<1>4. CASE Look(t)
  BY <1>4 DEF Look
<1>5. CASE Finish(t)
  BY <1>5 DEF Finish
<1>6. CASE Check(t)
  BY <1>6 DEF Check
<1>7. CASE Publish(t)
  <2>1. \A u \in Tasks : at[u] # "published"
    BY <1>7 DEF Publish
  <2>2. at'[t] = "published"
    BY <1>7 DEF Publish
  <2> QED
    BY <1>7, <2>1, <2>2 DEF Publish
<1>8. CASE Wait(t)
  <2>1. CASE count[Parity(generation - 1)] = 0
    <3>1. \A u \in Tasks : at'[u] # "published"
      BY <1>8, <2>1 DEF Wait
    <3> QED
      BY <1>8, <2>1, <3>1 DEF Wait
  <2>2. CASE count[Parity(generation - 1)] # 0
    BY <1>8, <2>2 DEF Wait
  <2> QED
    BY <2>1, <2>2
<1>9. CASE Unlock(t)
  BY <1>9 DEF Unlock
<1> QED
  BY <1>1, <1>2, <1>3, <1>4, <1>5, <1>6, <1>7, <1>8, <1>9 DEF Starting, Proceed

\* The views of the counts only grow.
LEMMA CountsGrow ==
    ASSUME TypeOK, NEW t \in Tasks, Starting(t) \/ Proceed(t), NEW p \in Counts
    PROVE  reads'[p] >= reads[p]
<1> USE ParityType, ViewsDiffer DEF TypeOK, Views, Later
<1>1. CASE TakeToken(t)
  BY <1>1 DEF TakeToken
<1>2. CASE Admit(t)
  BY <1>2 DEF Admit, Join
<1>3. CASE Capture(t) \/ Exclusive(t) \/ Rebind(t)
  BY <1>3 DEF Capture, Exclusive, Rebind, Lock, Learn
<1>4. CASE Look(t) \/ Check(t) \/ Publish(t)
  BY <1>4 DEF Look, Check, Publish
<1>5. CASE Finish(t)
  BY <1>5 DEF Finish, Learn
<1>6. CASE Wait(t)
  BY <1>6 DEF Wait, Join
<1>7. CASE Unlock(t)
  BY <1>7 DEF Unlock, Learn
<1> QED
  BY <1>1, <1>2, <1>3, <1>4, <1>5, <1>6, <1>7 DEF Starting, Proceed

\* A rebind's read of the count leaves the binding it published there
\* (wait_until_finished).
LEMMA CountsKnowStep ==
    TypeOK /\ TypeOK' /\ Holder /\ Bounded /\ CountsKnow /\ Next => CountsKnow'
<1> SUFFICES ASSUME TypeOK, TypeOK', Holder, Bounded, CountsKnow, NEW t \in Tasks,
                    Starting(t) \/ Proceed(t), NEW g \in Nat, g < Frontier'
             PROVE  reads'[Parity(g)] > g
  BY DEF Next, Starting, CountsKnow
<1>1. reads'[Parity(g)] \in Nat
  BY ParityType DEF TypeOK, Views
<1>2. reads'[Parity(g)] >= reads[Parity(g)] /\ reads[Parity(g)] \in Nat
  BY CountsGrow, ParityType DEF TypeOK, Views
<1>3. CASE Frontier' = Frontier
  BY <1>1, <1>2, <1>3, FrontierType DEF CountsKnow
<1>4. CASE /\ Wait(t) /\ Frontier = generation - 1 /\ Frontier' = generation
  <2>1. CASE g < Frontier
    BY <1>1, <1>2, <2>1, FrontierType DEF CountsKnow
  <2>2. CASE g = generation - 1
    <3>1. reads[t] = generation /\ at[t] = "published"
      BY <1>4 DEF Wait, Holder
    <3>2. Parity(g) \in Views /\ Parity(g) \notin Tasks /\ reads[Parity(g)] <= generation
      BY ParityType, ViewsDiffer DEF Views, Bounded
    <3>3. reads'[Parity(g)] = generation
      BY <1>4, <2>2, <3>1, <3>2 DEF Wait, Join, Later, TypeOK
    <3> QED
      BY <2>2, <3>3 DEF TypeOK
  <2> QED
    BY <1>4, <2>1, <2>2 DEF TypeOK
<1> QED
  BY <1>3, <1>4, FrontierStep

\* An operation that acts was not superseded when it looked, and a wait that ends
\* found it gone (authorize, wait_until_finished).
LEMMA OperationsKnowStep == Inv /\ Next => OperationsKnow'
<1> SUFFICES ASSUME Inv, NEW t \in Tasks, Starting(t) \/ Proceed(t), NEW u \in Tasks
             PROVE  /\ at'[u] = "admitted" /\ token'[u] < Frontier' => reads'[u] > token'[u]
                    /\ at'[u] = "acting"
                         => token'[u] >= Frontier' /\ acted'[u] = token'[u] /\ u \in visible'[u]
  BY DEF Next, Starting, OperationsKnow
<1> USE DEF Inv
<1>0. Frontier \in Nat /\ Frontier <= generation
  BY FrontierType
<1>1. CASE /\ Wait(t) /\ count[Parity(generation - 1)] = 0
           /\ Frontier = generation - 1 /\ Frontier' = generation
  <2>1. u # t => at[u] = at'[u]
    BY <1>1 DEF Wait, Goto, TypeOK
  <2>2. at'[t] = "bound"
    BY <1>1 DEF Wait, Goto, TypeOK
  <2>3. at[u] \in Admitted => token[u] # generation - 1
    BY <1>1, CountPositive
  <2>4. token'[u] = token[u] /\ acted'[u] = acted[u] /\ token[u] \in Nat
    BY <1>1 DEF Wait, TypeOK
  <2>5. u # t => reads'[u] = reads[u] /\ visible'[u] = visible[u]
    BY <1>1, ParityType, ViewsDiffer DEF Wait, Join, TypeOK, Views
  <2> QED
    BY <1>1, <2>1, <2>2, <2>3, <2>4, <2>5 DEF OperationsKnow, Admitted, TypeOK
<1>2. CASE Frontier' = Frontier
  <2> USE <1>0, <1>2, ParityType, ViewsDiffer
      DEF TypeOK, OperationsKnow, Views, Goto, Later
  <2>1. CASE TakeToken(t)
    BY <2>1 DEF TakeToken
  <2>2. CASE Admit(t)
    <3>1. CASE u = t
      <4>1. token[t] < Frontier => reads[Parity(token[t])] > token[t]
        BY DEF CountsKnow
      <4>2. reads'[t] = Later(reads[t], reads[Parity(token[t])])
        BY <2>2 DEF Admit, Join
      <4> QED
        BY <2>2, <3>1, <4>1, <4>2 DEF Admit
    <3>2. CASE u # t
      BY <2>2, <3>2 DEF Admit, Join
    <3> QED
      BY <3>1, <3>2
  <2>3. CASE Capture(t) \/ Exclusive(t) \/ Rebind(t)
    BY <2>3 DEF Capture, Exclusive, Rebind, Lock, Learn
  <2>4. CASE Look(t)
    BY <2>4 DEF Look, Acts
  <2>5. CASE Finish(t)
    BY <2>5 DEF Finish, Learn
  <2>6. CASE Check(t)
    BY <2>6 DEF Check, Acts
  <2>7. CASE Publish(t)
    BY <2>7 DEF Publish
  <2>8. CASE Wait(t)
    BY <2>8 DEF Wait, Join
  <2>9. CASE Unlock(t)
    BY <2>9 DEF Unlock, Learn
  <2> QED
    BY <2>1, <2>2, <2>3, <2>4, <2>5, <2>6, <2>7, <2>8, <2>9 DEF Starting, Proceed
<1> QED
  BY <1>1, <1>2, FrontierStep

-----------------------------------------------------------------------------
\* What was done travels with the barrier: a wait takes over what was counted out,
\* an unlock hands it on (wait_until_finished, StateAdmission::drop).
LEMMA EffectsKnownStep == Inv /\ Next => EffectsKnown'
<1> SUFFICES ASSUME Inv, NEW t \in Tasks, Starting(t) \/ Proceed(t),
                    NEW u \in Tasks, acted'[u] # 0
             PROVE  /\ \/ at'[u] = "acting" \/ u \in visible'[Parity(acted'[u])]
                       \/ u \in visible'[Chain']
                    /\ acted'[u] < Frontier' => u \in visible'[Chain']
  BY DEF Next, Starting, EffectsKnown
<1> USE DEF Inv
<1>0. Frontier \in Nat /\ Frontier <= generation
  BY FrontierType
<1>1. CASE /\ Wait(t) /\ count[Parity(generation - 1)] = 0
           /\ Frontier = generation - 1 /\ Frontier' = generation
  <2>1. acted'[u] = acted[u] /\ acted[u] \in Nat /\ barrier' = barrier /\ barrier = t
    BY <1>1 DEF Wait, TypeOK, Holder, Holding
  <2>2. Chain = t /\ Chain' = t
    BY <2>1, ViewsDiffer DEF Chain
  <2>3. visible'[t] = visible[t] \cup visible[Parity(generation - 1)]
    BY <1>1, ParityType, ViewsDiffer DEF Wait, Join, TypeOK, Views
  <2>4. \A p \in Counts : visible[p] \subseteq visible'[p]
    BY <1>1, ParityType, ViewsDiffer DEF Wait, Join, TypeOK, Views
  <2>5. at[u] = "acting" => token[u] # generation - 1 /\ acted[u] = token[u] /\ at'[u] = "acting"
    BY <1>1, CountPositive DEF Admitted, OperationsKnow, Wait, Goto, TypeOK
  <2>6. acted[u] = generation - 1 => u \in visible'[t]
    BY <1>1, <2>1, <2>2, <2>3, <2>5 DEF EffectsKnown
  <2>7. acted[u] < generation - 1 => u \in visible'[t]
    BY <1>1, <2>1, <2>2, <2>3 DEF EffectsKnown
  <2>8. acted[u] < Frontier' => u \in visible'[t]
    BY <1>1, <2>1, <2>6, <2>7 DEF TypeOK
  <2> QED
    BY <2>1, <2>2, <2>3, <2>4, <2>5, <2>8, ParityType DEF EffectsKnown
<1>2. CASE Frontier' = Frontier
  <2>1. CASE TakeToken(t)
    BY <1>2, <2>1 DEF TakeToken, EffectsKnown, Chain
  <2>2. CASE Admit(t)
    <3>1. \A x \in Views : visible[x] \subseteq visible'[x]
      BY <2>2, ParityType DEF Admit, Join, TypeOK, Views
    <3>2. Chain' = Chain /\ Chain \in Views /\ acted' = acted /\ at'[t] = "admitted"
      BY <2>2 DEF Admit, Chain, TypeOK, Views, Goto
    <3>3. at[u] = "acting" => at'[u] = "acting"
      BY <2>2 DEF Admit, Starts, Goto, TypeOK
    <3>4. Parity(acted[u]) \in Views
      BY ParityType DEF Views
    <3> QED
      BY <1>2, <3>1, <3>2, <3>3, <3>4 DEF EffectsKnown
  <2>3. CASE Capture(t) \/ Exclusive(t) \/ Rebind(t)
    <3>1. \A x \in Views : visible[x] \subseteq visible'[x]
      BY <2>3 DEF Capture, Exclusive, Rebind, Lock, Learn, TypeOK, Views
    <3>2. Chain = "barrier" /\ Chain' = t /\ visible["barrier"] \subseteq visible'[t]
      BY <2>3, ViewsDiffer DEF Capture, Exclusive, Rebind, Lock, Learn, TypeOK, Views, Chain
    <3>3. acted' = acted /\ (at[u] = "acting" => at'[u] = "acting")
      BY <2>3 DEF Capture, Exclusive, Rebind, Lock, Starts, Goto, TypeOK
    <3>4. Parity(acted[u]) \in Views
      BY ParityType DEF Views
    <3> QED
      BY <1>2, <3>1, <3>2, <3>3, <3>4 DEF EffectsKnown
  <2>4. CASE Look(t)
    <3>1. Chain' = Chain /\ Chain \in Views
      BY <2>4 DEF Look, Chain, TypeOK, Views
    <3>2. CASE UNCHANGED <<acted, visible>>
      <4>1. at[u] = "acting" => at'[u] = "acting"
        BY <2>4 DEF Look, Goto, TypeOK
      <4> QED
        BY <1>2, <3>1, <3>2, <4>1 DEF EffectsKnown
    <3>3. CASE at'[t] = "acting" /\ Acts(t)
      <4>1. CASE u = t
        <5>1. acted'[t] = token[t] /\ token'[t] = token[t] /\ token[t] \in Nat
          BY <2>4, <3>3 DEF Look, Acts, TypeOK
        <5>2. OperationsKnow'
          BY OperationsKnowStep DEF Next, Starting
        <5>3. token'[t] >= Frontier'
          BY <3>3, <5>2 DEF OperationsKnow
        <5> QED
          BY <1>0, <1>2, <3>3, <4>1, <5>1, <5>3
      <4>2. CASE u # t
        <5>1. acted'[u] = acted[u] /\ at'[u] = at[u]
          BY <2>4, <3>3, <4>2 DEF Look, Acts, Goto, TypeOK
        <5>2. \A x \in Views : u \in visible[x] => u \in visible'[x]
          BY <3>3, <4>2 DEF Acts
        <5>3. Parity(acted[u]) \in Views
          BY ParityType DEF Views
        <5> QED
          BY <1>2, <3>1, <5>1, <5>2, <5>3 DEF EffectsKnown
      <4> QED
        BY <4>1, <4>2
    <3> QED
      BY <2>4, <3>2, <3>3 DEF Look, Goto, TypeOK
  <2>5. CASE Finish(t)
    <3>1. \A x \in Views : visible[x] \subseteq visible'[x]
      BY <2>5, ParityType DEF Finish, Learn, TypeOK, Views
    <3>2. Chain' = Chain /\ Chain \in Views /\ acted' = acted
      BY <2>5 DEF Finish, Chain, TypeOK, Views
    <3>3. Parity(acted[u]) \in Views
      BY ParityType DEF Views
    <3>4. at[u] = "acting" => at'[u] = "acting" \/ u \in visible'[Parity(acted[u])]
      <4>1. CASE u = t /\ at[t] = "acting"
        <5>1. acted[t] = token[t] /\ t \in visible[t]
          BY <4>1 DEF OperationsKnow
        <5>2. visible[t] \subseteq visible'[Parity(token[t])]
          BY <2>5, ParityType DEF Finish, Learn, TypeOK, Views
        <5> QED
          BY <4>1, <5>1, <5>2
      <4>2. CASE u # t
        BY <2>5, <4>2 DEF Finish, Goto, TypeOK
      <4> QED
        BY <4>1, <4>2
    <3> QED
      BY <1>2, <3>1, <3>2, <3>3, <3>4 DEF EffectsKnown
  <2>6. CASE Check(t)
    <3>1. Chain' = t /\ Chain = t
      BY <2>6, ViewsDiffer DEF Check, Chain, Holder, Holding
    <3>2. CASE UNCHANGED <<acted, visible>>
      <4>1. at[u] = "acting" => at'[u] = "acting"
        BY <2>6 DEF Check, Goto, TypeOK
      <4> QED
        BY <1>2, <3>1, <3>2, <4>1 DEF EffectsKnown
    <3>3. CASE Acts(t)
      <4>1. CASE u = t
        <5>1. t \in visible'[t]
          BY <3>3 DEF Acts, Views
        <5> QED
          BY <3>1, <4>1, <5>1
      <4>2. CASE u # t
        <5>1. acted'[u] = acted[u] /\ at'[u] = at[u]
          BY <2>6, <3>3, <4>2 DEF Check, Acts, Goto, TypeOK
        <5>2. \A x \in Views : u \in visible[x] => u \in visible'[x]
          BY <3>3, <4>2 DEF Acts
        <5>3. Parity(acted[u]) \in Views /\ t \in Views
          BY ParityType DEF Views
        <5> QED
          BY <1>2, <3>1, <5>1, <5>2, <5>3 DEF EffectsKnown
      <4> QED
        BY <4>1, <4>2
    <3> QED
      BY <2>6, <3>2, <3>3 DEF Check
  <2>7. CASE Publish(t)
    <3>1. Chain' = Chain /\ (at[u] = "acting" => at'[u] = "acting")
      BY <2>7 DEF Publish, Chain, Goto, TypeOK
    <3> QED
      BY <1>2, <2>7, <3>1 DEF Publish, EffectsKnown
  <2>8. CASE Wait(t)
    <3>1. \A x \in Views : visible[x] \subseteq visible'[x]
      BY <2>8, ParityType DEF Wait, Join, TypeOK, Views
    <3>2. Chain' = Chain /\ Chain \in Views /\ acted' = acted
      BY <2>8 DEF Wait, Chain, TypeOK, Views
    <3>3. Parity(acted[u]) \in Views /\ (at[u] = "acting" => at'[u] = "acting")
      BY <2>8, ParityType DEF Wait, Goto, TypeOK, Views
    <3> QED
      BY <1>2, <3>1, <3>2, <3>3 DEF EffectsKnown
  <2>9. CASE Unlock(t)
    <3>1. \A x \in Views : visible[x] \subseteq visible'[x]
      BY <2>9 DEF Unlock, Learn, TypeOK, Views
    <3>2. Chain = t /\ Chain' = "barrier" /\ visible[t] \subseteq visible'["barrier"]
      BY <2>9, ViewsDiffer DEF Unlock, Learn, Chain, Holder, Holding, TypeOK, Views
    <3>3. acted' = acted /\ Parity(acted[u]) \in Views /\ (at[u] = "acting" => at'[u] = "acting")
      BY <2>9, ParityType DEF Unlock, Goto, TypeOK, Views
    <3> QED
      BY <1>2, <3>1, <3>2, <3>3 DEF EffectsKnown
  <2> QED
    BY <2>1, <2>2, <2>3, <2>4, <2>5, <2>6, <2>7, <2>8, <2>9 DEF Starting, Proceed
<1> QED
  BY <1>1, <1>2, FrontierStep

-----------------------------------------------------------------------------
\* The authority starts unassigned, with nothing counted, held or done.
LEMMA InitInv == Init => Inv
<1> SUFFICES ASSUME Init PROVE Inv
  OBVIOUS
<1>1. TypeOK
  BY DEF Init, TypeOK, Admitted, Holding, Counts, Views
<1>2. CountExact
  <2>1. \A p \in Counts : Counted(p) = {}
    BY DEF Init, Counted, Admitted
  <2> QED
    BY <2>1, FS_EmptySet DEF Init, CountExact
<1>3. Holder
  BY ViewsDiffer DEF Init, Holder, Holding
<1>4. Bounded
  BY DEF Init, Bounded
<1>5. CountsKnow /\ OperationsKnow
  BY DEF Init, CountsKnow, OperationsKnow, Frontier
<1>6. EffectsKnown
  BY DEF Init, EffectsKnown
<1> QED
  BY <1>1, <1>2, <1>3, <1>4, <1>5, <1>6 DEF Inv

\* Inv is an invariant of the authority.
THEOREM Invariance == Spec => []Inv
<1>1. Inv /\ [Next]_vars => Inv'
  <2> SUFFICES ASSUME Inv, [Next]_vars PROVE Inv'
    OBVIOUS
  <2>1. CASE Next
    <3>1. TypeOK' /\ CountExact' /\ Holder' /\ Bounded'
      BY <2>1, TypeStep, CountStep, HolderStep, BoundedStep DEF Inv
    <3>2. CountsKnow' /\ OperationsKnow' /\ EffectsKnown'
      BY <2>1, <3>1, CountsKnowStep, OperationsKnowStep, EffectsKnownStep DEF Inv
    <3> QED
      BY <3>1, <3>2 DEF Inv
  <2>2. CASE UNCHANGED vars
    <3>1. Frontier' = Frontier /\ Chain' = Chain /\ \A p : Counted(p)' = Counted(p)
      BY <2>2 DEF vars, Frontier, Chain, Counted
    <3>2. TypeOK' /\ Holder' /\ Bounded'
      BY <2>2 DEF vars, Inv, TypeOK, Holder, Bounded
    <3>3. CountExact'
      BY <2>2, <3>1 DEF vars, Inv, CountExact
    <3>4. CountsKnow' /\ OperationsKnow' /\ EffectsKnown'
      BY <2>2, <3>1 DEF vars, Inv, CountsKnow, OperationsKnow, EffectsKnown
    <3> QED
      BY <3>2, <3>3, <3>4 DEF Inv
  <2> QED
    BY <2>1, <2>2
<1> QED
  BY <1>1, InitInv, PTL DEF Spec

\* No operation outlives its assignment past the rebind that superseded it, however
\* stale the binding it may read (rebind, authorize).
THEOREM Fenced == Spec => []FencedOut
<1>1. Inv => FencedOut
  BY DEF Inv, FencedOut, OperationsKnow, Bounded, TypeOK, Frontier
<1> QED
  BY <1>1, Invariance, PTL

\* Whoever holds the barrier sees what was done under earlier assignments
\* (wait_until_finished, StateAdmission::drop).
THEOREM HandedOver == Spec => []EffectsHandedOver
<1>1. Inv => EffectsHandedOver
  <2> SUFFICES ASSUME Inv, NEW t \in Tasks, at[t] \in {"bound", "exclusive", "capturing"},
                      NEW u \in Tasks, acted[u] \in 1..(generation - 1)
               PROVE  u \in visible[t]
    BY DEF EffectsHandedOver
  <2>1. barrier = t /\ Chain = t
    BY ViewsDiffer DEF Inv, Holder, Holding, Chain
  <2>2. Frontier = generation
    BY <2>1 DEF Inv, Holder, Holding, Frontier
  <2> QED
    BY <2>1, <2>2 DEF Inv, TypeOK, EffectsKnown
<1> QED
  BY <1>1, Invariance, PTL
=============================================================================
