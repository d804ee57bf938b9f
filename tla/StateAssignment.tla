-------------------------- MODULE StateAssignment --------------------------
(***************************************************************************)
(* The assignment authority of one runtime state                           *)
(* (src/src/runtime/state_store.rs).  An operation acts under the          *)
(* assignment its token names.  Per-message operations take no lock: they  *)
(* count themselves in and compare the binding.  Exclusive operations,     *)
(* captures and rebinds hold the barrier.                                  *)
(*                                                                         *)
(* Orderings of the code's atomics are part of the model.  Every task, the *)
(* two admission counts and the barrier have a view: `reads` is the oldest *)
(* binding that may still be read with it, `visible` the tasks whose last  *)
(* act it includes.  A read-modify-write joins the views of the task and   *)
(* the count, a release hands on the task's view, the barrier is a mutex.  *)
(* What an acquiring load of the binding adds to `visible` is left out:    *)
(* a task may know more than the model says, never less.  The roles that   *)
(* are published with a binding, and the refusal of a capability a token   *)
(* does not carry, which changes nothing, are left out.                    *)
(***************************************************************************)
EXTENDS Integers, FiniteSets

CONSTANTS Tasks,           \* tasks that use or rebind the state
          MaxGeneration,   \* assignments that are explored
          MaxOperations    \* operations of each task that are explored

ASSUME StateAssumption ==
    /\ IsFiniteSet(Tasks) /\ MaxGeneration \in Nat /\ MaxOperations \in Nat
    /\ Tasks \cap {"even", "odd", "barrier", "free"} = {}

VARIABLES
    generation, \* of the newest binding
    barrier,    \* the task that holds the barrier, or "free"
    count,      \* admissions of even and of odd generations
    token,      \* task -> generation of the binding its handle carries
    at,         \* task -> where it is
    acted,      \* task -> generation under which it acted last, 0 when it never did
    reads,      \* view -> the oldest generation the binding may still be read as
    visible,    \* view -> tasks whose last act it includes
    operations  \* task -> operations so far

vars == <<generation, barrier, count, token, at, acted, reads, visible, operations>>

Counts == {"even", "odd"}
Views == Tasks \cup Counts \cup {"barrier"}
\* A rebind is in "rebinding", "published" and "bound"; an exclusive operation in
\* "checking", "exclusive" and "denied".
Admitted == {"admitted", "acting", "refused"}
Holding == {"rebinding", "published", "bound", "checking", "exclusive", "denied", "capturing"}

TypeOK ==
    /\ generation \in Nat
    /\ barrier \in Tasks \cup {"free"}
    /\ count \in [Counts -> Nat]
    /\ token \in [Tasks -> Nat]
    /\ at \in [Tasks -> Admitted \cup Holding \cup {"idle"}]
    /\ acted \in [Tasks -> Nat]
    /\ reads \in [Views -> Nat]
    /\ visible \in [Views -> SUBSET Tasks]
    /\ operations \in [Tasks -> Nat]

\* StateAssignmentBinding::UNASSIGNED grants nothing but reads.
Init ==
    /\ generation = 0
    /\ barrier = "free"
    /\ count = [p \in Counts |-> 0]
    /\ token = [t \in Tasks |-> 0]
    /\ at = [t \in Tasks |-> "idle"]
    /\ acted = [t \in Tasks |-> 0]
    /\ reads = [x \in Views |-> 0]
    /\ visible = [x \in Views |-> {}]
    /\ operations = [t \in Tasks |-> 0]

(***************************************************************************)
(* Views.                                                                  *)
(***************************************************************************)
Later(a, b) == IF a < b THEN b ELSE a

\* x takes in the view of y, and y that of x when both are joined.
Learn(x, y) ==
    /\ reads' = [reads EXCEPT ![x] = Later(reads[x], reads[y])]
    /\ visible' = [visible EXCEPT ![x] = @ \cup visible[y]]
Join(x, y) ==
    /\ reads' = [reads EXCEPT ![x] = Later(reads[x], reads[y]), ![y] = Later(reads[x], reads[y])]
    /\ visible' = [visible EXCEPT ![x] = visible[x] \cup visible[y],
                                  ![y] = visible[x] \cup visible[y]]

\* t changes the state: only its own view includes that.
Acts(t) ==
    /\ acted' = [acted EXCEPT ![t] = token[t]]
    /\ visible' = [x \in Views |-> IF x = t THEN visible[x] \cup {t} ELSE visible[x] \ {t}]

Goto(t, step) == at' = [at EXCEPT ![t] = step]
Parity(g) == IF g % 2 = 0 THEN "even" ELSE "odd"

(***************************************************************************)
(* Tokens: token_for of the binding a rebind returned or a task loaded.    *)
(***************************************************************************)
TakeToken(t) ==
    /\ at[t] = "idle"
    /\ \E g \in reads[t]..generation :
         /\ g # 0
         /\ token' = [token EXCEPT ![t] = g]
         /\ reads' = [reads EXCEPT ![t] = g]
    /\ UNCHANGED <<generation, barrier, count, at, acted, visible, operations>>

Starts(t) ==
    /\ at[t] = "idle" /\ operations[t] < MaxOperations
    /\ operations' = [operations EXCEPT ![t] = @ + 1]

(***************************************************************************)
(* authorize: a per-message operation.                                     *)
(***************************************************************************)
\* StateAdmissions::admit.
Admit(t) ==
    /\ Starts(t) /\ token[t] # 0
    /\ count' = [count EXCEPT ![Parity(token[t])] = @ + 1]
    /\ Join(t, Parity(token[t]))
    /\ Goto(t, "admitted")
    /\ UNCHANGED <<generation, barrier, token, acted>>

\* The binding is loaded after the count was raised; equal bindings run the action.
Look(t) ==
    /\ at[t] = "admitted"
    /\ \E g \in reads[t]..generation :
         /\ reads' = [reads EXCEPT ![t] = g]
         /\ IF g = token[t]
            THEN Goto(t, "acting") /\ Acts(t)
            ELSE Goto(t, "refused") /\ UNCHANGED <<acted, visible>>
    /\ UNCHANGED <<generation, barrier, count, token, operations>>

\* The fault of counting out without releasing what was done.
FinishRelaxed(t) ==
    /\ at[t] \in {"acting", "refused"}
    /\ count' = [count EXCEPT ![Parity(token[t])] = @ - 1]
    /\ Goto(t, "idle")
    /\ UNCHANGED <<generation, barrier, token, acted, reads, visible, operations>>

\* StateAdmission::drop, also of an operation that panicked.
Finish(t) ==
    /\ at[t] \in {"acting", "refused"}
    /\ count' = [count EXCEPT ![Parity(token[t])] = @ - 1]
    /\ Learn(Parity(token[t]), t)
    /\ Goto(t, "idle")
    /\ UNCHANGED <<generation, barrier, token, acted, operations>>

(***************************************************************************)
(* The barrier.                                                            *)
(***************************************************************************)
Lock(t, step) ==
    /\ Starts(t)
    /\ barrier = "free" /\ barrier' = t
    /\ Learn(t, "barrier")
    /\ Goto(t, step)
    /\ UNCHANGED <<generation, count, token, acted>>

Unlock(t) ==
    /\ at[t] \in {"bound", "exclusive", "denied", "capturing"}
    /\ barrier' = "free"
    /\ Learn("barrier", t)
    /\ Goto(t, "idle")
    /\ UNCHANGED <<generation, count, token, acted, operations>>

\* serialize and serialize_with: a capture reads the state and its fence.
Capture(t) == Lock(t, "capturing")

(***************************************************************************)
(* authorize_exclusive.                                                    *)
(***************************************************************************)
Exclusive(t) == token[t] # 0 /\ Lock(t, "checking")

Check(t) ==
    /\ at[t] = "checking"
    /\ \E g \in reads[t]..generation :
         /\ reads' = [reads EXCEPT ![t] = g]
         /\ IF g = token[t]
            THEN Goto(t, "exclusive") /\ Acts(t)
            ELSE Goto(t, "denied") /\ UNCHANGED <<acted, visible>>
    /\ UNCHANGED <<generation, barrier, count, token, operations>>

(***************************************************************************)
(* rebind.                                                                 *)
(***************************************************************************)
Rebind(t) == generation < MaxGeneration /\ Lock(t, "rebinding")

\* The successor of the current binding is stored.
Publish(t) ==
    /\ at[t] = "rebinding"
    /\ generation' = generation + 1
    /\ reads' = [reads EXCEPT ![t] = generation + 1]
    /\ Goto(t, "published")
    /\ UNCHANGED <<barrier, count, token, acted, visible, operations>>

\* The fault of reading the count with a plain load.
WaitLoads(t) ==
    /\ at[t] = "published"
    /\ Learn(t, Parity(generation - 1))
    /\ Goto(t, IF count[Parity(generation - 1)] = 0 THEN "bound" ELSE "published")
    /\ UNCHANGED <<generation, barrier, count, token, acted, operations>>

\* wait_until_finished, of the assignment superseded; each turn of its loop.
Wait(t) ==
    /\ at[t] = "published"
    /\ Join(t, Parity(generation - 1))
    /\ Goto(t, IF count[Parity(generation - 1)] = 0 THEN "bound" ELSE "published")
    /\ UNCHANGED <<generation, barrier, count, token, acted, operations>>

Proceed(t) == Look(t) \/ Finish(t) \/ Check(t) \/ Publish(t) \/ Wait(t) \/ Unlock(t)
Next ==
    \E t \in Tasks :
      TakeToken(t) \/ Admit(t) \/ Capture(t) \/ Exclusive(t) \/ Rebind(t) \/ Proceed(t)

Spec == Init /\ [][Next]_vars

-----------------------------------------------------------------------------
\* Once a rebind is done no operation of an earlier assignment runs: the caller of
\* rebind, and whoever holds the barrier after it, has the state for the assignment
\* in force.  During the wait only those of the one superseded run (rebind,
\* authorize, authorize_exclusive).
FencedOut ==
    \A t \in Tasks : at[t] = "acting" =>
      \/ token[t] = generation
      \/ token[t] = generation - 1 /\ \E u \in Tasks : at[u] = "published"

\* What was done under earlier assignments happened before: whoever holds the
\* barrier, after the wait of a rebind, sees the last act of every one of them
\* (wait_until_finished, StateAdmission::drop).
EffectsHandedOver ==
    \A t \in Tasks : at[t] \in {"bound", "exclusive", "capturing"} =>
      \A u \in Tasks : acted[u] \in 1..(generation - 1) => u \in visible[t]
=============================================================================
