------------------------- MODULE RelayDispatchGate -------------------------
(***************************************************************************)
(* The dispatch gate of a relay (src/src/runtime/relay_channel.rs).  An    *)
(* operation that changes the relay engages the gate, fences the           *)
(* dispatches that are under way, and holds the gate closed as a lease.  A *)
(* dispatch takes no lock: it counts itself in and then looks at the flag. *)
(*                                                                         *)
(* Orderings of the code's atomics are part of the model.  The flag is     *)
(* stored under the state mutex; what a dispatch may still read of it is a *)
(* set, `readable`.  A store adds to every set.  The read-modify-writes of *)
(* the count (AcqRel) are totally ordered, and each hands on what was      *)
(* known to the ones before it: the sets are intersected.  The mutex gives *)
(* its holder the newest value.                                            *)
(***************************************************************************)
EXTENDS Integers, FiniteSets

CONSTANTS Dispatches,      \* tasks that dispatch into the relay
          Fences,          \* operations that engage the gate
          MaxEngagements   \* engagements of each operation that are explored

ASSUME GateAssumption ==
    /\ IsFiniteSet(Dispatches) /\ MaxEngagements \in Nat
    /\ Dispatches \cap Fences = {} /\ "count" \notin Dispatches \cup Fences

VARIABLES
    flag,       \* the newest value of the flag `closed`
    readable,   \* values of the flag each dispatch, and a reader of the count, may read
    count,      \* in_flight_dispatches
    engagement, \* fence -> its entry in the gate's state
    passed,     \* fences whose engagement's deadline has passed
    dispatch,   \* dispatch -> where it is
    fence,      \* fence -> where it is
    woken,      \* waiters that were notified since they enabled their wait
    engaged     \* fence -> engagements so far

vars == <<flag, readable, count, engagement, passed, dispatch, fence, woken, engaged>>
gateVars == <<flag, engagement, passed>>
fenceVars == <<fence, engaged>>

Flags == {"open", "closed"}
DispatchSteps == {"idle", "entered", "inside", "rejected", "insideLast", "rejectedLast",
                  "blocked", "enabled", "asleep", "retry"}
FenceSteps == {"idle", "engaged", "enabled", "asleep", "expired", "leased", "failed"}

TypeOK ==
    /\ flag \in Flags
    /\ readable \in [Dispatches \cup {"count"} -> SUBSET Flags]
    /\ count \in Nat
    /\ engagement \in [Fences -> {"none", "fencing", "leased"}]
    /\ passed \subseteq Fences
    /\ dispatch \in [Dispatches -> DispatchSteps]
    /\ fence \in [Fences -> FenceSteps]
    /\ woken \subseteq Dispatches \cup Fences
    /\ engaged \in [Fences -> Nat]

Init ==
    /\ flag = "open"
    /\ readable = [x \in Dispatches \cup {"count"} |-> {"open"}]
    /\ count = 0
    /\ engagement = [f \in Fences |-> "none"]
    /\ passed = {}
    /\ dispatch = [d \in Dispatches |-> "idle"]
    /\ fence = [f \in Fences |-> "idle"]
    /\ woken = {}
    /\ engaged = [f \in Fences |-> 0]

(***************************************************************************)
(* The atomics.                                                            *)
(***************************************************************************)
\* A store of the flag: those who read may read it from now on.
Store(value) ==
    /\ flag' = value
    /\ readable' = [x \in Dispatches \cup {"count"} |-> readable[x] \cup {value}]

\* A read-modify-write of the count by d.
Known(d) == readable[d] \cap readable["count"]
Synchronized(d) == [readable EXCEPT ![d] = Known(d), !["count"] = Known(d)]

\* d held the state mutex.
Refreshed(d) == [readable EXCEPT ![d] = {flag}]

\* Notify::notify_waiters on `changed`, and on `drained`.
Everyone == Dispatches \cup Fences
WakeChanged == woken' = Everyone
WakeDrained == woken' = woken \cup Fences

(***************************************************************************)
(* A dispatch.                                                             *)
(***************************************************************************)
Goto(d, step) == dispatch' = [dispatch EXCEPT ![d] = step]

\* The fault of looking at the flag before the count is raised.
EnterAfterLook(d) ==
    /\ dispatch[d] \in {"idle", "retry"}
    /\ \E value \in readable[d] :
         IF value = "closed" THEN Goto(d, "blocked") /\ UNCHANGED count
                  ELSE Goto(d, "inside") /\ count' = count + 1
    /\ UNCHANGED <<readable, gateVars, fenceVars, woken>>

\* enter, of a new dispatch or in acquire's loop.
Enter(d) ==
    /\ dispatch[d] \in {"idle", "retry"}
    /\ count' = count + 1
    /\ readable' = Synchronized(d)
    /\ Goto(d, "entered")
    /\ UNCHANGED <<gateVars, fenceVars, woken>>

\* The rest of try_enter: the flag is read after the count was raised.
Look(d) ==
    /\ dispatch[d] = "entered"
    /\ \E value \in readable[d] : Goto(d, IF value = "closed" THEN "rejected" ELSE "inside")
    /\ UNCHANGED <<readable, count, gateVars, fenceVars, woken>>

Returned(step) == IF step \in {"inside", "insideLast"} THEN "idle" ELSE "blocked"

\* The fault of a release that reads the flag without having acquired the count.
LeaveRelaxed(d) ==
    /\ dispatch[d] \in {"inside", "rejected"}
    /\ count' = count - 1
    /\ Goto(d, IF count = 1
               THEN IF dispatch[d] = "inside" THEN "insideLast" ELSE "rejectedLast"
               ELSE Returned(dispatch[d]))
    /\ UNCHANGED <<readable, gateVars, fenceVars, woken>>

\* release_dispatch, of a permit that is dropped and of an entry rolled back.
Leave(d) ==
    /\ dispatch[d] \in {"inside", "rejected"}
    /\ count' = count - 1
    /\ readable' = Synchronized(d)
    /\ Goto(d, IF count = 1
               THEN IF dispatch[d] = "inside" THEN "insideLast" ELSE "rejectedLast"
               ELSE Returned(dispatch[d]))
    /\ UNCHANGED <<gateVars, fenceVars, woken>>

\* The last one to leave wakes the fences of a closed gate.
LookAfter(d) ==
    /\ dispatch[d] \in {"insideLast", "rejectedLast"}
    /\ \E value \in readable[d] : IF value = "closed" THEN WakeDrained ELSE UNCHANGED woken
    /\ Goto(d, Returned(dispatch[d]))
    /\ UNCHANGED <<readable, count, gateVars, fenceVars>>

(***************************************************************************)
(* clear_if_expired: engagements whose deadline passed are removed, a      *)
(* lease never.                                                            *)
(***************************************************************************)
Fencing == {f \in Fences : engagement[f] = "fencing"}
Expired == Fencing \cap passed
Holding(engagements) == \E f \in Fences : engagements[f] # "none"
FlagFor(engagements) == IF Holding(engagements) THEN "closed" ELSE "open"

Cleared == [f \in Fences |-> IF f \in Expired THEN "none" ELSE engagement[f]]

\* What acquire does before it waits, for a waiter x which enables its wait.
ClearAndEnable(x) ==
    IF Expired = {}
    THEN woken' = woken \ {x} /\ UNCHANGED <<flag, readable, engagement>>
    ELSE /\ engagement' = Cleared
         /\ Store(FlagFor(Cleared))
         /\ woken' = Everyone \ {x}

Block(d) ==
    /\ dispatch[d] = "blocked"
    /\ ClearAndEnable(d)
    /\ Goto(d, "enabled")
    /\ UNCHANGED <<count, passed, fenceVars>>

\* try_acquire_dispatch gives up instead of waiting.
GiveUp(d) ==
    /\ dispatch[d] = "enabled"
    /\ Goto(d, "idle")
    /\ UNCHANGED <<readable, count, gateVars, fenceVars, woken>>

\* Under the mutex: without an engagement it tries again at once.
Await(d) ==
    /\ dispatch[d] = "enabled"
    /\ Goto(d, IF Holding(engagement) THEN "asleep" ELSE "retry")
    /\ readable' = Refreshed(d)
    /\ UNCHANGED <<count, gateVars, fenceVars, woken>>

\* A notification, or the earliest deadline of a fence, which is then cleared.
Wake(d) ==
    /\ dispatch[d] = "asleep"
    /\ \/ d \in woken /\ Goto(d, "retry")
       \/ Expired # {} /\ Goto(d, "blocked")
    /\ UNCHANGED <<readable, count, gateVars, fenceVars, woken>>

(***************************************************************************)
(* A fence.                                                                *)
(***************************************************************************)
Proceed(f, step) == fence' = [fence EXCEPT ![f] = step]

\* RelayDispatchGate::engage.  The generation makes the entry its own.
Engage(f) ==
    /\ fence[f] = "idle" /\ engaged[f] < MaxEngagements
    /\ engaged' = [engaged EXCEPT ![f] = @ + 1]
    /\ engagement' = [engagement EXCEPT ![f] = "fencing"]
    /\ passed' = passed \ {f}
    /\ Store("closed")
    /\ WakeChanged
    /\ Proceed(f, "engaged")
    /\ UNCHANGED <<count, dispatch>>

\* wait_quiescent, up to its look.
Enable(f) ==
    /\ fence[f] = "engaged"
    /\ ClearAndEnable(f)
    /\ Proceed(f, "enabled")
    /\ UNCHANGED <<count, passed, dispatch, engaged>>

\* poll_quiescence: the count is read by a read-modify-write under the mutex.
Poll(f) ==
    /\ fence[f] = "enabled"
    /\ IF engagement[f] = "none"
       THEN Proceed(f, "failed") /\ UNCHANGED engagement
       ELSE IF f \in passed
       THEN Proceed(f, "expired") /\ UNCHANGED engagement
       ELSE IF count = 0
       THEN Proceed(f, "leased") /\ engagement' = [engagement EXCEPT ![f] = "leased"]
       ELSE Proceed(f, "asleep") /\ UNCHANGED engagement
    /\ readable' = [readable EXCEPT !["count"] = {flag}]
    /\ UNCHANGED <<flag, passed, count, dispatch, engaged, woken>>

\* A deadline that passed ends the wait.
Expire(f) ==
    /\ fence[f] = "expired"
    /\ ClearAndEnable(f)
    /\ Proceed(f, "failed")
    /\ UNCHANGED <<count, passed, dispatch, engaged>>

FenceWake(f) ==
    /\ fence[f] = "asleep"
    /\ f \in woken \cup passed
    /\ Proceed(f, "engaged")
    /\ UNCHANGED <<readable, count, gateVars, dispatch, engaged, woken>>

\* RelayDispatchGateLease::drop, after the mutation, after a fence that failed,
\* or because its operation was abandoned.
Removed(f) == [engagement EXCEPT ![f] = "none"]

\* The fault of a release that tells nobody.
ReleaseQuietly(f) ==
    /\ fence[f] # "idle"
    /\ engagement' = Removed(f) /\ Store(FlagFor(Removed(f)))
    /\ Proceed(f, "idle")
    /\ UNCHANGED <<count, passed, dispatch, engaged, woken>>

Release(f) ==
    /\ fence[f] # "idle"
    /\ IF engagement[f] = "none"
       THEN UNCHANGED <<flag, readable, engagement, woken>>
       ELSE engagement' = Removed(f) /\ Store(FlagFor(Removed(f))) /\ WakeChanged
    /\ Proceed(f, "idle")
    /\ UNCHANGED <<count, passed, dispatch, engaged>>

\* Time passes the deadline of a fence that is not complete.
DeadlinePasses(f) ==
    /\ engagement[f] = "fencing" /\ f \notin passed
    /\ passed' = passed \cup {f}
    /\ UNCHANGED <<flag, readable, count, engagement, dispatch, fenceVars, woken>>

Dispatch(d) ==
    \/ Enter(d) \/ Look(d) \/ Leave(d) \/ LookAfter(d) \/ Block(d) \/ GiveUp(d) \/ Await(d)
    \/ Wake(d)
Operate(f) ==
    Engage(f) \/ Enable(f) \/ Poll(f) \/ Expire(f) \/ FenceWake(f) \/ Release(f)
    \/ DeadlinePasses(f)

Next == (\E d \in Dispatches : Dispatch(d)) \/ (\E f \in Fences : Operate(f))

Spec == Init /\ [][Next]_vars

\* Tasks that can run are run: an acquisition goes on, a permit is dropped in the
\* end, a fence looks when it is woken, its deadline comes, and its lease is dropped.
\* Deadlines are needed: dispatches that try and give up one after another may be
\* counted at every look of a fence.
Pursue(d) ==
    \/ dispatch[d] = "retry" /\ Enter(d)
    \/ Look(d) \/ Leave(d) \/ LookAfter(d) \/ Block(d) \/ Await(d) \/ Wake(d)
Conclude(f) ==
    \/ Enable(f) \/ Poll(f) \/ Expire(f) \/ FenceWake(f)
    \/ fence[f] \in {"leased", "failed"} /\ Release(f)

-----------------------------------------------------------------------------
\* Under a lease no dispatch is in progress: neither one that entered before it,
\* nor one whose look at the flag came before the gate was closed.  This is what
\* lets the operation tear down the relay's consumers (try_enter, poll_quiescence).
LeaseExcludesDispatch ==
    (\E f \in Fences : engagement[f] = "leased")
       => \A d \in Dispatches : dispatch[d] # "inside"

\* A fence that sleeps is woken: while it was not, a dispatch it waits for is
\* still counted, or the last one is about to notify it (release_dispatch).
NoLostWakeup ==
    \A f \in Fences :
      fence[f] = "asleep" /\ f \notin woken /\ engagement[f] = "fencing" =>
        \/ count > 0
        \/ \E d \in Dispatches : /\ dispatch[d] \in {"insideLast", "rejectedLast"}
                                 /\ readable[d] = {"closed"}
=============================================================================
