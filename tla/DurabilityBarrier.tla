------------------------- MODULE DurabilityBarrier -------------------------
(***************************************************************************)
(* Shared synchronizations of a runtime state store                        *)
(* (src/src/runtime/state_store/durability.rs).  A writer applies a write, *)
(* takes a ticket and waits until a synchronization that covers the ticket *)
(* succeeded; one writer at a time starts one, the others share it.  The   *)
(* storage job that flushes owns the round, so a writer may stop waiting.  *)
(*                                                                         *)
(* A writer stands for one call, and for the one write it wants durable.   *)
(* The atomics are sequentially consistent.  The database is external: a   *)
(* flush that fails may lose writes, and every flush after it fails.       *)
(***************************************************************************)
EXTENDS Integers, FiniteSets

CONSTANTS Writers,
          MayFail,      \* whether flushes fail or panic, and jobs are refused
          MayCancel     \* whether writers stop waiting

ASSUME BarrierAssumption ==
    MayFail \in {"yes", "no"} /\ MayCancel \in {"yes", "no"}

VARIABLES
    step,           \* writer -> where its call is
    ticket,         \* writer -> its ticket, 0 before it has one
    issued,         \* the last ticket issued
    synchronized,   \* tickets up to it are covered by a success
    failed,         \* whether a synchronization failed
    running,        \* whether a round is claimed
    round,          \* the round that was claimed
    ends,           \* rounds that freed the barrier and have not signalled it
    woken,          \* writers signalled since they enabled their wait
    dirty,          \* writes applied and not flushed
    carried,        \* the dirty writes a flush began with
    stable,         \* writes on stable storage
    lost,           \* writes a failed flush lost
    poisoned        \* whether the database refuses further flushes

callVars == <<step, ticket, woken>>
barrierVars == <<issued, synchronized, failed, running, ends>>
storeVars == <<dirty, carried, stable, lost, poisoned>>
vars == <<step, ticket, woken, issued, synchronized, failed, running, ends, round, dirty, carried,
          stable, lost, poisoned>>

Steps == {"idle", "applied", "enable", "look", "lookFailed", "claim", "waits", "reserve", "runs",
          "durable", "refused", "cancelled"}
Phases == {"none", "claimed", "queued", "started", "flushing", "flushed", "failed", "ending"}

NoRound == [phase |-> "none", covered |-> 0, result |-> "failed"]

TypeOK ==
    /\ step \in [Writers -> Steps]
    /\ ticket \in [Writers -> Nat]
    /\ issued \in Nat /\ synchronized \in Nat /\ ends \in Nat
    /\ failed \in {"yes", "no"} /\ running \in {"yes", "no"} /\ poisoned \in {"yes", "no"}
    /\ round \in [phase : Phases, covered : Nat, result : {"ok", "failed"}]
    /\ running = "yes" <=> round.phase # "none"
    /\ woken \subseteq Writers /\ dirty \subseteq Writers /\ stable \subseteq Writers
    /\ carried \subseteq Writers /\ lost \subseteq Writers

Init ==
    /\ step = [w \in Writers |-> "idle"] /\ ticket = [w \in Writers |-> 0]
    /\ issued = 0 /\ synchronized = 0 /\ failed = "no" /\ running = "no"
    /\ round = NoRound /\ ends = 0 /\ woken = {}
    /\ dirty = {} /\ carried = {} /\ stable = {} /\ lost = {} /\ poisoned = "no"

Goto(w, next) == step' = [step EXCEPT ![w] = next]

(***************************************************************************)
(* A call of synchronize.                                                  *)
(***************************************************************************)
Apply(w) ==
    /\ step[w] = "idle"
    /\ dirty' = dirty \cup {w}
    /\ Goto(w, "applied")
    /\ UNCHANGED <<ticket, woken, barrierVars, round, carried, stable, lost, poisoned>>

Issue(w) ==
    /\ step[w] = "applied"
    /\ issued' = issued + 1
    /\ ticket' = [ticket EXCEPT ![w] = issued + 1]
    /\ Goto(w, "enable")
    /\ UNCHANGED <<woken, synchronized, failed, running, ends, round, storeVars>>

Enable(w) ==
    /\ step[w] = "enable"
    /\ woken' = woken \ {w}
    /\ Goto(w, "look")
    /\ UNCHANGED <<ticket, barrierVars, round, storeVars>>

Look(w) ==
    /\ step[w] = "look"
    /\ Goto(w, IF synchronized >= ticket[w] THEN "durable" ELSE "lookFailed")
    /\ UNCHANGED <<ticket, woken, barrierVars, round, storeVars>>

LookFailed(w) ==
    /\ step[w] = "lookFailed"
    /\ Goto(w, IF failed = "yes" THEN "refused" ELSE "claim")
    /\ UNCHANGED <<ticket, woken, barrierVars, round, storeVars>>

Claim(w) ==
    /\ step[w] = "claim"
    /\ IF running = "no"
       THEN /\ running' = "yes"
            /\ round' = [NoRound EXCEPT !.phase = "claimed"]
            /\ Goto(w, "reserve")
       ELSE Goto(w, "waits") /\ UNCHANGED <<running, round>>
    /\ UNCHANGED <<ticket, woken, issued, synchronized, failed, ends, storeVars>>

Wake(w) ==
    /\ step[w] = "waits" /\ w \in woken
    /\ Goto(w, "enable")
    /\ UNCHANGED <<ticket, woken, barrierVars, round, storeVars>>

\* synchronize_storage: the reservation was granted and the job takes the round.
Admit(w) ==
    /\ step[w] = "reserve"
    /\ round' = [round EXCEPT !.phase = "queued"]
    /\ Goto(w, "runs")
    /\ UNCHANGED <<ticket, woken, barrierVars, storeVars>>

\* The reservation was refused; the round is dropped before it started.
Refuse(w) ==
    /\ MayFail = "yes" /\ step[w] = "reserve"
    /\ round' = [round EXCEPT !.phase = "ending"]
    /\ Goto(w, "refused")
    /\ UNCHANGED <<ticket, woken, barrierVars, storeVars>>

\* The writer is dropped at an await.  Until the job owns the round, it goes with it.
Cancel(w) ==
    /\ MayCancel = "yes" /\ step[w] \in {"enable", "waits", "reserve", "runs"}
    /\ round' = IF step[w] = "reserve" THEN [round EXCEPT !.phase = "ending"] ELSE round
    /\ Goto(w, "cancelled")
    /\ UNCHANGED <<ticket, woken, barrierVars, storeVars>>

(***************************************************************************)
(* The round, as the storage job runs it.                                  *)
(***************************************************************************)
\* DurabilityRound::start
Start ==
    /\ round.phase = "queued"
    /\ round' = [round EXCEPT !.phase = "started", !.covered = issued]
    /\ UNCHANGED <<callVars, barrierVars, storeVars>>

\* The job never runs; the executor drops it with the round.
DropJob ==
    /\ MayFail = "yes" /\ round.phase = "queued"
    /\ round' = [round EXCEPT !.phase = "ending"]
    /\ UNCHANGED <<callVars, barrierVars, storeVars>>

\* The database begins to flush what was applied, unless it refuses to.
Flush ==
    /\ round.phase = "started"
    /\ round' = [round EXCEPT !.phase = IF poisoned = "yes" THEN "failed" ELSE "flushing"]
    /\ carried' = dirty
    /\ UNCHANGED <<callVars, barrierVars, dirty, stable, lost, poisoned>>

FlushSucceeds ==
    /\ round.phase = "flushing"
    /\ stable' = stable \cup carried
    /\ dirty' = dirty \ carried
    /\ round' = [round EXCEPT !.phase = "flushed"]
    /\ UNCHANGED <<callVars, barrierVars, carried, lost, poisoned>>

\* Some writes may be lost; `phase` says whether the job still records its failure.
FlushFails(phase) ==
    /\ MayFail = "yes" /\ round.phase = "flushing"
    /\ \E gone \in SUBSET carried :
         /\ lost' = lost \cup gone
         /\ stable' = stable \cup (carried \ gone)
    /\ dirty' = dirty \ carried
    /\ poisoned' = "yes"
    /\ round' = [round EXCEPT !.phase = phase]
    /\ UNCHANGED <<callVars, barrierVars, carried>>

\* The fault of covering the tickets issued during the flush.
SucceededForAll ==
    /\ round.phase = "flushed"
    /\ synchronized' = IF issued > synchronized THEN issued ELSE synchronized
    /\ round' = [round EXCEPT !.phase = "ending", !.covered = 0, !.result = "ok"]
    /\ UNCHANGED <<callVars, issued, failed, running, ends, storeVars>>

\* DurabilityRound::succeeded
Succeeded ==
    /\ round.phase = "flushed"
    /\ synchronized' = IF round.covered > synchronized THEN round.covered ELSE synchronized
    /\ round' = [round EXCEPT !.phase = "ending", !.covered = 0, !.result = "ok"]
    /\ UNCHANGED <<callVars, issued, failed, running, ends, storeVars>>

\* DurabilityRound::failed
Failed ==
    /\ round.phase = "failed"
    /\ failed' = "yes"
    /\ round' = [round EXCEPT !.phase = "ending", !.covered = 0]
    /\ UNCHANGED <<callVars, issued, synchronized, running, ends, storeVars>>

\* DurabilityRound::drop of a round without an outcome: the flush panicked.
DropStarted ==
    /\ round.phase = "ending" /\ round.covered > 0
    /\ failed' = "yes"
    /\ round' = [round EXCEPT !.covered = 0]
    /\ UNCHANGED <<callVars, issued, synchronized, running, ends, storeVars>>

\* The call that waits for the job has its result once the round is dropped.
Answered ==
    [w \in Writers |-> IF step[w] # "runs" THEN step[w]
                       ELSE IF round.result = "ok" THEN "enable" ELSE "refused"]

\* The fault of ending without a signal.
FreeQuietly ==
    /\ round.phase = "ending" /\ round.covered = 0
    /\ running' = "no"
    /\ round' = NoRound
    /\ step' = Answered
    /\ UNCHANGED <<ticket, woken, issued, synchronized, failed, ends, storeVars>>

\* DurabilityRound::drop frees the barrier, and then signals it.
Free ==
    /\ round.phase = "ending" /\ round.covered = 0
    /\ running' = "no"
    /\ round' = NoRound
    /\ step' = Answered
    /\ ends' = ends + 1
    /\ UNCHANGED <<ticket, woken, issued, synchronized, failed, storeVars>>

Signal ==
    /\ ends > 0
    /\ ends' = ends - 1
    /\ woken' = Writers
    /\ UNCHANGED <<step, ticket, issued, synchronized, failed, running, round, storeVars>>

Call(w) ==
    \/ Issue(w) \/ Enable(w) \/ Look(w) \/ LookFailed(w) \/ Claim(w) \/ Wake(w) \/ Admit(w)
Job ==
    \/ Start \/ Flush \/ FlushSucceeds \/ Succeeded \/ Failed \/ DropStarted \/ Free

Next ==
    \/ \E w \in Writers : Apply(w) \/ Call(w) \/ Refuse(w) \/ Cancel(w)
    \/ Job \/ DropJob \/ FlushFails("failed") \/ FlushFails("ending")
    \/ Signal

Spec == Init /\ [][Next]_vars

-----------------------------------------------------------------------------
\* A write reported durable is on stable storage, although its flush was another
\* writer's, was abandoned by the writer that started it, or races a flush that
\* failed (DurabilityBarrier::synchronize).
PromisesKept == \A w \in Writers : step[w] = "durable" => w \in stable

\* A writer that waits without a signal has a round ahead that will signal it: no
\* round that ends between its look and its wait is missed (finished.enable()).
NoLostWakeup ==
    \A w \in Writers : step[w] = "waits" /\ w \notin woken => running = "yes" \/ ends > 0
=============================================================================
