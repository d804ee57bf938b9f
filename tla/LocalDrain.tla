----------------------------- MODULE LocalDrain -----------------------------
(***************************************************************************)
(* How a node that stops finds out that its graph finished what it had     *)
(* admitted (src/runtime/local_drain.rs), by reading counts one after the  *)
(* other while batches move between relays and nodes, and by asking the    *)
(* nodes for force-flush generations (src/runtime/force_flush.rs).         *)
(*                                                                         *)
(* Each node is a task with one input relay.  A message passes the nodes   *)
(* of its path; at the first it waits for the messages it needs, which     *)
(* write their state as they end.  Counts are atomic and read in their     *)
(* order of modification.                                                  *)
(***************************************************************************)
EXTENDS Naturals, FiniteSets, Sequences

CONSTANTS GraphNodes, Messages,
          Path,      \* message -> the nodes it passes
          Needs,     \* message -> the messages whose state it waits for
          Tracked,   \* messages with an acknowledgement root
          Generated, \* messages that the generator has still to produce
          Parked     \* messages that wait from the beginning

VARIABLES at, hop,                      \* message -> place, and position on its path
          admitted, handedOn, queued,   \* relay of a node -> its totals and its consumer's queue
          owner,                        \* relay -> whether its owner has a batch in hand
          guard, shown,                 \* node -> the batch it took, the outputs it published
          task,                         \* node -> what its task does
          flush,                        \* node -> its obligation of the generation
          generator, intake,
          observing, left, visible, owing, before, reading,   \* the observation under way
          progress,
          carried, owed, waited         \* history

graph == <<at, hop>>
relays == <<admitted, handedOn, queued, owner>>
counts == <<guard, shown>>
source == <<generator, intake>>
observation == <<observing, left, visible, owing, before, reading>>
history == <<carried, owed, waited>>
drainVars == <<graph, relays, counts, task, flush, source, observation, progress, history>>

Here(m) == Path[m][hop[m]]
In(n, place) == {m \in Messages : at[m] = place /\ Here(m) = n}
Ready(m) == \A k \in Needs[m] : at[k] = "done"
Moving(m) == at[m] \in {"relay", "queue", "node", "out"}
Idle == [step |-> "idle", todo |-> {}, flushes |-> FALSE]
NoRead == [relay |-> "none", handed |-> 0]

DrainInit ==
    /\ at = [m \in Messages |-> CASE m \in Generated -> "source"
                                [] m \in Parked -> "parked" [] OTHER -> "relay"]
    /\ hop = [m \in Messages |-> 1]
    /\ admitted = [n \in GraphNodes |->
                     Cardinality({m \in Messages : at[m] = "relay" /\ Path[m][1] = n})]
    /\ handedOn = [n \in GraphNodes |-> 0] /\ queued = [n \in GraphNodes |-> 0]
    /\ owner = [n \in GraphNodes |-> FALSE]
    /\ guard = [n \in GraphNodes |-> 0] /\ shown = [n \in GraphNodes |-> 0]
    /\ task = [n \in GraphNodes |-> Idle] /\ flush = [n \in GraphNodes |-> "none"]
    /\ generator = (IF Generated = {} THEN "stopped" ELSE "paused") /\ intake = "open"
    /\ observing = "rest" /\ left = {} /\ visible = FALSE /\ owing = FALSE
    /\ before = [n \in GraphNodes |-> 0] /\ reading = NoRead
    /\ progress = "running" /\ carried = {} /\ owed = {} /\ waited = Parked

Places == {"source", "relay", "queue", "node", "parked", "out", "done"}
Steps == {"idle", "take", "execute", "retry", "settle", "end"}
ObservingStages ==
    {"rest", "flushes", "before", "source", "acks", "relays", "queue", "nodes", "after"}

DrainTypeOK ==
    /\ at \in [Messages -> Places] /\ hop \in [Messages -> Nat]
    /\ {admitted, handedOn, queued, guard, shown, before} \subseteq [GraphNodes -> Nat]
    /\ owner \in [GraphNodes -> BOOLEAN]
    /\ task \in [GraphNodes -> [step : Steps, todo : SUBSET Messages, flushes : BOOLEAN]]
    /\ flush \in [GraphNodes -> {"none", "available", "claimed"}]
    /\ generator \in {"paused", "decided", "active", "produce", "stopped"}
    /\ intake \in {"open", "closed"}
    /\ observing \in ObservingStages /\ left \subseteq GraphNodes
    /\ {visible, owing} \subseteq BOOLEAN
    /\ reading # NoRead => reading.relay \in GraphNodes /\ reading.handed \in Nat
    /\ progress \in {"running", "draining", "confirming", "quiescent", "abandoned"}
    /\ {carried, owed, waited} \subseteq SUBSET Messages

(***************************************************************************)
(* The graph.                                                              *)
(***************************************************************************)
Does(n, step) == task' = [task EXCEPT ![n].step = step]
Admits(m, n) == admitted' = [admitted EXCEPT ![n] = @ + 1] /\ at' = [at EXCEPT ![m] = "relay"]

\* The owner of a relay gives a batch to its consumer, then lets it go.
Deliver(n) ==
    /\ ~owner[n]
    /\ \E m \in In(n, "relay") : at' = [at EXCEPT ![m] = "queue"]
    /\ queued' = [queued EXCEPT ![n] = @ + 1] /\ owner' = [owner EXCEPT ![n] = TRUE]
    /\ UNCHANGED <<hop, admitted, handedOn, counts, task, flush, source, observation, progress,
                   history>>
HandOn(n) ==
    /\ owner[n] /\ owner' = [owner EXCEPT ![n] = FALSE]
    /\ handedOn' = [handedOn EXCEPT ![n] = @ + 1]
    /\ UNCHANGED <<graph, admitted, queued, counts, task, flush, source, observation, progress,
                   history>>

\* try_recv_with_quiesce: the node counts the batch before the relay lets it go.
Take(n) ==
    /\ task[n].step = "idle"
    /\ \E m \in In(n, "queue") :
         task' = [task EXCEPT ![n] = [step |-> "take", todo |-> {m}, flushes |-> FALSE]]
    /\ guard' = [guard EXCEPT ![n] = 1]
    /\ UNCHANGED <<graph, relays, shown, flush, source, observation, progress, history>>
Taken(n) ==
    /\ task[n].step = "take" /\ Does(n, "execute")
    /\ queued' = [queued EXCEPT ![n] = @ - 1]
    /\ at' = [m \in Messages |-> IF m \in task[n].todo THEN "node" ELSE at[m]]
    /\ UNCHANGED <<hop, admitted, handedOn, owner, counts, flush, source, observation, progress,
                   history>>

\* Where a message is once a node evaluated it: its root is parked, forwarded or resolved.
Evaluated(m) ==
    CASE ~Ready(m) -> "parked"
      [] Ready(m) /\ hop[m] = Len(Path[m]) -> "done"
      [] OTHER -> "out"
Execute(n) ==
    /\ task[n].step = "execute" /\ Does(n, "settle")
    /\ \E m \in task[n].todo :
         /\ at' = [at EXCEPT ![m] = Evaluated(m)]
         /\ waited' = IF Ready(m) THEN waited ELSE waited \cup {m}
    /\ UNCHANGED <<hop, relays, counts, flush, source, observation, progress, carried, owed>>

\* A task looks at its parked messages again after a change of state, or after some time.
Retry(n) ==
    /\ task[n].step = "idle" /\ \E m \in In(n, "parked") : Ready(m)
    /\ task' = [task EXCEPT ![n] = [step |-> "retry", todo |-> In(n, "parked"), flushes |-> FALSE]]
    /\ UNCHANGED <<graph, relays, counts, flush, source, observation, progress, history>>
\* The task of a node takes its obligation, which begins with the parked messages.
Claim(n) ==
    /\ task[n].step = "idle" /\ flush[n] = "available"
    /\ flush' = [flush EXCEPT ![n] = "claimed"]
    /\ task' = [task EXCEPT ![n] = [step |-> "retry", todo |-> In(n, "parked"), flushes |-> TRUE]]
    /\ UNCHANGED <<graph, relays, counts, source, observation, progress, history>>
\* retry_parked.
Reevaluate(n) ==
    /\ task[n].step = "retry"
    /\ IF task[n].todo = {} THEN Does(n, "settle") /\ UNCHANGED at
       ELSE \E m \in task[n].todo :
              /\ at' = [at EXCEPT ![m] = Evaluated(m)]
              /\ task' = [task EXCEPT ![n].todo = @ \ {m}]
    /\ UNCHANGED <<hop, relays, counts, flush, source, observation, progress, history>>

\* The relay counts a batch before the node lets it go; outputs leave with the operation
\* that made them, with a flush, or when they are due.
ReleaseOutput(n) ==
    /\ \/ task[n].step = "settle" /\ UNCHANGED task
       \/ task[n].step = "idle" /\ Does(n, "settle")
    /\ \E m \in In(n, "out") :
         /\ hop' = [hop EXCEPT ![m] = @ + 1] /\ Admits(m, Path[m][hop[m] + 1])
    /\ UNCHANGED <<handedOn, queued, owner, counts, flush, source, observation, progress,
                   history>>
\* replace_contribution: what rises is raised before anything falls.
Settle(n) ==
    LET out == Cardinality(In(n, "out"))
    IN /\ task[n].step = "settle" /\ (task[n].flushes => out = 0)
       /\ shown' = [shown EXCEPT ![n] = IF out > @ THEN out ELSE @] /\ Does(n, "end")
       /\ UNCHANGED <<graph, relays, guard, flush, source, observation, progress, history>>
\* What falls does so in one step; a flush that was not superseded is complete.
End(n) ==
    /\ task[n].step = "end" /\ task' = [task EXCEPT ![n] = Idle]
    /\ shown' = [shown EXCEPT ![n] = Cardinality(In(n, "out"))] /\ guard' = [guard EXCEPT ![n] = 0]
    /\ flush' = IF task[n].flushes /\ flush[n] = "claimed"
                THEN [flush EXCEPT ![n] = "none"] ELSE flush
    /\ UNCHANGED <<graph, relays, source, observation, progress, history>>

Work(n) ==
    \/ Deliver(n) \/ HandOn(n) \/ Taken(n) \/ Execute(n) \/ Reevaluate(n) \/ Settle(n)
    \/ End(n)

(***************************************************************************)
(* The generator: it may be paused, and looks at the intake twice.         *)
(***************************************************************************)
GeneratorLoop ==
    /\ generator \in {"paused", "decided", "active"}
    /\ generator' =
         CASE generator = "paused" -> (IF intake = "closed" THEN "stopped" ELSE "decided")
           [] generator = "decided" -> "active"
           [] generator = "active" -> (IF intake = "closed" THEN "stopped" ELSE "produce")
    /\ UNCHANGED <<graph, relays, counts, task, flush, intake, observation, progress, history>>
Generate ==
    /\ generator = "produce" /\ generator' = "active"
    /\ \E m \in Messages : at[m] = "source" /\ Admits(m, Here(m))
    /\ UNCHANGED <<hop, handedOn, queued, owner, counts, task, flush, intake, observation,
                   progress, history>>
PauseGenerator ==
    /\ generator \in {"active", "produce"} /\ generator' = "paused"
    /\ UNCHANGED <<graph, relays, counts, task, flush, intake, observation, progress, history>>

(***************************************************************************)
(* The drain.                                                              *)
(***************************************************************************)
\* drain_local_graphs.
CloseIntake ==
    /\ progress = "running" /\ progress' = "draining" /\ intake' = "closed"
    /\ UNCHANGED <<graph, relays, counts, task, flush, generator, observation, history>>

Reads(s, nodes) == observing' = s /\ left' = nodes
Unmoved == <<graph, relays, counts, task, flush, source, progress, owed, waited>>

\* LocalDomainDrainStatus::observe.
BeginObservation ==
    /\ observing = "rest" /\ progress \in {"draining", "confirming"}
    /\ Reads("flushes", GraphNodes)
    /\ visible' = FALSE /\ owing' = FALSE
    /\ carried' = {m \in Messages : Moving(m)}
    /\ UNCHANGED <<before, reading, Unmoved>>

\* The stage that follows; a total that is not zero settles what the observation shows.
Following ==
    [flushes |-> "before", before |-> "source", source |-> "acks", acks |-> "relays",
     nodes |-> "after", after |-> "after"]
GoesOn(rest) ==
    IF rest = {} /\ observing # "after" THEN Reads(Following[observing], GraphNodes)
    ELSE Reads(observing, rest)
ReadOne(n, changed) ==
    /\ ~visible /\ n \in left /\ GoesOn(left \ {n}) /\ visible' = changed
    /\ UNCHANGED <<reading, carried, Unmoved>>

ReadFlush(n) ==
    /\ observing = "flushes" /\ ReadOne(n, FALSE) /\ owing' = (owing \/ flush[n] # "none")
    /\ UNCHANGED before
ReadBefore(n) ==
    /\ observing = "before" /\ ReadOne(n, FALSE) /\ before' = [before EXCEPT ![n] = admitted[n]]
    /\ UNCHANGED owing
\* The generators and the acknowledgement roots are one count each.
ReadDomain ==
    /\ ~visible /\ observing \in {"source", "acks"} /\ GoesOn({})
    /\ visible' = \/ observing = "source" /\ generator \in {"active", "produce"}
                  \/ observing = "acks" /\ \E m \in Tracked : Moving(m)
    /\ UNCHANGED <<owing, before, reading, carried, Unmoved>>
\* RelayTransit::held reads what was handed on first.
ReadHandedOn(n) ==
    /\ ~visible /\ observing = "relays" /\ n \in left /\ reading = NoRead
    /\ reading' = [relay |-> n, handed |-> handedOn[n]] /\ left' = left \ {n}
    /\ UNCHANGED <<observing, visible, owing, before, carried, Unmoved>>
ReadAdmitted ==
    /\ observing = "relays" /\ reading # NoRead
    /\ \/ /\ admitted[reading.relay] # reading.handed
          /\ visible' = TRUE /\ reading' = NoRead /\ UNCHANGED observing
       \/ /\ admitted[reading.relay] = reading.handed
          /\ observing' = "queue" /\ UNCHANGED <<visible, reading>>
    /\ UNCHANGED <<left, owing, before, carried, Unmoved>>
ReadQueue ==
    /\ observing = "queue" /\ reading' = NoRead /\ visible' = (queued[reading.relay] # 0)
    /\ IF left = {} THEN Reads("nodes", GraphNodes) ELSE Reads("relays", left)
    /\ UNCHANGED <<owing, before, carried, Unmoved>>
ReadNode(n) ==
    /\ observing = "nodes" /\ ReadOne(n, guard[n] + shown[n] # 0) /\ UNCHANGED <<owing, before>>
\* The fault of an observation that does not look for admissions again.
ReadAfterIgnored(n) ==
    /\ observing = "after" /\ ReadOne(n, FALSE) /\ UNCHANGED <<owing, before>>
\* relays_admitting_since.
ReadAfter(n) ==
    /\ observing = "after" /\ ReadOne(n, admitted[n] # before[n]) /\ UNCHANGED <<owing, before>>

\* force_flush_domain and force_flush_domain_if_idle.
RequestFlush == flush' = [n \in GraphNodes |-> "available"]
RequestIfIdle == IF \E n \in GraphNodes : flush[n] # "none" THEN UNCHANGED flush ELSE RequestFlush

Ends == Reads("rest", {}) /\ visible' = FALSE /\ owing' = FALSE
        /\ before' = [n \in GraphNodes |-> 0] /\ reading' = NoRead /\ carried' = {}
Clean == observing = "after" /\ left = {} /\ ~visible

\* LocalDomainDrainProgress::advance and the step it asks for.
FlushIfIdle ==
    /\ visible /\ Ends /\ progress' = "draining" /\ RequestIfIdle
    /\ UNCHANGED <<graph, relays, counts, task, source, owed, waited>>
Confirm ==
    /\ Clean /\ progress = "draining" /\ Ends /\ progress' = "confirming" /\ RequestFlush
    /\ owed' = {m \in Messages : Moving(m) \/ (at[m] = "parked" /\ Ready(m))}
    /\ UNCHANGED <<graph, relays, counts, task, source, waited>>
Confirmed ==
    /\ Clean /\ progress = "confirming" /\ Ends
    /\ progress' = IF owing THEN "confirming" ELSE "quiescent"
    /\ UNCHANGED <<graph, relays, counts, task, flush, source, owed, waited>>
\* The time for the drain has passed.
AbandonDrain ==
    /\ observing = "rest" /\ progress \in {"draining", "confirming"} /\ progress' = "abandoned"
    /\ UNCHANGED <<graph, relays, counts, task, flush, source, observation, history>>

Read ==
    \/ BeginObservation \/ ReadDomain \/ ReadAdmitted \/ ReadQueue
    \/ \E n \in GraphNodes :
         ReadFlush(n) \/ ReadBefore(n) \/ ReadHandedOn(n) \/ ReadNode(n) \/ ReadAfter(n)
    \/ FlushIfIdle \/ Confirm \/ Confirmed

DrainNext ==
    \/ \E n \in GraphNodes : Work(n) \/ Take(n) \/ Retry(n) \/ Claim(n) \/ ReleaseOutput(n)
    \/ GeneratorLoop \/ Generate \/ PauseGenerator
    \/ CloseIntake \/ Read \/ AbandonDrain
DrainSpec == DrainInit /\ [][DrainNext]_drainVars

-----------------------------------------------------------------------------
\* An observation that shows nothing missed no message which moved as it began: each ended,
\* or was parked since (LocalDomainDrainStatus::observe).
NothingMissed == Clean => \A m \in carried : at[m] = "done" \/ m \in waited

\* A domain is quiescent only once everything that moved, or that was parked with its state
\* there, as the confirming generation was requested has ended.
ConfirmedEnded == progress = "quiescent" => \A m \in owed : at[m] = "done"

\* A message that never had to wait has ended in a quiescent domain, and the generator
\* produces no more.
QuiescentEnded ==
    progress = "quiescent" =>
      /\ \A m \in Messages : Moving(m) => m \in waited
      /\ generator # "produce"

\* What was found at rest is.  An observation that shows nothing missed no message which
\* moved as it began: each ended, or was parked since (LocalDomainDrainStatus::observe).
\* A domain is quiescent only once everything that moved, or that was parked with its
\* state there, as the confirming generation was requested has ended
\* (LocalDomainDrainStatus::progress).  And a message that never had to wait has ended in
\* a quiescent domain, whose generator produces no more (GeneratorRuntime).
DrainMissesNothing == DrainTypeOK /\ NothingMissed /\ ConfirmedEnded /\ QuiescentEnded
=============================================================================
