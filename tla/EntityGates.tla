---------------------------- MODULE EntityGates ----------------------------
(***************************************************************************)
(* The hold that stops an entity on every node while its configuration     *)
(* changes (src/application/entity_gate.rs and src/runtime/entity_gate.rs). *)
(* The coordinator of a change first holds the entity's ingestors, waits   *)
(* for what they admitted, then holds the relays too, gives up the first   *)
(* hold, waits for the work of the entity and changes it.  A node keeps    *)
(* its part of a hold in tasks of its own, until it is released or until   *)
(* the lease ends.                                                         *)
(*                                                                         *)
(* Time shows only as the deadline of a change, which passes at some time: *)
(* no lease ends before it.  On a node one batch comes from an ingestor    *)
(* that is held, and one from a producer that is not.                      *)
(***************************************************************************)
EXTENDS Naturals, FiniteSets

CONSTANTS Nodes, Ops,
          Timed,      \* changes whose deadline passes
          MaxWork,    \* batches of each kind and node
          MaxTimeouts, MaxStops, MaxCrashes

ASSUME GateAssumption ==
    Timed \subseteq Ops /\ {MaxWork, MaxTimeouts, MaxStops, MaxCrashes} \subseteq Nat

VARIABLES phase,   \* change -> where its coordinator is
          call,    \* change -> the request it waits for
          todo,    \* change -> nodes that are left in this pass
          held,    \* hold -> nodes that were asked and did not confirm its release
          late,    \* changes whose deadline passed
          stage,   \* hold -> node -> its part of the hold there
          removed, \* holds and nodes of which the part left the registry
          asks, answers,
          stopped, \* nodes whose runtime stopped
          work, fed,     \* node -> the batch of a held ingestor, and of another producer
          made,          \* node -> batches that entered
          timeouts, crashes

coordinator == <<phase, call, todo, held>>
receiver == <<stage, removed>>
net == <<asks, answers>>
batches == <<work, fed, made>>
faults == <<late, stopped, timeouts, crashes>>
vars == <<coordinator, receiver, net, batches, faults>>

Holds == Ops \X {"intake", "full"}
Intake(o) == <<o, "intake">>
Full(o) == <<o, "full">>
NoCall == [kind |-> "none"]
Request(kind, h, n) == [kind |-> kind, hold |-> h, node |-> n]
Requests == [kind : {"engage", "release"}, hold : Holds, node : Nodes]

Phases == {"idle", "engage intake", "drain intake", "engage full", "release intake", "drain full",
           "change", "release full", "undo", "done", "crashed"}
Stages == {"none", "starting", "fencing", "quiet", "held", "taken", "resumed", "over"}

\* The hold that a coordinator works on.
Current(o) ==
    IF phase[o] \in {"engage intake", "drain intake", "release intake"} THEN Intake(o) ELSE Full(o)

Init ==
    /\ phase = [o \in Ops |-> "idle"] /\ call = [o \in Ops |-> NoCall]
    /\ todo = [o \in Ops |-> {}] /\ held = [h \in Holds |-> {}]
    /\ stage = [h \in Holds |-> [n \in Nodes |-> "none"]] /\ removed = {}
    /\ asks = {} /\ answers = {}
    /\ late = {} /\ stopped = {} /\ timeouts = 0 /\ crashes = 0
    /\ work = [n \in Nodes |-> "none"] /\ fed = [n \in Nodes |-> "none"]
    /\ made = [n \in Nodes |-> [work |-> 0, fed |-> 0]]

TypeOK ==
    /\ phase \in [Ops -> Phases] /\ call \in [Ops -> Requests \cup {NoCall}]
    /\ todo \in [Ops -> SUBSET Nodes] /\ held \in [Holds -> SUBSET Nodes]
    /\ stage \in [Holds -> [Nodes -> Stages]] /\ removed \subseteq Holds \X Nodes
    /\ asks \subseteq [kind : {"engage", "release", "wait", "end"}, hold : Holds, node : Nodes]
    /\ answers \subseteq [request : Requests, ok : BOOLEAN]
    /\ late \subseteq Timed /\ stopped \subseteq Nodes
    /\ timeouts \in 0..MaxTimeouts /\ crashes \in 0..MaxCrashes
    /\ work \in [Nodes -> {"none", "route", "dispatch", "entity"}]
    /\ fed \in [Nodes -> {"none", "dispatch", "entity"}]
    /\ made \in [Nodes -> [work : 0..MaxWork, fed : 0..MaxWork]]

(***************************************************************************)
(* What a node's parts of the holds close.                                 *)
(***************************************************************************)
\* Relay dispatch gates stay closed until the last of their leases goes.
Closed(n) == \E o \in Ops : stage[Full(o)][n] \in {"fencing", "quiet", "held", "taken", "resumed"}
\* Ingestors are suspended until every cause was released.
Suspended(n) == \E h \in Holds : stage[h][n] \in {"quiet", "held", "taken"}

\* The fault of a status that counts acknowledgements only.
DrainedAcks(h, n) == work[n] = "none"
\* entity_drain_status.
Drained(h, n) == work[n] = "none" /\ (h[2] = "full" => fed[n] = "none")
Dispatching(n) == work[n] = "dispatch" \/ fed[n] = "dispatch"

Admit(n) ==
    /\ ~Suspended(n) /\ n \notin stopped /\ work[n] = "none" /\ made[n].work < MaxWork
    /\ work' = [work EXCEPT ![n] = "route"] /\ made' = [made EXCEPT ![n].work = @ + 1]
    /\ UNCHANGED <<coordinator, receiver, net, fed, faults>>
Produce(n) ==
    /\ ~Closed(n) /\ n \notin stopped /\ fed[n] = "none" /\ made[n].fed < MaxWork
    /\ fed' = [fed EXCEPT ![n] = "dispatch"] /\ made' = [made EXCEPT ![n].fed = @ + 1]
    /\ UNCHANGED <<coordinator, receiver, net, work, faults>>
Enter(n) ==
    /\ work[n] = "route" /\ ~Closed(n)
    /\ work' = [work EXCEPT ![n] = "dispatch"]
    /\ UNCHANGED <<coordinator, receiver, net, fed, made, faults>>
Onward(stageOf) == IF stageOf = "dispatch" THEN "entity" ELSE "none"
Process(n) ==
    /\ \/ /\ work[n] \in {"dispatch", "entity"}
          /\ work' = [work EXCEPT ![n] = Onward(@)] /\ UNCHANGED fed
       \/ /\ fed[n] # "none" /\ fed' = [fed EXCEPT ![n] = Onward(@)] /\ UNCHANGED work
    /\ UNCHANGED <<coordinator, receiver, net, made, faults>>

(***************************************************************************)
(* A node's part of a hold.                                                *)
(***************************************************************************)
Registered(h, n) == stage[h][n] \notin {"none", "over"} /\ <<h, n>> \notin removed
Moves(h, n, s) == stage' = [stage EXCEPT ![h][n] = s]

\* engage_entity_gate_operation: the caller then waits for the task it started.
Engage(h, n) ==
    LET m == Request("engage", h, n)
    IN /\ m \in asks /\ n \notin stopped /\ stage[h][n] = "none"
       /\ asks' = (asks \ {m}) \cup {Request("wait", h, n)}
       /\ Moves(h, n, "starting")
       /\ UNCHANGED <<coordinator, answers, removed, batches, faults>>

\* complete_entity_gate_engagement: the gates close, then the dispatches before that end.
Close(h, n) ==
    /\ stage[h][n] = "starting" /\ n \notin stopped
    /\ Moves(h, n, "fencing") /\ UNCHANGED <<coordinator, removed, net, batches, faults>>
Fence(h, n) ==
    /\ stage[h][n] = "fencing" /\ n \notin stopped /\ (h[2] = "full" => ~Dispatching(n))
    /\ Moves(h, n, "quiet") /\ UNCHANGED <<coordinator, removed, net, batches, faults>>
Complete(h, n) ==
    /\ stage[h][n] = "quiet" /\ n \notin stopped
    /\ Moves(h, n, "held") /\ UNCHANGED <<coordinator, removed, net, batches, faults>>
\* The deadline passed, or the runtime stopped, before the hold was complete.
FailEngagement(h, n) ==
    /\ \/ h[1] \in late /\ stage[h][n] \in {"fencing", "quiet"}
       \/ n \in stopped /\ stage[h][n] \in {"starting", "fencing", "quiet"}
    /\ Moves(h, n, "over") /\ removed' = removed \ {<<h, n>>}
    /\ UNCHANGED <<coordinator, net, batches, faults>>

\* wait_until_held.
AnswerEngage(h, n) ==
    LET m == Request("wait", h, n)
    IN /\ m \in asks /\ stage[h][n] \in {"held", "taken", "resumed", "over"}
       /\ asks' = asks \ {m}
       /\ answers' = answers \cup {[request |-> Request("engage", h, n),
                                    ok |-> stage[h][n] = "held"]}
       /\ UNCHANGED <<coordinator, receiver, batches, faults>>

\* release_entity_gate_operation: only the first takes the part out of the registry.
Release(h, n) ==
    LET m == Request("release", h, n)
    IN /\ m \in asks /\ n \notin stopped
       /\ IF Registered(h, n)
          THEN /\ removed' = removed \cup {<<h, n>>}
               /\ asks' = (asks \ {m}) \cup {Request("end", h, n)} /\ UNCHANGED answers
          ELSE /\ answers' = answers \cup {[request |-> m, ok |-> TRUE]}
               /\ asks' = asks \ {m} /\ UNCHANGED removed
       /\ UNCHANGED <<coordinator, stage, batches, faults>>
AnswerRelease(h, n) ==
    LET m == Request("end", h, n)
    IN /\ m \in asks /\ stage[h][n] = "over"
       /\ asks' = asks \ {m}
       /\ answers' = answers \cup {[request |-> Request("release", h, n), ok |-> TRUE]}
       /\ UNCHANGED <<coordinator, receiver, batches, faults>>
\* The task of a lease that reached its deadline, or whose runtime stopped.
EndLease(h, n) ==
    /\ stage[h][n] = "held" /\ Registered(h, n) /\ (h[1] \in late \/ n \in stopped)
    /\ removed' = removed \cup {<<h, n>>}
    /\ UNCHANGED <<coordinator, stage, net, batches, faults>>

\* take_hold and release_entity_alter_hold: ingestors are released before the gates.
TakeHold(h, n) ==
    /\ <<h, n>> \in removed /\ stage[h][n] = "held"
    /\ Moves(h, n, "taken") /\ UNCHANGED <<coordinator, removed, net, batches, faults>>
Resume(h, n) ==
    /\ stage[h][n] = "taken"
    /\ Moves(h, n, "resumed") /\ UNCHANGED <<coordinator, removed, net, batches, faults>>
Reopen(h, n) ==
    /\ stage[h][n] = "resumed"
    /\ Moves(h, n, "over") /\ removed' = removed \ {<<h, n>>}
    /\ UNCHANGED <<coordinator, net, batches, faults>>

NodeStep(h, n) ==
    \/ Engage(h, n) \/ Close(h, n) \/ Fence(h, n) \/ Complete(h, n) \/ FailEngagement(h, n)
    \/ AnswerEngage(h, n) \/ Release(h, n) \/ AnswerRelease(h, n) \/ EndLease(h, n)
    \/ TakeHold(h, n) \/ Resume(h, n) \/ Reopen(h, n)

(***************************************************************************)
(* The coordinator.                                                        *)
(***************************************************************************)
Goes(o, p) == phase' = [phase EXCEPT ![o] = p]
Ask(o, m) == call' = [call EXCEPT ![o] = m] /\ asks' = asks \cup {m}
\* What a coordinator leaves behind it: a pass over all nodes.
Starts(o, p, nodes) == Goes(o, p) /\ todo' = [todo EXCEPT ![o] = nodes]

Begin(o) ==
    /\ phase[o] = "idle" /\ Starts(o, "engage intake", Nodes)
    /\ UNCHANGED <<call, held, receiver, net, batches, faults>>

\* record_attempt precedes the request.
SendEngage(o, n) ==
    LET h == Current(o)
    IN /\ phase[o] \in {"engage intake", "engage full"} /\ call[o] = NoCall /\ n \in todo[o]
       /\ held' = [held EXCEPT ![h] = @ \cup {n}]
       /\ Ask(o, Request("engage", h, n))
       /\ UNCHANGED <<phase, todo, answers, receiver, batches, faults>>
\* A refusal or an uncertain answer releases every node that was asked.
Engaged(o) ==
    \E a \in answers :
      /\ a.request = call[o] /\ call[o].kind = "engage"
      /\ answers' = answers \ {a} /\ call' = [call EXCEPT ![o] = NoCall]
      /\ IF a.ok THEN todo' = [todo EXCEPT ![o] = @ \ {a.request.node}] /\ UNCHANGED phase
                 ELSE Starts(o, "undo", {})
      /\ UNCHANGED <<held, asks, receiver, batches, faults>>

\* engage_cluster_entity_gates, as one pass over the nodes ends.
EngagedAll(o) ==
    /\ call[o] = NoCall /\ todo[o] = {}
    /\ \/ phase[o] = "engage intake" /\ Starts(o, "drain intake", held[Intake(o)])
       \/ phase[o] = "engage full" /\ Starts(o, "release intake", {})
       \/ phase[o] = "release intake" /\ held[Intake(o)] = {}
          /\ Starts(o, "drain full", held[Full(o)])
    /\ UNCHANGED <<call, held, receiver, net, batches, faults>>

\* wait_for_cluster_entity_drain: one pass has to find every node drained.
PollDrained(o, n) ==
    LET h == Current(o)
    IN /\ phase[o] \in {"drain intake", "drain full"} /\ n \in todo[o] \ stopped
       /\ Registered(h, n) /\ stage[h][n] = "held" /\ Drained(h, n)
       /\ todo' = [todo EXCEPT ![o] = @ \ {n}]
       /\ UNCHANGED <<phase, call, held, receiver, net, batches, faults>>
PollAgain(o, n) ==
    LET h == Current(o)
    IN /\ phase[o] \in {"drain intake", "drain full"} /\ n \in todo[o] /\ todo[o] # held[h]
       /\ ~(n \notin stopped /\ Registered(h, n) /\ stage[h][n] = "held" /\ Drained(h, n))
       /\ todo' = [todo EXCEPT ![o] = held[h]]
       /\ UNCHANGED <<phase, call, held, receiver, net, batches, faults>>
DrainedAll(o) ==
    /\ todo[o] = {}
    /\ \/ phase[o] = "drain intake" /\ Starts(o, "engage full", Nodes)
       \/ phase[o] = "drain full" /\ Starts(o, "change", {})
    /\ UNCHANGED <<call, held, receiver, net, batches, faults>>
DrainTimesOut(o) ==
    /\ phase[o] \in {"drain intake", "drain full"} /\ o \in late /\ todo[o] # {}
    /\ Starts(o, "undo", {}) /\ UNCHANGED <<call, held, receiver, net, batches, faults>>

Change(o) ==
    /\ phase[o] = "change" /\ Goes(o, "release full")
    /\ UNCHANGED <<call, todo, held, receiver, net, batches, faults>>

\* The fault of giving up the first hold while the second is engaged.
OwedDuringEngagement(o) ==
    CASE phase[o] \in {"engage full", "release intake"} -> {Intake(o)} \X held[Intake(o)]
      [] phase[o] = "release full" -> {Full(o)} \X held[Full(o)]
      [] phase[o] = "undo" -> UNION {{h} \X held[h] : h \in {Intake(o), Full(o)}}
      [] OTHER -> {}
\* The nodes whose release is to be asked for next.
Owed(o) ==
    CASE phase[o] = "release intake" -> {Intake(o)} \X held[Intake(o)]
      [] phase[o] = "release full" -> {Full(o)} \X held[Full(o)]
      [] phase[o] = "undo" -> UNION {{h} \X held[h] : h \in {Intake(o), Full(o)}}
      [] OTHER -> {}
SendRelease(o) ==
    /\ call[o] = NoCall
    /\ \E r \in Owed(o) : Ask(o, Request("release", r[1], r[2]))
    /\ UNCHANGED <<phase, todo, held, answers, receiver, batches, faults>>
Released(o) ==
    \E a \in answers :
      /\ a.request = call[o] /\ call[o].kind = "release"
      /\ answers' = answers \ {a} /\ call' = [call EXCEPT ![o] = NoCall]
      /\ held' = [held EXCEPT ![a.request.hold] = @ \ {a.request.node}]
      /\ UNCHANGED <<phase, todo, asks, receiver, batches, faults>>
\* release_cluster_entity_gates_and_wait leaves an unavailable node to its lease.
SkipUnavailable(o) ==
    /\ phase[o] \in {"release intake", "release full"} /\ call[o] = NoCall
    /\ \E r \in Owed(o) : r[2] \in stopped /\ held' = [held EXCEPT ![r[1]] = @ \ {r[2]}]
    /\ UNCHANGED <<phase, call, todo, receiver, net, batches, faults>>
Finish(o) ==
    /\ phase[o] \in {"release full", "undo"} /\ Owed(o) = {} /\ call[o] = NoCall
    /\ Goes(o, "done") /\ UNCHANGED <<call, todo, held, receiver, net, batches, faults>>

\* A request failed or its answer is late: it may have arrived, and may still.
GivesUp(o) ==
    /\ call' = [call EXCEPT ![o] = NoCall]
    /\ IF call[o].kind = "engage" THEN Starts(o, "undo", {}) ELSE UNCHANGED <<phase, todo>>
TimeOut(o) ==
    /\ call[o] # NoCall /\ timeouts < MaxTimeouts /\ timeouts' = timeouts + 1
    /\ GivesUp(o)
    /\ \E lost \in SUBSET {call[o]} : asks' = asks \ lost
    /\ answers' = {a \in answers : a.request # call[o]}
    /\ UNCHANGED <<held, receiver, batches, late, stopped, crashes>>
Unreachable(o) ==
    /\ call[o] # NoCall /\ call[o].node \in stopped /\ GivesUp(o)
    /\ asks' = asks \ {call[o]} /\ answers' = {a \in answers : a.request # call[o]}
    /\ UNCHANGED <<held, receiver, batches, faults>>
\* The caller of a change goes away: dropping the holds schedules their release.
Abandon(o) ==
    /\ phase[o] \in Phases \ {"idle", "undo", "done", "crashed"}
    /\ crashes < MaxCrashes /\ crashes' = crashes + 1
    /\ Starts(o, "undo", {}) /\ call' = [call EXCEPT ![o] = NoCall]
    /\ answers' = {a \in answers : a.request # call[o]}
    /\ UNCHANGED <<held, asks, receiver, batches, late, stopped, timeouts>>
Crash(o) ==
    /\ phase[o] \in Phases \ {"idle", "done", "crashed"}
    /\ crashes < MaxCrashes /\ crashes' = crashes + 1
    /\ Starts(o, "crashed", {}) /\ call' = [call EXCEPT ![o] = NoCall]
    /\ answers' = {a \in answers : a.request # call[o]}
    /\ UNCHANGED <<held, asks, receiver, batches, late, stopped, timeouts>>

Deadline(o) ==
    /\ o \in Timed \ late /\ phase[o] # "idle" /\ late' = late \cup {o}
    /\ UNCHANGED <<coordinator, receiver, net, batches, stopped, timeouts, crashes>>
Stop(n) ==
    /\ n \notin stopped /\ Cardinality(stopped) < MaxStops /\ stopped' = stopped \cup {n}
    /\ UNCHANGED <<coordinator, receiver, net, batches, late, timeouts, crashes>>

CoordinatorStep(o) ==
    \/ Begin(o) \/ Engaged(o) \/ EngagedAll(o) \/ DrainedAll(o) \/ DrainTimesOut(o) \/ Change(o)
    \/ SendRelease(o) \/ Released(o) \/ SkipUnavailable(o) \/ Finish(o) \/ Unreachable(o)
    \/ \E n \in Nodes : SendEngage(o, n) \/ PollDrained(o, n)

Next ==
    \/ \E h \in Holds, n \in Nodes : NodeStep(h, n)
    \/ \E o \in Ops : \/ CoordinatorStep(o) \/ TimeOut(o) \/ Abandon(o) \/ Crash(o) \/ Deadline(o)
                      \/ \E n \in Nodes : PollAgain(o, n)
    \/ \E n \in Nodes : Admit(n) \/ Produce(n) \/ Enter(n) \/ Process(n) \/ Stop(n)
Spec == Init /\ [][Next]_vars

-----------------------------------------------------------------------------
\* The entity is changed while every node is closed for it and holds none of its work,
\* before the deadline that its leases last for (wait_for_cluster_entity_drain).
QuietChange ==
    \A o \in Ops, n \in Nodes :
      phase[o] = "change" /\ o \notin late /\ n \notin stopped =>
        Closed(n) /\ Suspended(n) /\ work[n] = "none" /\ fed[n] = "none"

\* From the end of the first drain no ingestor admits anything until the change is made
\* (engage_cluster_entity_gates overlaps the two holds).
AdmissionStaysClosed ==
    \A o \in Ops, n \in Nodes :
      phase[o] \in {"engage full", "release intake", "drain full", "change"}
        /\ o \notin late /\ n \notin stopped =>
        Suspended(n) /\ work[n] = "none"
=============================================================================
