----------------------------- MODULE MCFlowsEnd -----------------------------
(***************************************************************************)
(* What flows comes to its end: dispatches that wait behind a relay's      *)
(* gate, publications that wait for room, rows that a delivery took over,  *)
(* changes that hold an entity, and drains of a domain.  The components    *)
(* share no state.  `part` is what a behaviour follows, with its bounds;   *)
(* the others rest in their initial states, and fairness is assumed of     *)
(* the tasks of the part.                                                  *)
(***************************************************************************)
EXTENDS Naturals, TLC

CONSTANTS d1, d2, f1,      \* dispatches and an operation that engages the gate
          p1, p2, c1, c2,  \* publishers and consumers of a fan-out
          e1, r1,          \* a delivery and its row
          n1, n2, o1,      \* nodes, and a change of an entity
          proc, keeper, m1, m2  \* tasks of a domain, and messages

VARIABLES
    part,
    flag, readable, count, engagement, passed, dispatch, fence, woken, engaged,
    list, queue, ended, admitted, capacity, changes, waiting, views, pub, receiver, received,
    roused, notices,
    slot, free, queueOpen, claims, sealed, returning, stopping, run, task, settled, remote,
    watch, answers,
    phase, call, todo, held, late, stage, removed, asks, replies, stopped, work, fed, made,
    timeouts, crashes,
    at, hop, entered, handedOn, queued, owner, guard, shown, doing, flush, generator, intake,
    observing, left, visible, owing, before, reading, progress, carried, owed, waited

Gate == INSTANCE RelayDispatchGate WITH Dispatches <- {d1, d2}, Fences <- {f1}, MaxEngagements <- 2

\* Two publishers want the only place of each of two consumers.
Fanout ==
    INSTANCE RelayFanout WITH
      Publishers <- {p1, p2}, Consumers <- {c1, c2}, Capacities <- {1}, MaxBatches <- 1,
      MaxChanges <- 0, MayLeave <- FALSE, MayAbort <- FALSE

\* A delivery whose answers are lost and whose sender is missed.
Remote ==
    INSTANCE RemoteDelivery WITH
      Deliveries <- {e1}, Rows <- {r1}, Capacity <- 1, MaxGeneration <- 2,
      AdmissionSweeps <- 1, SilentSweeps <- 1, MaxRuns <- 1, MayStop <- FALSE,
      ViewMisses <- TRUE

\* A change whose coordinator is lost, or whose calls time out and deadline passes.
Faulty ==
    INSTANCE EntityGates WITH
      Nodes <- {n1}, Ops <- {o1}, Timed <- {o1}, MaxWork <- 1, MaxTimeouts <- 0, MaxStops <- 0,
      MaxCrashes <- 1, answers <- replies
\* A change on two nodes, without faults.
Sound ==
    INSTANCE EntityGates WITH
      Nodes <- {n1, n2}, Ops <- {o1}, Timed <- {}, MaxWork <- 1, MaxTimeouts <- 0, MaxStops <- 0,
      MaxCrashes <- 0, answers <- replies
\* A message that waits for one of another task.
Drain ==
    INSTANCE LocalDrain WITH
      GraphNodes <- {proc, keeper}, Messages <- {m1, m2},
      Path <- (m1 :> <<keeper>>) @@ (m2 :> <<proc>>),
      Needs <- (m1 :> {}) @@ (m2 :> {m1}), Tracked <- {}, Generated <- {}, Parked <- {m2},
      admitted <- entered, task <- doing

gateVars == <<flag, readable, count, engagement, passed, dispatch, fence, woken, engaged>>
fanoutVars == <<list, queue, ended, admitted, capacity, changes, waiting, views, pub, receiver,
                received, roused, notices>>
remoteVars == <<slot, free, queueOpen, claims, sealed, returning, stopping, run, task, settled,
                remote, watch, answers>>
holdVars == <<phase, call, todo, held, late, stage, removed, asks, replies, stopped, work, fed,
              made, timeouts, crashes>>
drainVars == <<at, hop, entered, handedOn, queued, owner, guard, shown, doing, flush, generator,
               intake, observing, left, visible, owing, before, reading, progress, carried, owed,
               waited>>
flowVars == <<part, gateVars, fanoutVars, remoteVars, holdVars, drainVars>>

FlowInit ==
    /\ part \in {"gate", "fanout", "remote", "faulty", "sound", "drain"}
    /\ Gate!Init /\ Fanout!FanoutInit /\ Remote!Init /\ Drain!DrainInit
    /\ IF part = "faulty" THEN Faulty!Init ELSE Sound!Init

FlowNext ==
    \/ /\ part = "gate" /\ Gate!Next
       /\ UNCHANGED <<part, fanoutVars, remoteVars, holdVars, drainVars>>
    \/ /\ part = "fanout" /\ Fanout!FanoutNext
       /\ list' = << >> \/ list'[1] = c1   \* consumers are alike
       /\ UNCHANGED <<part, gateVars, remoteVars, holdVars, drainVars>>
    \/ /\ part = "remote" /\ Remote!Next
       /\ UNCHANGED <<part, gateVars, fanoutVars, holdVars, drainVars>>
    \/ /\ part = "faulty" /\ Faulty!Next
       /\ UNCHANGED <<part, gateVars, fanoutVars, remoteVars, drainVars>>
    \/ /\ part = "sound" /\ Sound!Next
       /\ UNCHANGED <<part, gateVars, fanoutVars, remoteVars, drainVars>>
    \/ /\ part = "drain" /\ Drain!DrainNext
       /\ UNCHANGED <<part, gateVars, fanoutVars, remoteVars, holdVars>>

-----------------------------------------------------------------------------
\* Tasks that can run are run: an acquisition goes on, a permit is dropped in the
\* end, a fence looks when it is woken, its deadline comes, and its lease is dropped.
\* Deadlines are needed: dispatches that try and give up one after another may be
\* counted at every look of a fence.
GateFairness ==
    /\ \A d \in {d1, d2} : WF_gateVars(part = "gate" /\ Gate!Pursue(d))
    /\ WF_gateVars(part = "gate" /\ Gate!Conclude(f1))
    /\ WF_gateVars(part = "gate" /\ Gate!DeadlinePasses(f1))

\* Publications that began go on, receivers take what they were given, and what is
\* being closed is closed.
FanoutFairness ==
    /\ \A i \in {p1, p2} : WF_fanoutVars(part = "fanout" /\ Fanout!Continue(i))
    /\ \A c \in {c1, c2} : WF_fanoutVars(part = "fanout" /\ Fanout!Receive(c))

\* A delivery's task is polled until it ends and its waits have deadlines; the sweep
\* ticks; a watch looks at every interval; the receiver's root is decided.  Nothing is
\* assumed of the transport or of the live view.
RemoteFairness ==
    /\ WF_remoteVars(part = "remote" /\ Remote!Forward(e1))
    /\ \A r \in {r1} : /\ WF_remoteVars(part = "remote" /\ Remote!DecideRoot(e1, r))
                           /\ WF_remoteVars(part = "remote" /\ Remote!Look(e1, r))
    /\ \A i \in Remote!Positions : WF_remoteVars(part = "remote" /\ Remote!SweepPosition(i))

\* Tasks run, batches go on, deadlines pass.
HoldFairness ==
    /\ \A h \in Faulty!Holds :
         WF_holdVars(part = "faulty" /\ Faulty!NodeStep(h, n1))
    /\ WF_holdVars(part = "faulty" /\ Faulty!CoordinatorStep(o1))
    /\ WF_holdVars(part = "faulty" /\ Faulty!Deadline(o1))
    /\ WF_holdVars(part = "faulty" /\ Faulty!PollDrained(o1, n1))
    /\ WF_holdVars(part = "faulty" /\ Faulty!Process(n1))
    /\ WF_holdVars(part = "faulty" /\ Faulty!Enter(n1))
    /\ \A h \in Sound!Holds, n \in {n1, n2} :
         WF_holdVars(part = "sound" /\ Sound!NodeStep(h, n))
    /\ WF_holdVars(part = "sound" /\ Sound!CoordinatorStep(o1))
    /\ \A n \in {n1, n2} : /\ WF_holdVars(part = "sound" /\ Sound!PollDrained(o1, n))
                           /\ WF_holdVars(part = "sound" /\ Sound!Process(n))
                           /\ WF_holdVars(part = "sound" /\ Sound!Enter(n))

\* Tasks run.  A node polls its input first and looks at parked messages only after a
\* change or some time, so neither its input nor a flush waits for ever.
DrainFairness ==
    /\ WF_drainVars(part = "drain" /\ Drain!Read)
    /\ WF_drainVars(part = "drain" /\ Drain!CloseIntake)
    /\ WF_drainVars(part = "drain" /\ Drain!GeneratorLoop)
    /\ \A n \in {proc, keeper} : /\ WF_drainVars(part = "drain" /\ Drain!Deliver(n))
                         /\ WF_drainVars(part = "drain" /\ Drain!HandOn(n))
                         /\ WF_drainVars(part = "drain" /\ Drain!Work(n))
    /\ SF_drainVars(part = "drain" /\ \E n \in {proc, keeper} : Drain!Take(n))
    /\ WF_drainVars(part = "drain" /\ \E n \in {proc, keeper} : Drain!Claim(n))
    /\ WF_drainVars(part = "drain" /\ \E n \in {proc, keeper} : Drain!ReleaseOutput(n))

FlowSpec ==
    /\ FlowInit /\ [][FlowNext]_flowVars
    /\ GateFairness /\ FanoutFairness /\ RemoteFairness /\ HoldFairness /\ DrainFairness

-----------------------------------------------------------------------------
\* Nothing tells two dispatches, publishers or rows apart: what ends for one of them
\* ends for the other.
Waits ==
    CASE part = "gate" -> dispatch[d1] = "blocked"
      [] part = "fanout" -> pub[p1].step # "idle"
      [] part = "remote" -> task[e1].pc # "idle"
      [] part = "sound" -> phase[o1] = "idle"
      [] part = "drain" -> progress = "draining"
      [] OTHER -> FALSE
Ends ==
    CASE part = "gate" -> dispatch[d1] \in {"inside", "idle"}
      [] part = "fanout" -> pub[p1].step = "idle"
      [] part = "remote" -> settled[e1][r1] # "pending"
      [] part = "sound" -> phase[o1] = "change"
      [] part = "drain" -> progress \in {"quiescent", "abandoned"}
      [] OTHER -> FALSE

\* What waits comes to its end.  A dispatch that found the gate closed is let in,
\* although it sleeps while operations engage and release (RelayDispatchGate::acquire).
\* Every publication ends, although publishers hold reservations of one consumer while
\* they wait for another (RelayFanout::consumers).  Every row a delivery takes over is
\* settled, whatever is lost and however long the receiver's view misses the sender
\* (fail_silent_acks, next_report).  Without faults a change of an entity is made: no
\* batch waits behind the gate that waits for it.  A drain with time enough ends
\* (LocalDomainDrainStatus::progress).
\* And no node stays closed by a change whose calls or coordinator were lost or late, or
\* that was given up (EntityIntakeHold, run_gate_lease).
WaitsEnd ==
    /\ Waits ~> Ends
    /\ <>[](part = "faulty" => \A n \in {n1} \ stopped : ~Faulty!Closed(n) /\ ~Faulty!Suspended(n))
=============================================================================
