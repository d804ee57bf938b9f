-------------------------- MODULE EntityGatesProofs --------------------------
(* For any number of nodes and of changes at once, with any loss of requests *)
(* and answers, stops of nodes and crashes of coordinators: an entity is     *)
(* changed while it is quiet everywhere its leases still run.  Two           *)
(* components it rests on follow: what observers read of its branches, and   *)
(* how a node finds out that its graph has drained.                          *)
EXTENDS EntityGates, BranchPresence, LocalDrain, FiniteSetTheorems, TLAPS

\* The release of a hold may have been asked for.
Releasing(h) ==
  phase[h[1]] \in {"release full", "undo", "done", "crashed"}
                    \cup (IF h[2] = "intake" THEN {"release intake", "drain full", "change"}
                                             ELSE {})

\* A hold's lease still runs on a node, which runs too.
Runs(o, n) == o \notin late /\ n \notin stopped

\* Only its coordinator's release, or the end of its lease, takes a hold away.
HoldsKept ==
  \A h \in Holds, n \in Nodes :
    /\ Request("release", h, n) \in asks => Releasing(h)
    /\ <<h, n>> \in removed /\ Runs(h[1], n) => Releasing(h)

\* A coordinator waits for a request of its own, which it recorded before it sent it.
Waits(o) ==
  /\ call[o].kind = "engage" =>
       /\ phase[o] \in {"engage intake", "engage full"}
       /\ call[o].hold = Current(o) /\ call[o].node \in held[Current(o)]
  /\ call[o].kind = "release" => call[o].hold[1] = o /\ Releasing(call[o].hold)
Calls == \A o \in Ops : Waits(o)

\* A confirmation that is under way is still true.
ConfirmationsTrue ==
  \A a \in answers :
    a.request.kind = "engage" /\ a.ok /\ Runs(a.request.hold[1], a.request.node) =>
      Releasing(a.request.hold) \/ stage[a.request.hold][a.request.node] = "held"

\* What a coordinator found out about a node is still true.
HoldsIntake(o, n) == Runs(o, n) => stage[Intake(o)][n] = "held"
HoldsFull(o, n) == Runs(o, n) => stage[Full(o)][n] = "held"
Unworked(o, n) == Runs(o, n) => work[n] = "none"
Unfed(o, n) == Runs(o, n) => fed[n] = "none"

Known(o, n) ==
  /\ phase[o] = "engage intake" /\ n \notin todo[o] =>
       n \in held[Intake(o)] /\ HoldsIntake(o, n)
  /\ phase[o] = "drain intake" => n \in held[Intake(o)] /\ HoldsIntake(o, n)
  /\ phase[o] = "drain intake" /\ n \notin todo[o] => Unworked(o, n)
  /\ phase[o] = "engage full" => HoldsIntake(o, n)
  /\ phase[o] = "engage full" /\ n \notin todo[o] => n \in held[Full(o)] /\ HoldsFull(o, n)
  /\ phase[o] \in {"release intake", "drain full", "change"} =>
       n \in held[Full(o)] /\ HoldsFull(o, n)
  /\ phase[o] \in {"engage full", "release intake", "drain full", "change"} => Unworked(o, n)
  /\ phase[o] = "drain full" /\ n \notin todo[o] => Unfed(o, n)
  /\ phase[o] = "change" => Unfed(o, n)

Knows == \A o \in Ops, n \in Nodes : Known(o, n)

\* The inductive invariant.
Inv == TypeOK /\ HoldsKept /\ Calls /\ ConfirmationsTrue /\ Knows

-----------------------------------------------------------------------------
(* Types.                                                                    *)

\* No coordinator has asked for anything.
LEMMA InitInv == Init => Inv
<1> SUFFICES ASSUME Init PROVE Inv
  OBVIOUS
<1>1. TypeOK
  BY GateAssumption DEF Init, TypeOK, Phases, Stages, NoCall
<1>2. HoldsKept /\ Calls /\ ConfirmationsTrue
  BY DEF Init, HoldsKept, Calls, Waits, ConfirmationsTrue, NoCall
<1>3. Knows
  BY DEF Init, Knows, Known
<1> QED
  BY <1>1, <1>2, <1>3 DEF Inv

\* The batches of a node keep their types.
LEMMA BatchTypes ==
  ASSUME TypeOK, NEW n \in Nodes, Admit(n) \/ Produce(n) \/ Enter(n) \/ Process(n)
  PROVE  TypeOK'
<1> USE GateAssumption DEF TypeOK, coordinator, receiver, net, faults
<1>1. CASE Admit(n)
  BY <1>1 DEF Admit
<1>2. CASE Produce(n)
  BY <1>2 DEF Produce
<1>3. CASE Enter(n)
  BY <1>3 DEF Enter
<1>4. CASE Process(n)
  BY <1>4 DEF Process, Onward
<1> QED
  BY <1>1, <1>2, <1>3, <1>4

\* The parts of a hold keep their types.
LEMMA NodeTypes ==
  ASSUME TypeOK, NEW h \in Holds, NEW n \in Nodes, NodeStep(h, n)
  PROVE  TypeOK'
<1> USE DEF TypeOK, coordinator, receiver, net, faults, batches, Moves, Stages
<1>1. CASE Engage(h, n)
  BY <1>1 DEF Engage, Request
<1>2. CASE Close(h, n)
  BY <1>2 DEF Close
<1>3. CASE Fence(h, n)
  BY <1>3 DEF Fence
<1>4. CASE Complete(h, n)
  BY <1>4 DEF Complete
<1>5. CASE FailEngagement(h, n)
  BY <1>5 DEF FailEngagement
<1>6. CASE AnswerEngage(h, n)
  <2>1. [request |-> Request("engage", h, n), ok |-> stage[h][n] = "held"]
          \in [request : Requests, ok : BOOLEAN]
    <3>1. Request("engage", h, n) \in Requests
      BY DEF Request, Requests
    <3> QED
      BY <3>1
  <2> QED
    BY <1>6, <2>1 DEF AnswerEngage
<1>7. CASE Release(h, n)
  <2>1. /\ [request |-> Request("release", h, n), ok |-> TRUE]
             \in [request : Requests, ok : BOOLEAN]
        /\ Request("end", h, n) \in [kind : {"engage", "release", "wait", "end"},
                                     hold : Holds, node : Nodes]
    BY DEF Request, Requests
  <2> QED
    <3>1. removed' \subseteq Holds \X Nodes
      BY <1>7 DEF Release
    <3>2. /\ asks' \subseteq [kind : {"engage", "release", "wait", "end"},
                              hold : Holds, node : Nodes]
          /\ answers' \subseteq [request : Requests, ok : BOOLEAN]
      <4>1. CASE Registered(h, n)
        BY <1>7, <2>1, <4>1 DEF Release
      <4>2. CASE ~Registered(h, n)
        <5>1. /\ answers' = answers \cup {[request |-> Request("release", h, n), ok |-> TRUE]}
              /\ asks' \subseteq asks
          BY <1>7, <4>2 DEF Release
        <5> QED
          BY <2>1, <5>1
      <4> QED
        BY <4>1, <4>2
    <3> QED
      BY <1>7, <3>1, <3>2 DEF Release
<1>8. CASE AnswerRelease(h, n)
  <2>1. [request |-> Request("release", h, n), ok |-> TRUE]
          \in [request : Requests, ok : BOOLEAN]
    BY DEF Request, Requests
  <2> QED
    BY <1>8, <2>1 DEF AnswerRelease
<1>9. CASE EndLease(h, n)
  BY <1>9 DEF EndLease
<1>10. CASE TakeHold(h, n)
  BY <1>10 DEF TakeHold
<1>11. CASE Resume(h, n)
  BY <1>11 DEF Resume
<1>12. CASE Reopen(h, n)
  BY <1>12 DEF Reopen
<1> QED
  BY <1>1, <1>2, <1>3, <1>4, <1>5, <1>6, <1>7, <1>8, <1>9, <1>10, <1>11, <1>12 DEF NodeStep

\* The two holds of a change.
LEMMA HoldsOf ==
  ASSUME NEW o \in Ops
  PROVE  /\ Intake(o) \in Holds /\ Full(o) \in Holds /\ Current(o) \in Holds
         /\ Intake(o) # Full(o) /\ Intake(o)[1] = o /\ Full(o)[1] = o /\ Current(o)[1] = o
         /\ Intake(o)[2] = "intake" /\ Full(o)[2] = "full"
<1>1. Intake(o) \in Holds /\ Full(o) \in Holds
  BY DEF Holds, Intake, Full
<1>2. Intake(o)[1] = o /\ Full(o)[1] = o /\ Intake(o)[2] = "intake" /\ Full(o)[2] = "full"
  BY DEF Intake, Full
<1>3. Intake(o) # Full(o)
  BY <1>2
<1> QED
  BY <1>1, <1>2, <1>3 DEF Current

\* A hold is one of the two of its change.
LEMMA HoldParts ==
  ASSUME NEW h \in Holds
  PROVE  /\ h[1] \in Ops /\ h[2] \in {"intake", "full"}
         /\ h = IF h[2] = "intake" THEN Intake(h[1]) ELSE Full(h[1])
BY DEF Holds, Intake, Full

\* A release that is owed names one of the change's holds and a node.
LEMMA OwedOf ==
  ASSUME TypeOK, NEW o \in Ops, NEW r \in Owed(o)
  PROVE  r[1] \in Holds /\ r[2] \in Nodes /\ r[1][1] = o /\ Releasing(r[1])
<1>1. /\ r[1] \in {Intake(o), Full(o)} /\ r[2] \in held[r[1]]
      /\ phase[o] \in {"release intake", "release full", "undo"}
      /\ phase[o] = "release intake" => r[1] = Intake(o)
  <2>1. CASE phase[o] = "release intake"
    <3>1. r \in {Intake(o)} \X held[Intake(o)]
      BY <2>1 DEF Owed
    <3> QED
      BY <2>1, <3>1
  <2>2. CASE phase[o] = "release full"
    <3>1. r \in {Full(o)} \X held[Full(o)]
      BY <2>2 DEF Owed
    <3> QED
      BY <2>2, <3>1
  <2>3. CASE phase[o] = "undo"
    <3>1. PICK h \in {Intake(o), Full(o)} : r \in {h} \X held[h]
      BY <2>3 DEF Owed
    <3> QED
      BY <2>3, <3>1
  <2>4. phase[o] \in {"release intake", "release full", "undo"}
    BY DEF Owed
  <2> QED
    BY <2>1, <2>2, <2>3, <2>4
<1>2. r[1] \in Holds /\ r[1][1] = o /\ (r[1] = Intake(o) => r[1][2] = "intake")
  BY <1>1, HoldsOf
<1>3. Releasing(r[1])
  BY <1>1, <1>2 DEF Releasing
<1> QED
  BY <1>1, <1>2, <1>3 DEF TypeOK

\* A counter that is below its bound may grow.
LEMMA Grows == \A bound \in Nat : \A c \in 0..bound : c < bound => c + 1 \in 0..bound
OBVIOUS

\* The coordinators keep their types.
LEMMA CoordinatorTypes ==
  ASSUME TypeOK, NEW o \in Ops,
         \/ CoordinatorStep(o) \/ TimeOut(o) \/ Abandon(o) \/ Crash(o) \/ Deadline(o)
         \/ \E n \in Nodes : PollAgain(o, n)
  PROVE  TypeOK'
<1>0. Intake(o) \in Holds /\ Full(o) \in Holds /\ Current(o) \in Holds
  BY HoldsOf
<1> USE <1>0, GateAssumption
        DEF TypeOK, coordinator, receiver, net, faults, batches, Phases, Starts, Goes
<1>1. CASE Begin(o)
  BY <1>1 DEF Begin
<1>2. CASE Engaged(o)
  <2>1. PICK a \in answers :
          /\ answers' = answers \ {a} /\ call' = [call EXCEPT ![o] = NoCall]
          /\ \/ todo' = [todo EXCEPT ![o] = @ \ {a.request.node}] /\ UNCHANGED phase
             \/ Starts(o, "undo", {})
    BY <1>2 DEF Engaged
  <2>2. todo' \in [Ops -> SUBSET Nodes] /\ phase' \in [Ops -> Phases]
    <3>1. CASE todo' = [todo EXCEPT ![o] = @ \ {a.request.node}] /\ UNCHANGED phase
      BY <3>1
    <3>2. CASE Starts(o, "undo", {})
      BY <3>2
    <3> QED
      BY <2>1, <3>1, <3>2
  <2> QED
    BY <1>2, <2>1, <2>2 DEF Engaged
<1>3. CASE EngagedAll(o)
  BY <1>3 DEF EngagedAll
<1>4. CASE DrainedAll(o)
  <2>1. CASE Starts(o, "engage full", Nodes)
    <3>1. phase' = [phase EXCEPT ![o] = "engage full"] /\ todo' = [todo EXCEPT ![o] = Nodes]
      BY <2>1
    <3> QED
      BY <1>4, <3>1 DEF DrainedAll
  <2>2. CASE Starts(o, "change", {})
    <3>1. phase' = [phase EXCEPT ![o] = "change"] /\ todo' = [todo EXCEPT ![o] = {}]
      BY <2>2
    <3> QED
      BY <1>4, <3>1 DEF DrainedAll
  <2> QED
    BY <1>4, <2>1, <2>2 DEF DrainedAll
<1>5. CASE DrainTimesOut(o)
  BY <1>5 DEF DrainTimesOut
<1>6. CASE Change(o)
  BY <1>6 DEF Change
<1>7. CASE SendRelease(o)
  <2>1. PICK r \in Owed(o) : Ask(o, Request("release", r[1], r[2]))
    BY <1>7 DEF SendRelease
  <2>2. /\ Request("release", r[1], r[2]) \in Requests
        /\ Request("release", r[1], r[2]) \in [kind : {"engage", "release", "wait", "end"},
                                               hold : Holds, node : Nodes]
    BY OwedOf DEF Request, Requests
  <2> QED
    BY <1>7, <2>1, <2>2 DEF SendRelease, Ask
<1>8. CASE Released(o)
  <2>1. PICK a \in answers :
          /\ answers' = answers \ {a} /\ call' = [call EXCEPT ![o] = NoCall]
          /\ held' = [held EXCEPT ![a.request.hold] = @ \ {a.request.node}]
    BY <1>8 DEF Released
  <2>2. held' \in [Holds -> SUBSET Nodes]
    BY <2>1
  <2> QED
    BY <1>8, <2>1, <2>2 DEF Released
<1>9. CASE SkipUnavailable(o)
  BY <1>9 DEF SkipUnavailable
<1>10. CASE Finish(o)
  BY <1>10 DEF Finish
<1>11. CASE Unreachable(o)
  BY <1>11 DEF Unreachable, GivesUp
<1>12. ASSUME NEW n \in Nodes, SendEngage(o, n)
       PROVE  TypeOK'
  <2>1. /\ Request("engage", Current(o), n) \in Requests
        /\ Request("engage", Current(o), n) \in [kind : {"engage", "release", "wait", "end"},
                                                 hold : Holds, node : Nodes]
    BY DEF Request, Requests
  <2> QED
    BY <1>12, <2>1 DEF SendEngage, Ask
<1>13. ASSUME NEW n \in Nodes, PollDrained(o, n) \/ PollAgain(o, n)
       PROVE  TypeOK'
  BY <1>13 DEF PollDrained, PollAgain
<1>14. CASE TimeOut(o)
  <2>1. todo' \in [Ops -> SUBSET Nodes] /\ phase' \in [Ops -> Phases]
    BY <1>14 DEF TimeOut, GivesUp
  <2>2. timeouts' \in 0..MaxTimeouts
    <3>1. MaxTimeouts \in Nat /\ timeouts \in 0..MaxTimeouts
      OBVIOUS
    <3> HIDE DEF TypeOK
    <3> QED
      BY <1>14, <3>1, Grows DEF TimeOut
  <2>3. answers' \subseteq answers /\ asks' \subseteq asks
    BY <1>14 DEF TimeOut
  <2>4. call' \in [Ops -> Requests \cup {NoCall}]
    BY <1>14 DEF TimeOut, GivesUp
  <2> QED
    BY <1>14, <2>1, <2>2, <2>3, <2>4 DEF TimeOut
<1>15. CASE Abandon(o)
  <2>1. todo' \in [Ops -> SUBSET Nodes] /\ phase' \in [Ops -> Phases]
    BY <1>15 DEF Abandon
  <2>2. crashes' \in 0..MaxCrashes
    <3>1. MaxCrashes \in Nat /\ crashes \in 0..MaxCrashes
      OBVIOUS
    <3> HIDE DEF TypeOK
    <3> QED
      BY <1>15, <3>1, Grows DEF Abandon
  <2>3. answers' \subseteq answers
    BY <1>15 DEF Abandon
  <2>4. call' \in [Ops -> Requests \cup {NoCall}]
    BY <1>15 DEF Abandon
  <2> QED
    BY <1>15, <2>1, <2>2, <2>3, <2>4 DEF Abandon
<1>16. CASE Crash(o)
  <2>1. todo' \in [Ops -> SUBSET Nodes] /\ phase' \in [Ops -> Phases]
    BY <1>16 DEF Crash
  <2>2. crashes' \in 0..MaxCrashes
    <3>1. MaxCrashes \in Nat /\ crashes \in 0..MaxCrashes
      OBVIOUS
    <3> HIDE DEF TypeOK
    <3> QED
      BY <1>16, <3>1, Grows DEF Crash
  <2>3. answers' \subseteq answers
    BY <1>16 DEF Crash
  <2>4. call' \in [Ops -> Requests \cup {NoCall}]
    BY <1>16 DEF Crash
  <2> QED
    BY <1>16, <2>1, <2>2, <2>3, <2>4 DEF Crash
<1>17. CASE Deadline(o)
  BY <1>17 DEF Deadline
<1> QED
  BY <1>1, <1>2, <1>3, <1>4, <1>5, <1>6, <1>7, <1>8, <1>9, <1>10, <1>11, <1>12, <1>13, <1>14,
     <1>15, <1>16, <1>17 DEF CoordinatorStep

-----------------------------------------------------------------------------
(* The steps preserve what the coordinators know.                            *)

\* A node that keeps its part of a hold admits nothing, and of the second hold, closes too.
LEMMA InForce ==
  ASSUME Inv, NEW o \in Ops, NEW n \in Nodes, NEW h \in {Intake(o), Full(o)},
         stage[h][n] = "held"
  PROVE  Suspended(n) /\ (h = Full(o) => Closed(n))
<1>1. h \in Holds
  BY HoldsOf
<1> QED
  BY <1>1 DEF Suspended, Closed

\* The steps of batches: nothing enters where a coordinator found nothing.
LEMMA BatchStep ==
  ASSUME Inv, NEW n \in Nodes, Admit(n) \/ Produce(n) \/ Enter(n) \/ Process(n)
  PROVE  Inv'
<1>1. TypeOK'
  BY BatchTypes DEF Inv
<1>2. /\ UNCHANGED <<coordinator, receiver, net, faults>>
      /\ \A m \in Nodes : work[m] = "none" /\ Suspended(m) => work'[m] = "none"
      /\ \A m \in Nodes : fed[m] = "none" /\ Closed(m) => fed'[m] = "none"
  <2> USE DEF Inv, TypeOK
  <2>1. CASE Admit(n)
    BY <2>1 DEF Admit
  <2>2. CASE Produce(n)
    BY <2>2 DEF Produce
  <2>3. CASE Enter(n)
    BY <2>3 DEF Enter
  <2>4. CASE Process(n)
    BY <2>4 DEF Process, Onward
  <2> QED
    BY <2>1, <2>2, <2>3, <2>4
<1>3. HoldsKept' /\ Calls' /\ ConfirmationsTrue'
  <2>1. HoldsKept'
    BY <1>2 DEF Inv, HoldsKept, coordinator, receiver, net, faults, Releasing, Runs
  <2>2. Calls'
    BY <1>2 DEF Inv, Calls, Waits, coordinator, Releasing, Current
  <2>3. ConfirmationsTrue'
    BY <1>2 DEF Inv, ConfirmationsTrue, coordinator, receiver, net, faults, Releasing, Runs
  <2> QED
    BY <2>1, <2>2, <2>3
<1>4. ASSUME NEW o \in Ops, NEW m \in Nodes
      PROVE  Known(o, m)'
  <2>1. Known(o, m)
    BY DEF Inv, Knows
  <2>2. /\ stage[Intake(o)][m] = "held" => Suspended(m)
        /\ stage[Full(o)][m] = "held" => Suspended(m) /\ Closed(m)
    BY InForce
  <2> QED
    BY <1>2, <2>1, <2>2 DEF Known, HoldsIntake, HoldsFull, Unworked, Unfed, Runs, coordinator,
                            receiver, faults
<1> QED
  BY <1>1, <1>3, <1>4 DEF Inv, Knows

\* The steps of a node keep its parts of the holds that are not released.
LEMMA NodeInv ==
  ASSUME Inv, NEW h \in Holds, NEW n \in Nodes, NodeStep(h, n)
  PROVE  Inv'
<1>1. TypeOK'
  BY NodeTypes DEF Inv
<1>2. UNCHANGED <<coordinator, batches, faults>>
  BY DEF NodeStep, Engage, Close, Fence, Complete, FailEngagement, AnswerEngage, Release,
         AnswerRelease, EndLease, TakeHold, Resume, Reopen
<1>3. ASSUME NEW g \in Holds, NEW m \in Nodes, stage[g][m] = "held", Runs(g[1], m), ~Releasing(g)
      PROVE  stage'[g][m] = "held"
  <2>1. <<g, m>> \notin removed
    BY <1>3 DEF Inv, HoldsKept
  <2>2. \/ stage' = stage
        \/ \E s : /\ stage' = [stage EXCEPT ![h][n] = s]
                  /\ stage[h][n] = "held" => <<h, n>> \in removed
    BY DEF NodeStep, Engage, Close, Fence, Complete, FailEngagement, AnswerEngage, Release,
           AnswerRelease, EndLease, TakeHold, Resume, Reopen, Moves, receiver
  <2> QED
    <3>1. ASSUME NEW s, stage' = [stage EXCEPT ![h][n] = s],
                 stage[h][n] = "held" => <<h, n>> \in removed
          PROVE  stage'[g][m] = "held"
      <4>1. g # h \/ m # n
        BY <1>3, <2>1, <3>1
      <4> QED
        BY <1>3, <3>1, <4>1 DEF Inv, TypeOK
    <3> QED
      BY <1>3, <2>2, <3>1
<1>4. HoldsKept'
  <2> SUFFICES ASSUME NEW g \in Holds, NEW m \in Nodes
               PROVE  /\ Request("release", g, m) \in asks' => Releasing(g)
                      /\ <<g, m>> \in removed' /\ Runs(g[1], m) => Releasing(g)
    BY <1>2 DEF HoldsKept, Releasing, Runs, coordinator, faults
  <2>1. /\ Request("release", g, m) \in asks => Releasing(g)
        /\ <<g, m>> \in removed /\ Runs(g[1], m) => Releasing(g)
    BY DEF Inv, HoldsKept
  <2>2. Request("release", g, m) \in asks' => Request("release", g, m) \in asks
    BY DEF NodeStep, Engage, Close, Fence, Complete, FailEngagement, AnswerEngage, Release,
           AnswerRelease, EndLease, TakeHold, Resume, Reopen, net, Request
  <2>3. <<g, m>> \in removed' /\ <<g, m>> \notin removed =>
          g = h /\ m = n /\ (Request("release", h, n) \in asks \/ ~Runs(h[1], n))
    BY DEF NodeStep, Engage, Close, Fence, Complete, FailEngagement, AnswerEngage, Release,
           AnswerRelease, EndLease, TakeHold, Resume, Reopen, receiver, Runs
  <2> QED
    BY <2>1, <2>2, <2>3
<1>5. Calls'
  BY <1>2 DEF Inv, Calls, Waits, Releasing, Current, coordinator
<1>6. ConfirmationsTrue'
  <2> SUFFICES ASSUME NEW a \in answers', a.request.kind = "engage", a.ok,
                      Runs(a.request.hold[1], a.request.node), ~Releasing(a.request.hold)
               PROVE  stage'[a.request.hold][a.request.node] = "held"
    BY <1>2 DEF ConfirmationsTrue, Releasing, Runs, coordinator, faults
  <2>1. a.request.hold \in Holds /\ a.request.node \in Nodes
    BY <1>1 DEF TypeOK, Requests
  <2>2. stage[a.request.hold][a.request.node] = "held"
    <3>1. CASE a \in answers
      BY <3>1 DEF Inv, ConfirmationsTrue
    <3>2. CASE a \notin answers
      <4>1. \/ a = [request |-> Request("engage", h, n), ok |-> stage[h][n] = "held"]
            \/ a = [request |-> Request("release", h, n), ok |-> TRUE]
        BY <3>2 DEF NodeStep, Engage, Close, Fence, Complete, FailEngagement, AnswerEngage,
           Release, AnswerRelease, EndLease, TakeHold, Resume, Reopen, net
      <4> QED
        <5>1. CASE a = [request |-> Request("release", h, n), ok |-> TRUE]
          BY <5>1 DEF Request
        <5>2. CASE a = [request |-> Request("engage", h, n), ok |-> stage[h][n] = "held"]
          <6>1. a.request.hold = h /\ a.request.node = n
            BY <5>2 DEF Request
          <6>2. a.ok = (stage[h][n] = "held")
            BY <5>2, Zenon
          <6> QED
            BY <6>1, <6>2, Zenon
        <5> QED
          BY <4>1, <5>1, <5>2
    <3> QED
      BY <3>1, <3>2
  <2> QED
    BY <1>3, <2>1, <2>2
<1>7. ASSUME NEW o \in Ops, NEW m \in Nodes
      PROVE  Known(o, m)'
  <2>1. Known(o, m)
    BY DEF Inv, Knows
  <2>2. /\ Intake(o) \in Holds /\ Full(o) \in Holds /\ Intake(o)[1] = o /\ Full(o)[1] = o
        /\ Intake(o)[2] = "intake" /\ Full(o)[2] = "full"
    BY HoldsOf
  <2>3. /\ stage[Intake(o)][m] = "held" /\ Runs(o, m)
             /\ phase[o] \in {"engage intake", "drain intake", "engage full"}
           => stage'[Intake(o)][m] = "held"
        /\ stage[Full(o)][m] = "held" /\ Runs(o, m)
             /\ phase[o] \in {"engage full", "release intake", "drain full", "change"}
           => stage'[Full(o)][m] = "held"
    BY <1>3, <2>2 DEF Releasing
  <2> QED
    BY <1>2, <2>1, <2>3 DEF Known, HoldsIntake, HoldsFull, Unworked, Unfed, Runs, coordinator,
                            batches, faults
<1> QED
  BY <1>1, <1>4, <1>5, <1>6, <1>7 DEF Inv, Knows

\* A step of one coordinator leaves the others alone.
LEMMA CoordinatorFrame ==
  ASSUME Inv, TypeOK', NEW o \in Ops, UNCHANGED <<receiver, batches, stopped>>,
         late \subseteq late', answers' \subseteq answers,
         \A p \in Ops \ {o} : phase'[p] = phase[p] /\ call'[p] = call[p] /\ todo'[p] = todo[p],
         \A h \in Holds : h[1] # o => held'[h] = held[h],
         \A h \in Holds : h[1] = o /\ Releasing(h) => Releasing(h)',
         \A h \in Holds, n \in Nodes :
           Request("release", h, n) \in asks' \ asks => h[1] = o /\ Releasing(h)',
         Waits(o)', \A n \in Nodes : Known(o, n)'
  PROVE  Inv'
<1>1. \A h \in Holds : Releasing(h) => Releasing(h)'
  BY HoldParts DEF Releasing
<1>2. \A p, n : Runs(p, n)' => Runs(p, n)
  BY DEF Runs
<1>3. HoldsKept'
  BY <1>1, <1>2, HoldParts DEF Inv, HoldsKept, receiver
<1>4. ASSUME NEW p \in Ops, p # o
      PROVE  /\ Intake(p) \in Holds /\ Full(p) \in Holds
             /\ Intake(p)[1] # o /\ Full(p)[1] # o
             /\ held'[Intake(p)] = held[Intake(p)] /\ held'[Full(p)] = held[Full(p)]
             /\ phase'[p] = phase[p] /\ call'[p] = call[p] /\ todo'[p] = todo[p]
  BY <1>4, HoldsOf
<1>5. ASSUME NEW p \in Ops
      PROVE  Waits(p)'
  <2>1. CASE p = o
    BY <2>1
  <2>2. CASE p # o
    <3>1. call[p].kind = "release" => call[p].hold \in Holds
      BY DEF Inv, TypeOK, Requests, NoCall
    <3>2. Waits(p)
      BY DEF Inv, Calls
    <3>3. ASSUME call[p].kind = "release"
          PROVE  call'[p].hold[1] = p /\ Releasing(call[p].hold)'
      <4>1. PICK h \in Holds : h = call[p].hold /\ Releasing(h)
        BY <3>1, <3>2, <3>3 DEF Waits
      <4>2. Releasing(h)'
        BY <1>1, <4>1
      <4> QED
        BY <1>4, <2>2, <3>2, <3>3, <4>1, <4>2 DEF Waits, Releasing
    <3> QED
      BY <1>4, <2>2, <3>2, <3>3 DEF Waits, Current
  <2> QED
    BY <2>1, <2>2
<1>6. ConfirmationsTrue'
  <2> SUFFICES ASSUME NEW a \in answers', a.request.kind = "engage", a.ok,
                      Runs(a.request.hold[1], a.request.node)', ~Releasing(a.request.hold)'
               PROVE  stage'[a.request.hold][a.request.node] = "held"
    BY DEF ConfirmationsTrue
  <2>1. a \in answers /\ a.request.hold \in Holds
    BY DEF Inv, TypeOK, Requests
  <2> QED
    BY <1>1, <1>2, <2>1 DEF Inv, ConfirmationsTrue, receiver
<1>7. ASSUME NEW p \in Ops, NEW n \in Nodes
      PROVE  Known(p, n)'
  <2>1. CASE p = o
    BY <2>1
  <2>2. CASE p # o
    <3>1. Known(p, n)
      BY DEF Inv, Knows
    <3> QED
      BY <1>2, <1>4, <2>2, <3>1 DEF Known, HoldsIntake, HoldsFull, Unworked, Unfed, receiver,
                                    batches
  <2> QED
    BY <2>1, <2>2
<1> QED
  BY <1>3, <1>5, <1>6, <1>7 DEF Inv, Calls, Knows

\* The facts about a coordinator, its holds and its call that its steps start from.
LEMMA Before ==
  ASSUME Inv, NEW o \in Ops
  PROVE  /\ Waits(o) /\ \A n \in Nodes : Known(o, n)
         /\ Intake(o) \in Holds /\ Full(o) \in Holds /\ Intake(o) # Full(o)
         /\ Intake(o)[1] = o /\ Full(o)[1] = o
         /\ Intake(o)[2] = "intake" /\ Full(o)[2] = "full"
         /\ \A h \in Holds : h[1] = o => h = Intake(o) \/ h = Full(o)
BY HoldsOf, HoldParts DEF Inv, Calls, Knows

\* No request is neither kind of request.
LEMMA NoKind == NoCall.kind = "none"
BY DEF NoCall

\* A coordinator goes on to the next pass.
LEMMA PassStep ==
  ASSUME Inv, NEW o \in Ops, Begin(o) \/ EngagedAll(o) \/ DrainedAll(o) \/ Change(o)
  PROVE  Inv'
<1>1. TypeOK'
  BY CoordinatorTypes DEF Inv, CoordinatorStep
<1>2. UNCHANGED <<call, held, receiver, net, batches, faults>>
  BY DEF Begin, EngagedAll, DrainedAll, Change
<1>3. \A p \in Ops \ {o} : phase'[p] = phase[p] /\ todo'[p] = todo[p]
  BY DEF Begin, EngagedAll, DrainedAll, Change, Starts, Goes, Inv, TypeOK
<1>4. \/ phase[o] = "idle" /\ phase'[o] = "engage intake" /\ todo'[o] = Nodes
      \/ /\ phase[o] = "engage intake" /\ phase'[o] = "drain intake"
         /\ call[o] = NoCall /\ todo[o] = {} /\ todo'[o] = held[Intake(o)]
      \/ phase[o] = "drain intake" /\ phase'[o] = "engage full" /\ todo[o] = {} /\ todo'[o] = Nodes
      \/ /\ phase[o] = "engage full" /\ phase'[o] = "release intake"
         /\ call[o] = NoCall /\ todo[o] = {}
      \/ /\ phase[o] = "release intake" /\ phase'[o] = "drain full"
         /\ call[o] = NoCall /\ todo'[o] = held[Full(o)]
      \/ phase[o] = "drain full" /\ phase'[o] = "change" /\ todo[o] = {}
      \/ phase[o] = "change" /\ phase'[o] = "release full"
  BY DEF Begin, EngagedAll, DrainedAll, Change, Starts, Goes, Inv, TypeOK
<1>5. \A h \in Holds : h[1] = o /\ Releasing(h) => Releasing(h)'
  BY <1>4 DEF Releasing
<1>6. Waits(o)'
  <2>0. Waits(o)
    BY Before
  <2>1. call[o].kind # "engage"
    BY <1>4, <2>0, NoKind DEF Waits
  <2>2. call[o].kind = "release" => call[o].hold \in Holds
    BY DEF Inv, TypeOK, Requests, NoCall
  <2> QED
    BY <1>2, <1>5, <2>0, <2>1, <2>2 DEF Waits, Releasing
<1>7. ASSUME NEW n \in Nodes
      PROVE  Known(o, n)'
  <2>1. Known(o, n)
    BY Before
  <2> QED
    BY <1>2, <1>4, <2>1 DEF Known, HoldsIntake, HoldsFull, Unworked, Unfed, Runs, receiver,
                            batches, faults
<1> QED
  BY <1>1, <1>2, <1>3, <1>5, <1>6, <1>7, CoordinatorFrame DEF faults, net

\* A coordinator gives up, ends or crashes.
LEMMA EndStep ==
  ASSUME Inv, NEW o \in Ops,
         DrainTimesOut(o) \/ Finish(o) \/ Unreachable(o) \/ TimeOut(o) \/ Abandon(o) \/ Crash(o)
  PROVE  Inv'
<1>1. TypeOK'
  BY CoordinatorTypes DEF Inv, CoordinatorStep
<1>2. /\ UNCHANGED <<held, receiver, batches, late, stopped>>
      /\ asks' \subseteq asks /\ answers' \subseteq answers
  BY DEF DrainTimesOut, Finish, Unreachable, TimeOut, Abandon, Crash, net, faults
<1>3. \A p \in Ops \ {o} : phase'[p] = phase[p] /\ call'[p] = call[p] /\ todo'[p] = todo[p]
  BY DEF DrainTimesOut, Finish, Unreachable, TimeOut, Abandon, Crash, GivesUp, Starts, Goes,
         Inv, TypeOK
<1>4. /\ call'[o] \in {call[o], NoCall}
      /\ \/ phase'[o] \in {"undo", "done", "crashed"}
         \/ phase'[o] = phase[o] /\ todo'[o] = todo[o]
      /\ call'[o].kind = "engage" => phase[o] \notin {"engage intake", "engage full"}
  <2>1. CASE DrainTimesOut(o) \/ Finish(o)
    BY <2>1, NoKind DEF DrainTimesOut, Finish, Starts, Goes, Inv, TypeOK
  <2>2. CASE Unreachable(o) \/ TimeOut(o)
    BY <2>2, NoKind DEF Unreachable, TimeOut, GivesUp, Starts, Goes, Inv, TypeOK
  <2>3. CASE Abandon(o) \/ Crash(o)
    BY <2>3, NoKind DEF Abandon, Crash, Starts, Goes, Inv, TypeOK
  <2> QED
    BY <2>1, <2>2, <2>3
<1>5. \A h \in Holds : h[1] = o /\ Releasing(h) => Releasing(h)'
  BY <1>4 DEF Releasing
<1>6. Waits(o)'
  <2>0. Waits(o)
    BY Before
  <2>1. call'[o].kind # "engage"
    BY <1>4, <2>0, NoKind DEF Waits
  <2>2. call[o].kind = "release" => call[o].hold \in Holds
    BY DEF Inv, TypeOK, Requests, NoCall
  <2> QED
    BY <1>4, <1>5, <2>0, <2>1, <2>2, NoKind DEF Waits, Releasing
<1>7. ASSUME NEW n \in Nodes
      PROVE  Known(o, n)'
  <2>1. Known(o, n)
    BY Before
  <2> QED
    BY <1>2, <1>4, <2>1 DEF Known, HoldsIntake, HoldsFull, Unworked, Unfed, Runs, receiver,
                            batches
<1> QED
  BY <1>1, <1>2, <1>3, <1>5, <1>6, <1>7, CoordinatorFrame

\* A node is asked for its part of the current hold.
LEMMA SendEngageStep ==
  ASSUME Inv, NEW o \in Ops, NEW n \in Nodes, SendEngage(o, n)
  PROVE  Inv'
<1>1. TypeOK'
  BY CoordinatorTypes DEF Inv, CoordinatorStep
<1>2. /\ UNCHANGED <<phase, todo, answers, receiver, batches, faults>>
      /\ phase[o] \in {"engage intake", "engage full"}
      /\ call' = [call EXCEPT ![o] = Request("engage", Current(o), n)]
      /\ asks' = asks \cup {Request("engage", Current(o), n)}
      /\ held' = [held EXCEPT ![Current(o)] = @ \cup {n}]
  BY DEF SendEngage, Ask
<1>3. Current(o) \in Holds /\ Current(o)[1] = o /\ Current(o)' = Current(o)
  BY <1>2, HoldsOf DEF Current
<1>4. \A h \in Holds : held[h] \subseteq held'[h] /\ (h[1] # o => held'[h] = held[h])
  BY <1>2, <1>3 DEF Inv, TypeOK
<1>5. n \in held'[Current(o)]
  BY <1>2, <1>3 DEF Inv, TypeOK
<1>6. Waits(o)'
  <2>1. call'[o] = Request("engage", Current(o), n)
    BY <1>2 DEF Inv, TypeOK
  <2> QED
    <3>1. /\ call'[o].kind = "engage" /\ call'[o].hold = Current(o) /\ call'[o].node = n
      BY <2>1 DEF Request
    <3> QED
      BY <1>2, <1>3, <1>5, <3>1 DEF Waits
<1>7. ASSUME NEW m \in Nodes
      PROVE  Known(o, m)'
  <2>1. Known(o, m) /\ Intake(o) \in Holds /\ Full(o) \in Holds
    BY Before
  <2> QED
    BY <1>2, <1>4, <2>1 DEF Known, HoldsIntake, HoldsFull, Unworked, Unfed, Runs, receiver,
                            batches, faults
<1>8. \A p \in Ops \ {o} : phase'[p] = phase[p] /\ call'[p] = call[p] /\ todo'[p] = todo[p]
  BY <1>2 DEF Inv, TypeOK
<1>9. \A h \in Holds, m \in Nodes : Request("release", h, m) \notin asks' \ asks
  BY <1>2 DEF Request
<1>10. \A h \in Holds : Releasing(h)' <=> Releasing(h)
  BY <1>2 DEF Releasing
<1> QED
  BY <1>1, <1>2, <1>4, <1>6, <1>7, <1>8, <1>9, <1>10, CoordinatorFrame DEF faults

\* A node answers that its part of the current hold is in force, or that it is not.
LEMMA EngagedStep ==
  ASSUME Inv, NEW o \in Ops, Engaged(o)
  PROVE  Inv'
<1>1. TypeOK'
  BY CoordinatorTypes DEF Inv, CoordinatorStep
<1>2. PICK a \in answers :
        /\ a.request = call[o] /\ call[o].kind = "engage"
        /\ answers' = answers \ {a} /\ call' = [call EXCEPT ![o] = NoCall]
        /\ IF a.ok THEN todo' = [todo EXCEPT ![o] = @ \ {a.request.node}] /\ UNCHANGED phase
                   ELSE Starts(o, "undo", {})
        /\ UNCHANGED <<held, asks, receiver, batches, faults>>
  BY DEF Engaged
<1>3. /\ phase[o] \in {"engage intake", "engage full"}
      /\ a.request.hold = Current(o) /\ a.request.node \in held[Current(o)]
  <2>1. Waits(o)
    BY Before
  <2> QED
    BY <1>2, <2>1 DEF Waits
<1>4. \/ a.ok /\ phase'[o] = phase[o] /\ todo'[o] = todo[o] \ {a.request.node}
      \/ phase'[o] = "undo"
  BY <1>2 DEF Starts, Goes, Inv, TypeOK
<1>5. \A p \in Ops \ {o} : phase'[p] = phase[p] /\ call'[p] = call[p] /\ todo'[p] = todo[p]
  BY <1>2 DEF Starts, Goes, Inv, TypeOK
<1>6. \A h \in Holds : h[1] = o /\ Releasing(h) => Releasing(h)'
  BY <1>4 DEF Releasing
<1>7. Waits(o)'
  <2>1. call'[o] = NoCall
    BY <1>2 DEF Inv, TypeOK
  <2> QED
    BY <2>1, NoKind DEF Waits
<1>8. ASSUME a.ok, Runs(o, a.request.node)
      PROVE  stage[Current(o)][a.request.node] = "held"
  <2>1. ~Releasing(Current(o)) /\ Current(o)[1] = o
    BY <1>3, HoldsOf DEF Releasing, Current
  <2> QED
    BY <1>2, <1>3, <1>8, <2>1 DEF Inv, ConfirmationsTrue
<1>9. ASSUME NEW m \in Nodes
      PROVE  Known(o, m)'
  <2>1. Known(o, m)
    BY Before
  <2>2. CASE phase'[o] = "undo"
    BY <2>2 DEF Known
  <2>3. CASE a.ok /\ phase'[o] = phase[o] /\ todo'[o] = todo[o] \ {a.request.node}
    BY <1>2, <1>3, <1>8, <2>1, <2>3 DEF Known, HoldsIntake, HoldsFull, Unworked, Unfed, Runs,
                                        receiver, batches, faults, Current
  <2> QED
    BY <1>4, <2>2, <2>3
<1> QED
  BY <1>1, <1>2, <1>5, <1>6, <1>7, <1>9, CoordinatorFrame DEF faults

\* A pass over the nodes of the current hold.
LEMMA PollStep ==
  ASSUME Inv, NEW o \in Ops, NEW n \in Nodes, PollDrained(o, n) \/ PollAgain(o, n)
  PROVE  Inv'
<1>1. TypeOK'
  BY CoordinatorTypes DEF Inv, CoordinatorStep
<1>2. /\ UNCHANGED <<phase, call, held, receiver, net, batches, faults>>
      /\ phase[o] \in {"drain intake", "drain full"}
      /\ \/ Drained(Current(o), n) /\ todo' = [todo EXCEPT ![o] = @ \ {n}]
         \/ todo' = [todo EXCEPT ![o] = held[Current(o)]]
  BY DEF PollDrained, PollAgain
<1>3. \A p \in Ops \ {o} : phase'[p] = phase[p] /\ call'[p] = call[p] /\ todo'[p] = todo[p]
  BY <1>2 DEF Inv, TypeOK
<1>4. Waits(o)'
  BY <1>2, Before DEF Waits, Current, Releasing
<1>5. ASSUME NEW m \in Nodes
      PROVE  Known(o, m)'
  <2>1. Known(o, m)
    BY Before
  <2>2. CASE Drained(Current(o), n) /\ todo' = [todo EXCEPT ![o] = @ \ {n}]
    <3>1. todo'[o] = todo[o] \ {n}
      BY <2>2 DEF Inv, TypeOK
    <3>2. work[n] = "none" /\ (phase[o] = "drain full" => fed[n] = "none")
      BY <1>2, <2>2, Before DEF Drained, Current
    <3> QED
      BY <1>2, <2>1, <3>1, <3>2 DEF Known, HoldsIntake, HoldsFull, Unworked, Unfed, Runs,
                                    receiver, batches, faults
  <2>3. CASE todo' = [todo EXCEPT ![o] = held[Current(o)]]
    <3>1. todo'[o] = held[Current(o)]
      BY <2>3 DEF Inv, TypeOK
    <3> QED
      BY <1>2, <2>1, <3>1 DEF Known, HoldsIntake, HoldsFull, Unworked, Unfed, Runs,
                              receiver, batches, faults, Current
  <2> QED
    BY <1>2, <2>2, <2>3
<1>6. \A h \in Holds : Releasing(h)' <=> Releasing(h)
  BY <1>2 DEF Releasing
<1> QED
  BY <1>1, <1>2, <1>3, <1>4, <1>5, <1>6, CoordinatorFrame DEF faults, net

\* A release is asked for, answered, or left to the lease of a node that is gone.
LEMMA ReleaseStep ==
  ASSUME Inv, NEW o \in Ops, SendRelease(o) \/ Released(o) \/ SkipUnavailable(o)
  PROVE  Inv'
<1>1. TypeOK'
  BY CoordinatorTypes DEF Inv, CoordinatorStep
<1>2. /\ UNCHANGED <<phase, todo, receiver, batches, faults>> /\ answers' \subseteq answers
  BY DEF SendRelease, Released, SkipUnavailable, net
<1>3. \A h \in Holds : Releasing(h)' <=> Releasing(h)
  BY <1>2 DEF Releasing
<1>4. Waits(o) /\ (call[o].kind = "release" => call[o].hold \in Holds)
  BY Before DEF Inv, TypeOK, Requests, NoCall
<1>5. /\ \A p \in Ops \ {o} : call'[p] = call[p]
      /\ \A h \in Holds : ~(h[1] = o /\ Releasing(h)) => held'[h] = held[h]
      /\ \A h \in Holds, n \in Nodes :
           Request("release", h, n) \in asks' \ asks => h[1] = o /\ Releasing(h)
      /\ Waits(o)'
  <2>1. CASE SendRelease(o)
    <3>1. PICK r \in Owed(o) : Ask(o, Request("release", r[1], r[2]))
      BY <2>1 DEF SendRelease
    <3>2. PICK g \in Holds, m \in Nodes :
            g[1] = o /\ Releasing(g) /\ Request("release", r[1], r[2]) = Request("release", g, m)
      BY OwedOf DEF Inv
    <3>3. /\ call' = [call EXCEPT ![o] = Request("release", g, m)]
          /\ asks' = asks \cup {Request("release", g, m)} /\ UNCHANGED held
      BY <2>1, <3>1, <3>2 DEF SendRelease, Ask
    <3>4. call'[o].kind = "release" /\ call'[o].hold = g
      BY <3>3 DEF Request, Inv, TypeOK
    <3>5. Waits(o)'
      BY <1>2, <3>2, <3>4 DEF Waits, Releasing
    <3>6. \A h \in Holds, n \in Nodes : Request("release", h, n) \in asks' \ asks => h = g
      BY <3>3 DEF Request
    <3>7. \A p \in Ops \ {o} : call'[p] = call[p]
      BY <3>3 DEF Inv, TypeOK
    <3> QED
      BY <3>2, <3>3, <3>5, <3>6, <3>7
  <2>2. CASE Released(o)
    <3>1. PICK a \in answers :
            /\ a.request = call[o] /\ call[o].kind = "release"
            /\ call' = [call EXCEPT ![o] = NoCall]
            /\ held' = [held EXCEPT ![a.request.hold] = @ \ {a.request.node}]
            /\ UNCHANGED asks
      BY <2>2 DEF Released
    <3>2. a.request.hold[1] = o /\ Releasing(a.request.hold) /\ a.request.hold \in Holds
      BY <1>4, <3>1 DEF Waits
    <3>3. \A h \in Holds : ~(h[1] = o /\ Releasing(h)) => held'[h] = held[h]
      BY <3>1, <3>2 DEF Inv, TypeOK
    <3>4. call'[o] = NoCall /\ \A p \in Ops \ {o} : call'[p] = call[p]
      BY <3>1 DEF Inv, TypeOK
    <3> QED
      BY <3>1, <3>3, <3>4, NoKind DEF Waits
  <2>3. CASE SkipUnavailable(o)
    <3>1. PICK r \in Owed(o) : held' = [held EXCEPT ![r[1]] = @ \ {r[2]}]
      BY <2>3 DEF SkipUnavailable
    <3>2. r[1] \in Holds /\ r[1][1] = o /\ Releasing(r[1])
      BY OwedOf DEF Inv
    <3>3. \A h \in Holds : ~(h[1] = o /\ Releasing(h)) => held'[h] = held[h]
      BY <3>1, <3>2 DEF Inv, TypeOK
    <3>4. call'[o] = NoCall /\ UNCHANGED <<call, asks>>
      BY <2>3 DEF SkipUnavailable, net
    <3> QED
      BY <3>3, <3>4, NoKind DEF Waits
  <2> QED
    BY <2>1, <2>2, <2>3
<1>6. ASSUME NEW m \in Nodes
      PROVE  Known(o, m)'
  <2>1. Known(o, m) /\ Intake(o) \in Holds /\ Full(o) \in Holds
    BY Before
  <2>2. /\ phase[o] \in {"engage intake", "drain intake"} =>
             held'[Intake(o)] = held[Intake(o)]
        /\ phase[o] \in {"engage full", "release intake", "drain full", "change"} =>
             held'[Full(o)] = held[Full(o)]
    BY <1>5, Before DEF Releasing
  <2> QED
    BY <1>2, <2>1, <2>2 DEF Known, HoldsIntake, HoldsFull, Unworked, Unfed, Runs, receiver,
                            batches, faults
<1> QED
  BY <1>1, <1>2, <1>3, <1>5, <1>6, CoordinatorFrame DEF faults

\* The deadline of a change passes.
LEMMA DeadlineStep ==
  ASSUME Inv, NEW o \in Ops, Deadline(o)
  PROVE  Inv'
<1>1. TypeOK'
  BY CoordinatorTypes DEF Inv
<1>2. UNCHANGED <<coordinator, receiver, net, batches, stopped>> /\ late \subseteq late'
  BY DEF Deadline
<1>3. Waits(o)'
  BY <1>2, Before DEF Waits, Current, Releasing, coordinator
<1>4. ASSUME NEW m \in Nodes
      PROVE  Known(o, m)'
  <2>1. Known(o, m)
    BY Before
  <2> QED
    BY <1>2, <2>1 DEF Known, HoldsIntake, HoldsFull, Unworked, Unfed, Runs, receiver,
                      batches, coordinator
<1> QED
  BY <1>1, <1>2, <1>3, <1>4, CoordinatorFrame DEF coordinator, net, Releasing

\* A node stops: nothing has to be known of it any more.
LEMMA StopStep ==
  ASSUME Inv, NEW n \in Nodes, Stop(n)
  PROVE  Inv'
<1>1. UNCHANGED <<coordinator, receiver, net, batches, late, timeouts, crashes>>
      /\ stopped' = stopped \cup {n}
  BY DEF Stop
<1>2. TypeOK'
  BY <1>1 DEF Inv, TypeOK, coordinator, receiver, net, batches
<1>3. \A p, m : Runs(p, m)' => Runs(p, m)
  BY <1>1 DEF Runs
<1>4. HoldsKept'
  BY <1>1, <1>3 DEF Inv, HoldsKept, Releasing, coordinator, receiver, net
<1>5. Calls'
  BY <1>1 DEF Inv, Calls, Waits, Current, Releasing, coordinator
<1>6. ConfirmationsTrue'
  BY <1>1, <1>3 DEF Inv, ConfirmationsTrue, Releasing, coordinator, receiver, net
<1>7. ASSUME NEW o \in Ops, NEW m \in Nodes
      PROVE  Known(o, m)'
  <2>1. Known(o, m)
    BY DEF Inv, Knows
  <2> QED
    BY <1>1, <1>3, <2>1 DEF Known, HoldsIntake, HoldsFull, Unworked, Unfed, receiver,
                            batches, coordinator
<1> QED
  BY <1>2, <1>4, <1>5, <1>6, <1>7 DEF Inv, Knows

\* Every step preserves the invariant.
LEMMA Inductive == Inv /\ [Next]_vars => Inv'
<1> SUFFICES ASSUME Inv, [Next]_vars PROVE Inv'
  OBVIOUS
<1>1. ASSUME NEW h \in Holds, NEW n \in Nodes, NodeStep(h, n) PROVE Inv'
  BY <1>1, NodeInv
<1>2. ASSUME NEW o \in Ops, CoordinatorStep(o) PROVE Inv'
  BY <1>2, PassStep, EndStep, SendEngageStep, EngagedStep, PollStep, ReleaseStep
     DEF CoordinatorStep
<1>3. ASSUME NEW o \in Ops, TimeOut(o) \/ Abandon(o) \/ Crash(o) PROVE Inv'
  BY <1>3, EndStep
<1>4. ASSUME NEW o \in Ops, Deadline(o) PROVE Inv'
  BY <1>4, DeadlineStep
<1>5. ASSUME NEW o \in Ops, NEW n \in Nodes, PollAgain(o, n) PROVE Inv'
  BY <1>5, PollStep
<1>6. ASSUME NEW n \in Nodes, Admit(n) \/ Produce(n) \/ Enter(n) \/ Process(n) PROVE Inv'
  BY <1>6, BatchStep
<1>7. ASSUME NEW n \in Nodes, Stop(n) PROVE Inv'
  BY <1>7, StopStep
<1>8. CASE UNCHANGED vars
  <2>1. UNCHANGED <<coordinator, receiver, net, batches, faults>>
    BY <1>8 DEF vars
  <2>2. TypeOK' /\ HoldsKept' /\ ConfirmationsTrue'
    BY <2>1 DEF coordinator, receiver, net, batches, faults, Inv, TypeOK, HoldsKept,
         ConfirmationsTrue, Releasing, Runs
  <2>3. Calls'
    BY <2>1 DEF coordinator, Inv, Calls, Waits, Current, Releasing
  <2>4. ASSUME NEW o \in Ops, NEW n \in Nodes
        PROVE  Known(o, n)'
    <3>1. Known(o, n)
      BY DEF Inv, Knows
    <3> QED
      BY <2>1, <3>1 DEF coordinator, receiver, batches, faults, Known, HoldsIntake, HoldsFull,
                        Unworked, Unfed, Runs
  <2> QED
    BY <2>2, <2>3, <2>4 DEF Inv, Knows
<1> QED
  BY <1>1, <1>2, <1>3, <1>4, <1>5, <1>6, <1>7, <1>8 DEF Next

\* What the coordinators found out stays true.
LEMMA Invariance == Spec => []Inv
BY InitInv, Inductive, PTL DEF Spec

\* Whatever requests and answers are lost, and however often coordinators crash or callers
\* go away: while the lease of a change runs, the change is made only with every running
\* node closed for the entity and without work of it.
THEOREM ChangesAreQuiet == Spec => []QuietChange
<1>1. Inv => QuietChange
  <2> SUFFICES ASSUME Inv, NEW o \in Ops, NEW n \in Nodes,
                      phase[o] = "change", o \notin late, n \notin stopped
               PROVE  Closed(n) /\ Suspended(n) /\ work[n] = "none" /\ fed[n] = "none"
    BY DEF QuietChange
  <2>1. stage[Full(o)][n] = "held" /\ work[n] = "none" /\ fed[n] = "none"
    BY DEF Inv, Knows, Known, HoldsFull, Unworked, Unfed, Runs
  <2> QED
    BY <2>1, InForce
<1> QED
  BY <1>1, Invariance, PTL

\* The two holds of a change overlap on every running node: once the first has drained the
\* admissions, none is made until the change, as engage_cluster_entity_gates intends.
THEOREM AdmissionNeverReopens == Spec => []AdmissionStaysClosed
<1>1. Inv => AdmissionStaysClosed
  <2> SUFFICES ASSUME Inv, NEW o \in Ops, NEW n \in Nodes,
                      phase[o] \in {"engage full", "release intake", "drain full", "change"},
                      o \notin late, n \notin stopped
               PROVE  Suspended(n) /\ work[n] = "none"
    BY DEF AdmissionStaysClosed
  <2>1. /\ stage[Intake(o)][n] = "held" \/ stage[Full(o)][n] = "held"
        /\ work[n] = "none"
    BY DEF Inv, Knows, Known, HoldsIntake, HoldsFull, Unworked, Runs
  <2> QED
    BY <2>1, InForce
<1> QED
  BY <1>1, Invariance, PTL

-----------------------------------------------------------------------------
(* The branches of an entity that observers read, for any number of owners,  *)
(* branches and places: one owner at a time decides what is read, and        *)
(* between its steps that is the membership it keeps.                        *)
\* The part of the types the argument needs; the instances do not matter to it.
PresenceTypes ==
    /\ published \in [owner : Nat, members : Memberships]
    /\ step \in [Owners -> OwnerSteps] /\ lifetime \in [Owners -> Nat]
    /\ seen \in [Owners -> Nat] /\ fresh \in [Owners -> BOOLEAN]
    /\ membership \in [Owners -> Memberships]

\* What an owner loaded is what is published, as long as nobody replaced it.
Loaded == \A o \in Owners : fresh[o] => seen[o] = published.owner
\* An owner that is about to swap loaded a value of its own lifetime.
Swaps == \A o \in Owners : step[o] \in Swapping => seen[o] = lifetime[o]
\* An owner has a lifetime once its claim is made.
HaveClaimed == \A o \in Owners : lifetime[o] = 0 <=> step[o] \in {"new", "claim"}
\* It begins with an empty membership.
Begins == \A o \in Owners : step[o] \in {"new", "claim"} => membership[o] = Empty

PresenceInv ==
    /\ PresenceTypes /\ Loaded /\ Swaps /\ HaveClaimed /\ Begins
    /\ OneOwner /\ PublishedExact

\* The owners start without a lifetime and nothing is published.
LEMMA PresenceBegins == PresenceInit => PresenceInv
BY DEF PresenceInit, PresenceInv, PresenceTypes, Loaded, Swaps, HaveClaimed, Begins,
     OneOwner, PublishedExact, CurrentOwner, Claimed,
     OwnerSteps, Swapping, Memberships, Empty

\* A change of the instances leaves what is published alone; a changed membership is owed.
LEMMA MembershipChanges ==
    ASSUME PresenceInv, NEW o \in Owners, NEW s, NEW members \in Memberships,
           step[o] = "idle", Changes(o, s, members)
    PROVE  PresenceInv'
BY DEF PresenceInv, PresenceTypes, Loaded, Swaps, HaveClaimed, Begins, OneOwner,
     PublishedExact, CurrentOwner, Claimed, OwnerSteps,
     Swapping, Changes, GoesTo

\* A claim starts the lifetime after the published one, which no owner has.
LEMMA ClaimKeeps ==
    ASSUME PresenceInv, NEW o \in Owners, ClaimLoad(o) \/ ClaimSwap(o)
    PROVE  PresenceInv'
<1>1. CASE ClaimLoad(o)
  BY <1>1 DEF PresenceInv, PresenceTypes, Loaded, Swaps, HaveClaimed, Begins,
       OneOwner, PublishedExact, CurrentOwner, Claimed,
       OwnerSteps, Swapping, ClaimLoad, GoesTo, Loads,
       branches
<1>2. CASE ClaimSwap(o) /\ ~fresh[o]
  <2>1. /\ seen' = [seen EXCEPT ![o] = published.owner] /\ fresh' = [fresh EXCEPT ![o] = TRUE]
        /\ step[o] = "claim" /\ published' = published /\ step' = step /\ lifetime' = lifetime
        /\ membership' = membership
    BY <1>2 DEF ClaimSwap, Loads, branches
  <2> QED
    BY <2>1 DEF PresenceInv, PresenceTypes, Loaded, Swaps, HaveClaimed, Begins,
         OneOwner, PublishedExact, CurrentOwner, Claimed,
         Swapping
<1>3. CASE ClaimSwap(o) /\ fresh[o]
  <2>1. /\ step[o] = "claim" /\ lifetime[o] = 0 /\ seen[o] = published.owner
        /\ published' = [owner |-> seen[o] + 1, members |-> Empty]
        /\ lifetime' = [lifetime EXCEPT ![o] = seen[o] + 1]
        /\ step' = [step EXCEPT ![o] = "idle"]
        /\ fresh' = [q \in Owners |-> FALSE] /\ seen' = seen /\ membership' = membership
    BY <1>3 DEF PresenceInv, PresenceTypes, HaveClaimed, Loaded, ClaimSwap,
         GoesTo, Replaces, branches
  <2>2. /\ Empty \in Memberships /\ published.owner \in Nat
        /\ \A q \in Owners : lifetime[q] \in Nat /\ lifetime[q] <= published.owner
    BY DEF PresenceInv, PresenceTypes, OneOwner, Empty, Memberships
  <2>3. PresenceTypes' /\ Loaded' /\ Swaps' /\ HaveClaimed' /\ Begins'
    BY <2>1, <2>2 DEF PresenceInv, PresenceTypes, Loaded, Swaps, HaveClaimed, Begins,
         OwnerSteps, Swapping
  <2>4. /\ published'.owner = published.owner + 1 /\ lifetime'[o] = published.owner + 1
        /\ \A q \in Owners \ {o} : lifetime'[q] = lifetime[q]
    BY <2>1, <2>2 DEF PresenceInv, PresenceTypes
  <2>5. OneOwner'
    BY <2>2, <2>4 DEF PresenceInv, OneOwner, CurrentOwner, Claimed
  <2>6. \A q \in Owners : CurrentOwner(q)' => q = o
    BY <2>2, <2>4 DEF CurrentOwner, Claimed
  <2>7. membership[o] = Empty
    BY <2>1 DEF PresenceInv, Begins
  <2>8. PublishedExact'
    BY <2>1, <2>6, <2>7 DEF PublishedExact, PresenceInv, PresenceTypes
  <2> QED BY <2>3, <2>5, <2>8 DEF PresenceInv
<1> QED BY <1>1, <1>2, <1>3 DEF PresenceInv, PresenceTypes

\* A publication that succeeds replaces a value of the same lifetime.
LEMMA PublishKeeps ==
    ASSUME PresenceInv, NEW o \in Owners, PublishLoad(o) \/ PublishSwap(o)
    PROVE  PresenceInv'
<1>1. CASE PublishLoad(o)
  <2>1. /\ step[o] \in {"load", "leave"} /\ lifetime[o] # 0
        /\ seen' = [seen EXCEPT ![o] = published.owner] /\ fresh' = [fresh EXCEPT ![o] = TRUE]
        /\ published' = published /\ lifetime' = lifetime /\ membership' = membership
    BY <1>1 DEF PresenceInv, PresenceTypes, HaveClaimed, PublishLoad,
         Publishing, Loads, branches
  <2>2. CASE published.owner # lifetime[o]
    <3>1. After(step[o]) = IF step[o] = "load" THEN "idle" ELSE "gone"
      BY <2>1 DEF After
    <3>2. step' = [step EXCEPT ![o] = After(step[o])]
      BY <1>1, <2>2 DEF PublishLoad, GoesTo
    <3>3. step' = [step EXCEPT ![o] = IF step[o] = "load" THEN "idle" ELSE "gone"]
      BY <3>1, <3>2
    <3> QED
      BY <2>1, <2>2, <3>3 DEF PresenceInv, PresenceTypes, Loaded, Swaps, HaveClaimed, Begins,
           OneOwner, PublishedExact, CurrentOwner, Claimed,
           OwnerSteps, Swapping
  <2>3. CASE published.owner = lifetime[o]
    <3>1. step' = [step EXCEPT ![o] = IF step[o] = "load" THEN "swap" ELSE "clear"]
      BY <1>1, <2>1, <2>3 DEF PublishLoad, GoesTo
    <3> QED
      BY <2>1, <2>3, <3>1 DEF PresenceInv, PresenceTypes, Loaded, Swaps, HaveClaimed, Begins,
           OneOwner, PublishedExact, CurrentOwner, Claimed,
           OwnerSteps, Swapping
  <2> QED BY <2>2, <2>3
<1>2. CASE PublishSwap(o) /\ ~fresh[o]
  BY <1>2 DEF PresenceInv, PresenceTypes, Loaded, Swaps, HaveClaimed, Begins,
       OneOwner, PublishedExact, CurrentOwner, Claimed,
       OwnerSteps, Swapping, Publishing, PublishSwap,
       GoesTo, branches
<1>3. CASE PublishSwap(o) /\ fresh[o]
  <2>1. /\ step[o] \in {"swap", "clear"} /\ published.owner = lifetime[o] /\ lifetime[o] # 0
        /\ published' = [owner |-> lifetime[o],
                          members |-> IF step[o] = "clear" THEN Empty ELSE membership[o]]
        /\ step' = [step EXCEPT ![o] = IF step[o] = "swap" THEN "idle" ELSE "gone"]
        /\ fresh' = [q \in Owners |-> FALSE]
        /\ seen' = seen /\ lifetime' = lifetime /\ membership' = membership
    BY <1>3 DEF PresenceInv, PresenceTypes, HaveClaimed, Loaded, Swaps, PublishSwap,
         Swapping, Value, After, GoesTo, Replaces,
         branches
  <2>2. /\ Empty \in Memberships /\ membership[o] \in Memberships
        /\ lifetime[o] \in Nat
    BY DEF PresenceInv, PresenceTypes, Empty, Memberships
  <2>3. PresenceTypes' /\ Loaded' /\ Swaps' /\ HaveClaimed' /\ Begins'
    BY <2>1, <2>2 DEF PresenceInv, PresenceTypes, Loaded, Swaps, HaveClaimed, Begins,
         OwnerSteps, Swapping
  <2>4. OneOwner'
    BY <2>1, <2>2 DEF PresenceInv, OneOwner, CurrentOwner, Claimed
  <2>5. \A q \in Owners : CurrentOwner(q)' => q = o
    BY <2>1, <2>2 DEF PresenceInv, OneOwner, CurrentOwner, Claimed
  <2>6. PublishedExact'
    BY <2>1, <2>5 DEF PublishedExact, PresenceInv, PresenceTypes
  <2> QED BY <2>3, <2>4, <2>6 DEF PresenceInv
<1> QED BY <1>1, <1>2, <1>3 DEF PresenceInv, PresenceTypes

\* Every step of the specification keeps the invariant.
LEMMA PresenceSteps == PresenceInv /\ [PresenceNext]_presenceVars => PresenceInv'
<1> SUFFICES ASSUME PresenceInv, [PresenceNext]_presenceVars PROVE PresenceInv'
  OBVIOUS
<1>1. ASSUME NEW o \in Owners, ClaimLoad(o) \/ ClaimSwap(o) PROVE PresenceInv'
  BY <1>1, ClaimKeeps
<1>2. ASSUME NEW o \in Owners, PublishLoad(o) \/ PublishSwap(o) PROVE PresenceInv'
  BY <1>2, PublishKeeps
<1>3. ASSUME NEW o \in Owners, NEW k \in Keys, AdmitBranch(o, k) PROVE PresenceInv'
  <2> DEFINE s == Touched(entries[o], k)
             members == [membership[o] EXCEPT !.branches =
                           (@ \cup {k}) \ (KeysOf(s) \ KeysOf(Kept(s)))]
  <2>1. members \in Memberships
    BY DEF PresenceInv, PresenceTypes, Memberships
  <2>2. step[o] = "idle" /\ Changes(o, Kept(s), members)
    BY <1>3 DEF AdmitBranch
  <2> HIDE DEF members
  <2> QED BY <2>1, <2>2, MembershipChanges
<1>4. ASSUME NEW o \in Owners, AdmitUnbranched(o) PROVE PresenceInv'
  <2>1. [membership[o] EXCEPT !.unbranched = TRUE] \in Memberships
    BY DEF PresenceInv, PresenceTypes, Memberships
  <2> QED BY <1>4, <2>1, MembershipChanges DEF AdmitUnbranched
<1>5. ASSUME NEW o \in Owners, Expire(o) PROVE PresenceInv'
  <2> DEFINE s == entries[o]
             n == ExpiredCount(s)
             members == [membership[o] EXCEPT !.branches = @ \ KeysOf(SubSeq(s, 1, n))]
  <2>1. members \in Memberships
    BY DEF PresenceInv, PresenceTypes, Memberships
  <2>2. step[o] = "idle" /\ Changes(o, SubSeq(s, n + 1, Len(s)), members)
    BY <1>5 DEF Expire
  <2> HIDE DEF members
  <2> QED BY <2>1, <2>2, MembershipChanges
<1>6. ASSUME NEW o \in Owners, Drop(o) PROVE PresenceInv'
  BY <1>6 DEF PresenceInv, PresenceTypes, Loaded, Swaps, HaveClaimed, Begins,
       OneOwner, PublishedExact, CurrentOwner, Claimed,
       OwnerSteps, Swapping, Drop, GoesTo, branches
<1>7. CASE Tick
  BY <1>7 DEF PresenceInv, PresenceTypes, Loaded, Swaps, HaveClaimed, Begins,
       OneOwner, PublishedExact, CurrentOwner, Claimed,
       Tick, presence, branches
<1>8. CASE UNCHANGED presenceVars
  BY <1>8 DEF PresenceInv, PresenceTypes, Loaded, Swaps, HaveClaimed, Begins,
       OneOwner, PublishedExact, CurrentOwner, Claimed,
       presenceVars, presence, branches
<1> QED BY <1>1, <1>2, <1>3, <1>4, <1>5, <1>6, <1>7, <1>8 DEF PresenceNext

\* The invariant holds in every behaviour.
LEMMA PresenceAlways == PresenceSpec => []PresenceInv
BY PresenceBegins, PresenceSteps, PTL DEF PresenceSpec

\* Every owner has a lifetime of its own and only the latest is published: a predecessor that
\* is still ending never replaces what its successor published (BranchPresence::publish).
THEOREM LatestOwnerPublishes == PresenceSpec => []OneOwner
<1>1. PresenceInv => OneOwner
  BY DEF PresenceInv
<1> QED BY <1>1, PresenceAlways, PTL

\* Between its steps the current owner's published membership is the one it keeps, and an
\* owner that ended leaves nothing behind (OwnedBranches::admit, expire and drop).
THEOREM ObserversSeeOwner == PresenceSpec => []PublishedExact
<1>1. PresenceInv => PublishedExact
  BY DEF PresenceInv
<1> QED BY <1>1, PresenceAlways, PTL

-----------------------------------------------------------------------------
(* The observation that a node's graph has drained, on any finite graph,     *)
(* with any messages and whatever they wait for.  Counts are read one after  *)
(* the other; what makes them one picture is that nothing was admitted       *)
(* between the first and the last of them.                                   *)
\* Any finite graph, with any messages on any paths through it.
Graph ==
    /\ IsFiniteSet(GraphNodes) /\ IsFiniteSet(Messages) /\ "none" \notin GraphNodes
    /\ Path \in [Messages -> Seq(GraphNodes)] /\ \A m \in Messages : Len(Path[m]) > 0
    /\ Needs \in [Messages -> SUBSET Messages]
    /\ Generated \subseteq Messages /\ Parked \subseteq Messages /\ Generated \cap Parked = {}

\* Messages are at places of nodes of their paths.
Placed ==
    /\ at \in [Messages -> Places]
    /\ hop \in [Messages -> Nat] /\ \A m \in Messages : hop[m] \in 1..Len(Path[m])
    /\ waited \subseteq Messages
Numbers ==
    /\ admitted \in [GraphNodes -> Nat] /\ handedOn \in [GraphNodes -> Nat]
    /\ queued \in [GraphNodes -> Int] /\ owner \in [GraphNodes -> BOOLEAN]
    /\ guard \in [GraphNodes -> Nat] /\ shown \in [GraphNodes -> Nat]
Works ==
    /\ task \in [GraphNodes -> [step : Steps, todo : SUBSET Messages, flushes : BOOLEAN]]
    /\ flush \in [GraphNodes -> {"none", "available", "claimed"}]
GraphTypes == Placed /\ Numbers /\ Works

\* A relay holds what it admitted and has not handed on; a queue is as long as it says.
Counted ==
    \A n \in GraphNodes :
      /\ admitted[n] = handedOn[n] + Cardinality(In(n, "relay")) + (IF owner[n] THEN 1 ELSE 0)
      /\ queued[n] = Cardinality(In(n, "queue"))

\* A task has the message it took in hand, counted, or looks at parked messages of its own.
NodeTask(n) ==
    /\ task[n].step \in {"take", "execute"} =>
         /\ guard[n] = 1
         /\ \E m \in Messages :
              /\ task[n].todo = {m} /\ Here(m) = n
              /\ at[m] = IF task[n].step = "take" THEN "queue" ELSE "node"
    /\ task[n].step = "retry" =>
         \A m \in task[n].todo : m \in Messages /\ Here(m) = n /\ at[m] = "parked"
    /\ flush[n] = "claimed" => task[n].flushes /\ task[n].step \in {"retry", "settle", "end"}
MessageTask(m) ==
    /\ at[m] = "node" => task[Here(m)].step = "execute" /\ task[Here(m)].todo = {m}
    /\ at[m] = "out" => hop[m] # Len(Path[m])
Tasks == (\A n \in GraphNodes : NodeTask(n)) /\ (\A m \in Messages : MessageTask(m))

Showing(n) == guard[n] # 0 \/ shown[n] # 0

\* A message that has to wait is known to have waited, and goes on once its state is there; the
\* outputs of one that never waited are counted.
Waited(m) ==
    /\ at[m] = "parked" => m \in waited
    /\ m \in waited /\ at[m] # "parked" => Ready(m)
    /\ m \notin waited /\ at[m] = "out" => Showing(Here(m))
WaitsCounted == \A m \in Messages : Waited(m)

\* The node still has to finish the flush it was asked for, which takes m with it.
Flushes(n, m) ==
    \/ flush[n] = "available"
    \/ /\ flush[n] = "claimed" /\ task[n].step \in {"retry", "settle"}
       /\ at[m] = "parked" => task[n].step = "retry" /\ m \in task[n].todo

\* What a confirming generation owes can go on, and until the node's flush is done it may be
\* parked there or among outputs that are not counted.
Owing(m) ==
    /\ m \in Messages /\ at[m] # "source" /\ Ready(m)
    /\ at[m] = "parked" => Flushes(Here(m), m)
    /\ at[m] = "out" => Showing(Here(m)) \/ Flushes(Here(m), m)
Owes == progress = "confirming" => \A m \in owed : Owing(m)

\* The stages of an observation that follow the look at the flushes, and at the source.
Flushed == {"before", "source", "acks", "relays", "queue", "nodes", "after"}
Sourced == {"acks", "relays", "queue", "nodes", "after"}

\* Once the intake is closed a generator that was seen idle produces nothing.
IntakeClosed ==
    /\ observing \in ObservingStages /\ left \subseteq GraphNodes
    /\ progress = "running" => observing = "rest"
    /\ progress # "running" => intake = "closed"
    /\ observing # "rest" => progress \in {"draining", "confirming"}
    /\ observing = "rest" => ~visible
    /\ generator \in {"paused", "decided", "active", "produce", "stopped"}
    /\ intake \in {"open", "closed"} /\ visible \in BOOLEAN /\ owing \in BOOLEAN
    /\ progress \in {"running", "draining", "confirming", "quiescent", "abandoned"}
    /\ (observing \in Sourced /\ ~visible) \/ progress \in {"confirming", "quiescent"} =>
         generator # "produce"

\* A confirming observation that saw no flush owing saw every flush done.
FlushesDone ==
    progress = "confirming" /\ ~owing =>
      /\ observing = "flushes" => \A n \in GraphNodes \ left : flush[n] = "none"
      /\ observing \in Flushed => \A n \in GraphNodes : flush[n] = "none"

\* The messages that are counted wherever they are while they move.
Sure(m) == m \notin waited \/ (progress = "confirming" /\ ~owing /\ m \in owed)

\* Nothing was admitted since the totals were read, where they have not been read again.
Still == \A n \in (IF observing = "after" THEN left ELSE GraphNodes) : admitted[n] = before[n]

Behind == {n \in GraphNodes : n \notin left /\ ~(reading # NoRead /\ reading.relay = n)}
Emptied(n) == \A m \in Messages : Here(m) = n => at[m] \notin {"relay", "queue"}

\* What an observation that has shown nothing knows, unless something was admitted meanwhile.
Reading ==
    /\ before \in [GraphNodes -> Nat]
    /\ reading # NoRead => reading.relay \in GraphNodes /\ reading.relay \notin left
                           /\ reading.handed \in Nat
                           /\ reading.handed <= handedOn[reading.relay]
    /\ reading # NoRead => observing \in {"relays", "queue"} /\ ~visible
    /\ observing = "queue" => reading # NoRead
    /\ observing = "before" => \A n \in GraphNodes \ left : before[n] <= admitted[n]
    /\ observing \in Flushed \ {"before"} => \A n \in GraphNodes : before[n] <= admitted[n]
    /\ ~visible /\ Still =>
         /\ observing \in {"relays", "queue"} => \A n \in Behind : Emptied(n)
         /\ observing = "queue" =>
              \A m \in Messages : Here(m) = reading.relay => at[m] # "relay"
         /\ observing = "nodes" =>
              /\ \A n \in GraphNodes : Emptied(n)
              /\ \A m \in Messages :
                   Sure(m) /\ Here(m) \notin left => at[m] \notin {"node", "out"}
         /\ observing = "after" => \A m \in Messages : Sure(m) => ~Moving(m)

\* What moved as the observation began has left its source.
Held == /\ owed \subseteq Messages /\ carried \subseteq Messages
        /\ \A m \in carried : at[m] # "source"

\* A domain found quiescent stays so.
Quiet ==
    progress = "quiescent" =>
      /\ \A m \in owed : m \in Messages /\ at[m] = "done"
      /\ \A m \in Messages : Moving(m) => m \in waited

DrainInv == /\ GraphTypes /\ Counted /\ Tasks /\ WaitsCounted /\ Owes
            /\ IntakeClosed /\ FlushesDone /\ Reading /\ Held /\ Quiet

-----------------------------------------------------------------------------
\* The messages at a place of a node can be counted.
LEMMA InFinite ==
    ASSUME Graph, NEW n, NEW place
    PROVE  /\ IsFiniteSet(In(n, place)) /\ Cardinality(In(n, place)) \in Nat
           /\ Cardinality(In(n, place)) = 0 <=> In(n, place) = {}
<1>1. In(n, place) \subseteq Messages
  BY DEF In
<1>2. IsFiniteSet(In(n, place))
  BY <1>1, FS_Subset DEF Graph
<1> QED
  BY <1>2, FS_CardinalityType, FS_EmptySet

\* Where a message is, is a node.
LEMMA HereIn ==
    ASSUME Graph, GraphTypes, NEW m \in Messages
    PROVE  Here(m) \in GraphNodes
BY DEF Graph, GraphTypes, Placed, Here

\* A set with one element more or less.
LEMMA OneMore ==
    ASSUME NEW S, NEW T, IsFiniteSet(S), NEW x, x \notin S, T = S \cup {x}
    PROVE  Cardinality(T) = Cardinality(S) + 1
BY FS_AddElement
LEMMA OneLess ==
    ASSUME NEW S, NEW T, IsFiniteSet(S), NEW x \in S, T = S \ {x}
    PROVE  Cardinality(T) = Cardinality(S) - 1
BY FS_RemoveElement

\* A message changes its place at its node.
LEMMA MovesTo ==
    ASSUME Graph, GraphTypes, NEW m \in Messages, NEW place, place # at[m],
           at' = [at EXCEPT ![m] = place], hop' = hop, NEW k \in GraphNodes
    PROVE  Cardinality(In(k, place)') =
             Cardinality(In(k, place)) + (IF k = Here(m) THEN 1 ELSE 0)
<1>1. CASE k = Here(m)
  <2>1. In(k, place)' = In(k, place) \cup {m} /\ m \notin In(k, place)
    BY <1>1 DEF In, Here, GraphTypes, Placed
  <2> QED
    BY <1>1, <2>1, InFinite, OneMore
<1>2. CASE k # Here(m)
  <2>1. In(k, place)' = In(k, place)
    BY <1>2 DEF In, Here, GraphTypes, Placed
  <2> QED
    BY <1>2, <2>1, InFinite
<1> QED
  BY <1>1, <1>2

\* One fewer is where it was.
LEMMA MovesFrom ==
    ASSUME Graph, GraphTypes, NEW m \in Messages, NEW place, place # at[m],
           at' = [at EXCEPT ![m] = place], hop' = hop, NEW k \in GraphNodes, NEW from, at[m] = from
    PROVE  Cardinality(In(k, from)') =
             Cardinality(In(k, from)) - (IF k = Here(m) THEN 1 ELSE 0)
<1>1. CASE k = Here(m)
  <2>1. In(k, from)' = In(k, from) \ {m} /\ m \in In(k, from)
    BY <1>1 DEF In, Here, GraphTypes, Placed
  <2> QED
    BY <1>1, <2>1, InFinite, OneLess
<1>2. CASE k # Here(m)
  <2>1. In(k, from)' = In(k, from)
    BY <1>2 DEF In, Here, GraphTypes, Placed
  <2> QED
    BY <1>2, <2>1, InFinite
<1> QED
  BY <1>1, <1>2

\* Other places keep their messages.
LEMMA MovesPast ==
    ASSUME Graph, GraphTypes, NEW m \in Messages, NEW place, NEW other, other # place,
           other # at[m], at' = [at EXCEPT ![m] = place], hop' = hop, NEW k
    PROVE  In(k, other)' = In(k, other)
BY DEF In, Here, GraphTypes, Placed

\* A message goes to the relay of the next node of its path.
LEMMA Passed ==
    ASSUME Graph, GraphTypes, NEW m \in Messages, at[m] = "out", hop[m] # Len(Path[m]),
           at' = [at EXCEPT ![m] = "relay"], hop' = [hop EXCEPT ![m] = @ + 1], NEW k \in GraphNodes
    PROVE  /\ Cardinality(In(k, "relay")') =
                Cardinality(In(k, "relay")) + (IF k = Path[m][hop[m] + 1] THEN 1 ELSE 0)
           /\ Cardinality(In(k, "queue")') = Cardinality(In(k, "queue"))
           /\ hop[m] + 1 \in 1..Len(Path[m]) /\ Path[m][hop[m] + 1] \in GraphNodes
<1>1. hop[m] + 1 \in 1..Len(Path[m]) /\ Path[m][hop[m] + 1] \in GraphNodes
  <2>1. Path[m] \in Seq(GraphNodes) /\ hop[m] \in 1..Len(Path[m])
    BY DEF Graph, GraphTypes, Placed
  <2>2. hop[m] + 1 \in 1..Len(Path[m])
    BY <2>1
  <2> QED
    BY <2>1, <2>2
<1>2. In(k, "queue")' = In(k, "queue")
  BY DEF In, Here, GraphTypes, Placed
<1>3. CASE k = Path[m][hop[m] + 1]
  <2>1. In(k, "relay")' = In(k, "relay") \cup {m} /\ m \notin In(k, "relay")
    BY <1>3 DEF In, Here, GraphTypes, Placed
  <2>2. Cardinality(In(k, "relay")') = Cardinality(In(k, "relay")) + 1
    BY <2>1, InFinite, OneMore
  <2> QED
    BY <1>1, <1>2, <1>3, <2>2
<1>4. CASE k # Path[m][hop[m] + 1]
  <2>1. In(k, "relay")' = In(k, "relay")
    BY <1>4 DEF In, Here, GraphTypes, Placed
  <2> QED
    BY <1>1, <1>2, <1>4, <2>1, InFinite
<1> QED
  BY <1>3, <1>4

\* State that is there stays there.
LEMMA ReadyStays ==
    ASSUME Graph, GraphTypes, NEW m \in Messages, at[m] # "done", NEW place,
           at' = [at EXCEPT ![m] = place], NEW k \in Messages, Ready(k)
    PROVE  Ready(k)'
BY DEF Graph, GraphTypes, Placed, Ready

\* The next step of a task keeps what it has in hand.
LEMMA NextStep ==
    ASSUME GraphTypes, NEW n \in GraphNodes, NEW s \in Steps, task' = [task EXCEPT ![n].step = s]
    PROVE  /\ task' \in [GraphNodes -> [step : Steps, todo : SUBSET Messages, flushes : BOOLEAN]]
           /\ task'[n].step = s /\ task'[n].todo = task[n].todo
           /\ task'[n].flushes = task[n].flushes
           /\ \A k \in GraphNodes : k # n => task'[k] = task[k]
BY DEF GraphTypes, Works

\* Another operation of a task.
LEMMA NextOperation ==
    ASSUME GraphTypes, NEW n \in GraphNodes, NEW s \in Steps, NEW hand \in SUBSET Messages,
           NEW f \in BOOLEAN,
           task' = [task EXCEPT ![n] = [step |-> s, todo |-> hand, flushes |-> f]]
    PROVE  /\ task' \in [GraphNodes -> [step : Steps, todo : SUBSET Messages, flushes : BOOLEAN]]
           /\ task'[n].step = s /\ task'[n].todo = hand /\ task'[n].flushes = f
           /\ \A k \in GraphNodes : k # n => task'[k] = task[k]
BY DEF GraphTypes, Works

\* Messages stay at their nodes until they are passed on.
LEMMA SameHere ==
    ASSUME hop' = hop
    PROVE  \A m \in Messages : Here(m)' = Here(m)
BY DEF Here

\* What the graph keeps by itself.
GraphInv == GraphTypes /\ Counted /\ Tasks /\ WaitsCounted

graphState == <<graph, relays, counts, task, flush, waited>>

\* What the graph promises depends on the graph alone.
LEMMA GraphUnmoved ==
    ASSUME GraphInv, UNCHANGED graphState
    PROVE  GraphInv'
<1> USE DEF graphState, graph, relays, counts
<1>1. GraphTypes' BY DEF GraphInv, GraphTypes, Placed, Numbers, Works
<1>2. Counted' BY DEF GraphInv, Counted, In, Here
<1>3. Tasks' BY DEF GraphInv, Tasks, NodeTask, MessageTask, Here
<1>4. WaitsCounted' BY DEF GraphInv, WaitsCounted, Waited, Here, Ready, Showing
<1> QED
  BY <1>1, <1>2, <1>3, <1>4 DEF GraphInv

\* A relay's owner gives a batch to the queue: one fewer in the relay, which still counts it.
LEMMA DeliverKeeps ==
    ASSUME Graph, GraphInv, NEW n \in GraphNodes, Deliver(n)
    PROVE  GraphInv'
<1>1. PICK m \in In(n, "relay") : at' = [at EXCEPT ![m] = "queue"]
  BY DEF Deliver
<1>2. m \in Messages /\ at[m] = "relay" /\ Here(m) = n
  BY <1>1 DEF In
<1>3. /\ hop' = hop /\ admitted' = admitted /\ handedOn' = handedOn /\ guard' = guard
      /\ shown' = shown /\ task' = task /\ flush' = flush /\ waited' = waited /\ ~owner[n]
      /\ queued' = [queued EXCEPT ![n] = @ + 1] /\ owner' = [owner EXCEPT ![n] = TRUE]
  BY DEF Deliver, counts, history
<1>4. GraphTypes'
  BY <1>1, <1>2, <1>3 DEF GraphInv, GraphTypes, Placed, Numbers, Works, Places
<1>5. ASSUME NEW k \in GraphNodes
      PROVE  /\ Cardinality(In(k, "relay")') =
                  Cardinality(In(k, "relay")) - (IF k = n THEN 1 ELSE 0)
             /\ Cardinality(In(k, "queue")') =
                  Cardinality(In(k, "queue")) + (IF k = n THEN 1 ELSE 0)
  <2>1. GraphTypes
    BY DEF GraphInv
  <2>2. Cardinality(In(k, "queue")') =
          Cardinality(In(k, "queue")) + (IF k = Here(m) THEN 1 ELSE 0)
    BY <1>1, <1>2, <1>3, <2>1, MovesTo
  <2>3. Cardinality(In(k, "relay")') =
          Cardinality(In(k, "relay")) - (IF k = Here(m) THEN 1 ELSE 0)
    BY <1>1, <1>2, <1>3, <2>1, MovesFrom
  <2> QED
    BY <1>2, <2>2, <2>3
<1>6. Counted'
  <2> SUFFICES ASSUME NEW k \in GraphNodes
               PROVE  /\ admitted'[k] = handedOn'[k] + Cardinality(In(k, "relay")')
                                          + (IF owner'[k] THEN 1 ELSE 0)
                      /\ queued'[k] = Cardinality(In(k, "queue")')
    BY DEF Counted
  <2>1. Cardinality(In(k, "relay")) \in Nat /\ Cardinality(In(k, "queue")) \in Nat
    BY InFinite
  <2> QED
    BY <1>3, <1>5, <2>1 DEF GraphInv, GraphTypes, Numbers, Counted
<1>7. \A j \in Messages : Here(j)' = Here(j)
  BY <1>3, SameHere
<1>8. Tasks'
  BY <1>1, <1>2, <1>3, <1>7 DEF GraphInv, GraphTypes, Placed, Tasks, NodeTask, MessageTask
<1>9. WaitsCounted'
  BY <1>1, <1>2, <1>3, <1>7, ReadyStays DEF GraphInv, GraphTypes, Placed, WaitsCounted, Waited,
       Showing
<1> QED
  BY <1>4, <1>6, <1>8, <1>9 DEF GraphInv

\* The relay lets the batch go, and counts it as handed on.
LEMMA HandOnKeeps ==
    ASSUME Graph, GraphInv, NEW n \in GraphNodes, HandOn(n)
    PROVE  GraphInv'
<1>1. /\ at' = at /\ hop' = hop /\ admitted' = admitted /\ queued' = queued /\ guard' = guard
      /\ shown' = shown /\ task' = task /\ flush' = flush /\ waited' = waited /\ owner[n]
      /\ handedOn' = [handedOn EXCEPT ![n] = @ + 1] /\ owner' = [owner EXCEPT ![n] = FALSE]
  BY DEF HandOn, counts, history, graph
<1>2. GraphTypes'
  BY <1>1 DEF GraphInv, GraphTypes, Placed, Numbers, Works
<1>3. Tasks'
  BY <1>1 DEF GraphInv, Tasks, NodeTask, MessageTask, Here
<1>4. WaitsCounted'
  BY <1>1 DEF GraphInv, WaitsCounted, Waited, Here, Showing, Ready
<1>5. Counted'
  <2> SUFFICES ASSUME NEW k \in GraphNodes
               PROVE  /\ admitted'[k] = handedOn'[k] + Cardinality(In(k, "relay")')
                                          + (IF owner'[k] THEN 1 ELSE 0)
                      /\ queued'[k] = Cardinality(In(k, "queue")')
    BY DEF Counted
  <2>1. Cardinality(In(k, "relay")) \in Nat /\ Cardinality(In(k, "queue")) \in Nat
    BY InFinite
  <2>2. In(k, "relay")' = In(k, "relay") /\ In(k, "queue")' = In(k, "queue")
    BY <1>1 DEF In, Here
  <2> QED
    BY <1>1, <2>1, <2>2 DEF GraphInv, GraphTypes, Numbers, Counted
<1> QED
  BY <1>2, <1>3, <1>4, <1>5 DEF GraphInv

\* A step of a node's task that leaves messages and relays alone.
LEMMA TaskKeeps ==
    ASSUME Graph, GraphInv, NEW n \in GraphNodes,
           Take(n) \/ Retry(n) \/ Claim(n) \/ Settle(n) \/ End(n)
    PROVE  GraphInv'
<1>1. /\ at' = at /\ hop' = hop /\ admitted' = admitted /\ queued' = queued
      /\ handedOn' = handedOn /\ owner' = owner /\ waited' = waited
  BY DEF Take, Retry, Claim, Settle, End, graph,
       relays, history
<1>2. Counted'
  BY <1>1 DEF GraphInv, Counted, In, Here
<1>3. /\ \A j \in Messages : Here(j)' = Here(j)
      /\ \A j \in Messages : Ready(j)' = Ready(j)
  BY <1>1, SameHere DEF Ready
<1>4. \A j \in Messages : Here(j) \in GraphNodes
  BY HereIn DEF GraphInv
<1>5. CASE Take(n)
  <2>1. PICK m \in In(n, "queue") :
          task' = [task EXCEPT ![n] = [step |-> "take", todo |-> {m}, flushes |-> FALSE]]
    BY <1>5 DEF Take
  <2>2. /\ guard' = [guard EXCEPT ![n] = 1] /\ shown' = shown /\ flush' = flush
        /\ task[n].step = "idle" /\ m \in Messages /\ at[m] = "queue" /\ Here(m) = n
    BY <1>5, <2>1 DEF Take, In
  <2>3. /\ task' \in [GraphNodes -> [step : Steps, todo : SUBSET Messages, flushes : BOOLEAN]]
        /\ task'[n].step = "take" /\ task'[n].todo = {m} /\ task'[n].flushes = FALSE
        /\ \A k \in GraphNodes : k # n => task'[k] = task[k]
    BY <2>1, <2>2, NextOperation DEF GraphInv, Steps
  <2>4. GraphTypes'
    BY <1>1, <2>2, <2>3 DEF GraphInv, GraphTypes, Placed, Numbers, Works
  <2>5. Tasks'
    <3>1. ASSUME NEW k \in GraphNodes PROVE NodeTask(k)'
      <4>1. CASE k = n
        BY <1>1, <1>3, <2>2, <2>3, <4>1 DEF GraphInv, GraphTypes, Numbers, Tasks, NodeTask
      <4>2. CASE k # n
        BY <1>1, <1>3, <2>2, <2>3, <4>2 DEF GraphInv, GraphTypes, Numbers, Tasks, NodeTask
      <4> QED
        BY <4>1, <4>2
    <3>2. ASSUME NEW j \in Messages PROVE MessageTask(j)'
      BY <1>1, <1>3, <1>4, <2>2, <2>3 DEF GraphInv, Tasks, MessageTask
    <3> QED
      BY <3>1, <3>2 DEF Tasks
  <2>6. WaitsCounted'
    BY <1>1, <1>3, <1>4, <2>2 DEF GraphInv, GraphTypes, Numbers, WaitsCounted, Waited, Showing
  <2> QED
    BY <1>2, <2>4, <2>5, <2>6 DEF GraphInv
<1>6. CASE Retry(n) \/ Claim(n)
  <2>1. PICK f \in BOOLEAN :
          /\ task' = [task EXCEPT ![n] =
                        [step |-> "retry", todo |-> In(n, "parked"), flushes |-> f]]
          /\ flush' = IF f THEN [flush EXCEPT ![n] = "claimed"] ELSE flush
    BY <1>6 DEF Retry, Claim
  <2>2. /\ guard' = guard /\ shown' = shown /\ task[n].step = "idle"
        /\ In(n, "parked") \subseteq Messages
        /\ \A m \in In(n, "parked") : m \in Messages /\ Here(m) = n /\ at[m] = "parked"
    BY <1>6 DEF Retry, Claim, counts, In
  <2>3. /\ task' \in [GraphNodes -> [step : Steps, todo : SUBSET Messages, flushes : BOOLEAN]]
        /\ task'[n].step = "retry" /\ task'[n].todo = In(n, "parked") /\ task'[n].flushes = f
        /\ \A k \in GraphNodes : k # n => task'[k] = task[k]
    BY <2>1, <2>2, NextOperation DEF GraphInv, Steps
  <2>4. GraphTypes'
    BY <1>1, <2>1, <2>2, <2>3 DEF GraphInv, GraphTypes, Placed, Numbers, Works
  <2>5. Tasks'
    BY <1>1, <1>3, <1>4, <2>1, <2>2, <2>3
       DEF GraphInv, GraphTypes, Works, Tasks, NodeTask, MessageTask
  <2>6. WaitsCounted'
    BY <1>1, <1>3, <1>4, <2>2 DEF GraphInv, WaitsCounted, Waited, Showing
  <2> QED
    BY <1>2, <2>4, <2>5, <2>6 DEF GraphInv
<1>7. /\ Cardinality(In(n, "out")) \in Nat
      /\ \A m \in Messages :
           Here(m) = n /\ at[m] = "out" => Cardinality(In(n, "out")) > 0
  <2>1. ASSUME NEW m \in Messages, Here(m) = n, at[m] = "out"
        PROVE  Cardinality(In(n, "out")) > 0
    <3>1. m \in In(n, "out")
      BY <2>1 DEF In
    <3> QED
      BY <3>1, InFinite
  <2> QED
    BY <2>1, InFinite
<1>8. CASE Settle(n)
  <2>1. /\ guard' = guard /\ flush' = flush /\ task[n].step = "settle"
        /\ shown' = [shown EXCEPT ![n] = IF Cardinality(In(n, "out")) > @
                                         THEN Cardinality(In(n, "out")) ELSE @]
        /\ task' = [task EXCEPT ![n].step = "end"]
    BY <1>8 DEF Settle, Does
  <2>2. /\ task' \in [GraphNodes -> [step : Steps, todo : SUBSET Messages, flushes : BOOLEAN]]
        /\ task'[n].step = "end" /\ task'[n].todo = task[n].todo
        /\ task'[n].flushes = task[n].flushes
        /\ \A k \in GraphNodes : k # n => task'[k] = task[k]
    BY <2>1, NextStep DEF GraphInv, Steps
  <2>3. GraphTypes'
    BY <1>1, <1>7, <2>1, <2>2 DEF GraphInv, GraphTypes, Placed, Numbers, Works
  <2>4. Tasks'
    BY <1>1, <1>3, <1>4, <2>1, <2>2 DEF GraphInv, Tasks, NodeTask, MessageTask
  <2>5. WaitsCounted'
    BY <1>1, <1>3, <1>4, <1>7, <2>1 DEF GraphInv, GraphTypes, Numbers, WaitsCounted, Waited,
         Showing
  <2> QED
    BY <1>2, <2>3, <2>4, <2>5 DEF GraphInv
<1>9. CASE End(n)
  <2>1. /\ guard' = [guard EXCEPT ![n] = 0] /\ task[n].step = "end"
        /\ shown' = [shown EXCEPT ![n] = Cardinality(In(n, "out"))]
        /\ task' = [task EXCEPT ![n] = [step |-> "idle", todo |-> {}, flushes |-> FALSE]]
        /\ flush' = IF task[n].flushes /\ flush[n] = "claimed"
                    THEN [flush EXCEPT ![n] = "none"] ELSE flush
    BY <1>9 DEF End, Idle
  <2>2. /\ task' \in [GraphNodes -> [step : Steps, todo : SUBSET Messages, flushes : BOOLEAN]]
        /\ task'[n].step = "idle" /\ task'[n].todo = {} /\ task'[n].flushes = FALSE
        /\ \A k \in GraphNodes : k # n => task'[k] = task[k]
    BY <2>1, NextOperation DEF GraphInv, Steps
  <2>3. GraphTypes'
    BY <1>1, <1>7, <2>1, <2>2 DEF GraphInv, GraphTypes, Placed, Numbers, Works
  <2>4. Tasks'
    BY <1>1, <1>3, <1>4, <2>1, <2>2
       DEF GraphInv, GraphTypes, Numbers, Works, Tasks, NodeTask, MessageTask
  <2>5. WaitsCounted'
    BY <1>1, <1>3, <1>4, <1>7, <2>1 DEF GraphInv, GraphTypes, Numbers, WaitsCounted, Waited,
         Showing
  <2> QED
    BY <1>2, <2>3, <2>4, <2>5 DEF GraphInv
<1> QED
  BY <1>5, <1>6, <1>8, <1>9

\* What a task took is the one message it has in hand.
LEMMA TakenMoves ==
    ASSUME GraphInv, NEW n \in GraphNodes, Taken(n)
    PROVE  \E m \in Messages : /\ at[m] = "queue" /\ Here(m) = n /\ task[n].todo = {m}
                               /\ at' = [at EXCEPT ![m] = "node"] /\ guard[n] = 1
<1>1. PICK m \in Messages : /\ task[n].todo = {m} /\ guard[n] = 1 /\ Here(m) = n
                            /\ at[m] = "queue"
  BY DEF Taken, GraphInv, Tasks, NodeTask
<1>2. at' = [at EXCEPT ![m] = "node"]
  BY <1>1 DEF Taken, GraphInv, GraphTypes, Placed
<1> QED
  BY <1>1, <1>2

\* The batch leaves the queue for its node, which has counted it.
LEMMA TakenKeeps ==
    ASSUME Graph, GraphInv, NEW n \in GraphNodes, Taken(n)
    PROVE  GraphInv'
<1>1. PICK m \in Messages : /\ at[m] = "queue" /\ Here(m) = n /\ task[n].todo = {m}
                            /\ at' = [at EXCEPT ![m] = "node"] /\ guard[n] = 1
  BY TakenMoves
<1>2. /\ hop' = hop /\ admitted' = admitted /\ handedOn' = handedOn /\ guard' = guard
      /\ shown' = shown /\ flush' = flush /\ waited' = waited /\ owner' = owner
      /\ queued' = [queued EXCEPT ![n] = @ - 1]
      /\ task[n].step = "take" /\ task' = [task EXCEPT ![n].step = "execute"]
  BY DEF Taken, Does, counts, history
<1>3. /\ task' \in [GraphNodes -> [step : Steps, todo : SUBSET Messages, flushes : BOOLEAN]]
      /\ task'[n].step = "execute" /\ task'[n].todo = task[n].todo
      /\ task'[n].flushes = task[n].flushes
      /\ \A k \in GraphNodes : k # n => task'[k] = task[k]
  BY <1>2, NextStep DEF GraphInv, Steps
<1>4. GraphTypes'
  <2>1. Placed'
    BY <1>1, <1>2 DEF GraphInv, GraphTypes, Placed, Places
  <2>2. Numbers'
    BY <1>2 DEF GraphInv, GraphTypes, Numbers
  <2>3. Works'
    BY <1>2, <1>3 DEF GraphInv, GraphTypes, Works
  <2> QED
    BY <2>1, <2>2, <2>3 DEF GraphTypes
<1>5. Counted'
  <2> SUFFICES ASSUME NEW k \in GraphNodes
               PROVE  /\ admitted'[k] = handedOn'[k] + Cardinality(In(k, "relay")')
                                          + (IF owner'[k] THEN 1 ELSE 0)
                      /\ queued'[k] = Cardinality(In(k, "queue")')
    BY DEF Counted
  <2>1. GraphTypes
    BY DEF GraphInv
  <2>2. /\ Cardinality(In(k, "relay")') = Cardinality(In(k, "relay"))
        /\ Cardinality(In(k, "queue")') =
             Cardinality(In(k, "queue")) - (IF k = n THEN 1 ELSE 0)
    <3>1. In(k, "relay")' = In(k, "relay")
      BY <1>1, <1>2, <2>1, MovesPast
    <3>2. Cardinality(In(k, "queue")') =
            Cardinality(In(k, "queue")) - (IF k = Here(m) THEN 1 ELSE 0)
      BY <1>1, <1>2, <2>1, MovesFrom
    <3> QED
      BY <1>1, <3>1, <3>2
  <2> QED
    BY <1>2, <2>2 DEF GraphInv, GraphTypes, Numbers, Counted
<1>6. /\ \A j \in Messages : Here(j)' = Here(j)
      /\ \A j \in Messages : Here(j) \in GraphNodes
  BY <1>2, SameHere, HereIn DEF GraphInv
<1>7. Tasks'
  <2>1. ASSUME NEW k \in GraphNodes PROVE NodeTask(k)'
    <3>1. CASE k = n
      <4>1. at'[m] = "node" /\ Here(m)' = n /\ guard'[n] = 1 /\ task'[n].todo = {m}
        BY <1>1, <1>2, <1>3, <1>6 DEF GraphInv, GraphTypes, Placed
      <4>2. flush'[n] # "claimed"
        BY <1>2 DEF GraphInv, Tasks, NodeTask
      <4> QED
        BY <1>3, <3>1, <4>1, <4>2 DEF NodeTask
    <3>2. CASE k # n
      <4>1. /\ task'[k] = task[k] /\ guard'[k] = guard[k] /\ flush'[k] = flush[k]
            /\ \A j \in Messages : j # m => at'[j] = at[j]
        BY <1>1, <1>2, <1>3, <3>2 DEF GraphInv, GraphTypes, Placed, Works
      <4>2. NodeTask(k) /\ Here(m) # k
        BY <1>1, <1>2, <3>2 DEF GraphInv, Tasks
      <4>3. \A j \in Messages : Here(j) = k => Here(j)' = k /\ at'[j] = at[j]
        BY <1>6, <4>1, <4>2
      <4>4. task'[k].step \in {"take", "execute"} =>
              /\ guard'[k] = 1
              /\ \E j \in Messages :
                   /\ task'[k].todo = {j} /\ Here(j)' = k
                   /\ at'[j] = IF task'[k].step = "take" THEN "queue" ELSE "node"
        BY <4>1, <4>2, <4>3 DEF NodeTask
      <4>5. task'[k].step = "retry" =>
              \A j \in task'[k].todo :
                j \in Messages /\ Here(j)' = k /\ at'[j] = "parked"
        BY <4>1, <4>2, <4>3 DEF NodeTask
      <4>6. flush'[k] = "claimed" =>
              task'[k].flushes /\ task'[k].step \in {"retry", "settle", "end"}
        BY <4>1, <4>2 DEF NodeTask
      <4> QED
        BY <4>4, <4>5, <4>6 DEF NodeTask
    <3> QED
      BY <3>1, <3>2
  <2>2. ASSUME NEW j \in Messages PROVE MessageTask(j)'
    BY <1>1, <1>2, <1>3, <1>6 DEF GraphInv, GraphTypes, Placed, Tasks, MessageTask
  <2> QED
    BY <2>1, <2>2 DEF Tasks
<1>8. WaitsCounted'
  BY <1>1, <1>2, <1>6, ReadyStays DEF GraphInv, GraphTypes, Placed, WaitsCounted, Waited,
       Showing
<1> QED
  BY <1>4, <1>5, <1>7, <1>8 DEF GraphInv

\* A node parks a message whose state is missing, and ends or forwards any other.
LEMMA EvaluatedIs ==
    ASSUME NEW m
    PROVE  /\ Evaluated(m) \in {"parked", "done", "out"}
           /\ Evaluated(m) = "parked" <=> ~Ready(m)
           /\ Evaluated(m) = "out" => hop[m] # Len(Path[m])
BY DEF Evaluated

\* A node evaluates the one message it took.
LEMMA ExecuteMoves ==
    ASSUME GraphInv, NEW n \in GraphNodes, Execute(n)
    PROVE  \E m \in Messages :
             /\ at[m] = "node" /\ Here(m) = n /\ guard[n] = 1
             /\ at' = [at EXCEPT ![m] = Evaluated(m)]
             /\ waited' = IF Ready(m) THEN waited ELSE waited \cup {m}
<1>1. PICK j \in Messages : /\ task[n].todo = {j} /\ guard[n] = 1
                            /\ Here(j) = n /\ at[j] = "node"
  BY DEF Execute, GraphInv, Tasks, NodeTask
<1>2. PICK m \in task[n].todo : /\ at' = [at EXCEPT ![m] = Evaluated(m)]
                                /\ waited' = IF Ready(m) THEN waited ELSE waited \cup {m}
  BY DEF Execute
<1>3. m = j
  BY <1>1, <1>2
<1> QED
  BY <1>1, <1>2, <1>3

\* A message that has to wait is parked, and what goes on is counted by the guard.
LEMMA ExecuteKeeps ==
    ASSUME Graph, GraphInv, NEW n \in GraphNodes, Execute(n)
    PROVE  GraphInv'
<1>1. PICK m \in Messages :
        /\ at[m] = "node" /\ Here(m) = n /\ guard[n] = 1
        /\ at' = [at EXCEPT ![m] = Evaluated(m)]
        /\ waited' = IF Ready(m) THEN waited ELSE waited \cup {m}
  BY ExecuteMoves
<1>2. /\ hop' = hop /\ admitted' = admitted /\ handedOn' = handedOn /\ guard' = guard
      /\ shown' = shown /\ flush' = flush /\ queued' = queued /\ owner' = owner
      /\ task[n].step = "execute" /\ task' = [task EXCEPT ![n].step = "settle"]
  BY DEF Execute, Does, counts, relays
<1>3. /\ task' \in [GraphNodes -> [step : Steps, todo : SUBSET Messages, flushes : BOOLEAN]]
      /\ task'[n].step = "settle" /\ task'[n].todo = task[n].todo
      /\ task'[n].flushes = task[n].flushes
      /\ \A k \in GraphNodes : k # n => task'[k] = task[k]
  BY <1>2, NextStep DEF GraphInv, Steps
<1>4. /\ Evaluated(m) \in {"parked", "done", "out"}
      /\ (Evaluated(m) = "parked" <=> ~Ready(m))
      /\ Evaluated(m) = "out" => hop[m] # Len(Path[m])
  BY EvaluatedIs
<1>5. GraphTypes'
  <2>1. Placed'
    BY <1>1, <1>2, <1>4 DEF GraphInv, GraphTypes, Placed, Places
  <2>2. Numbers'
    BY <1>2 DEF GraphInv, GraphTypes, Numbers
  <2>3. Works'
    BY <1>2, <1>3 DEF GraphInv, GraphTypes, Works
  <2> QED
    BY <2>1, <2>2, <2>3 DEF GraphTypes
<1>6. Counted'
  <2>1. GraphTypes /\ Evaluated(m) # "relay" /\ Evaluated(m) # "queue"
    BY <1>4 DEF GraphInv
  <2>2. \A k \in GraphNodes :
          /\ In(k, "relay")' = In(k, "relay")
          /\ In(k, "queue")' = In(k, "queue")
    BY <1>1, <1>2, <2>1, MovesPast
  <2> QED
    BY <1>2, <2>2 DEF GraphInv, Counted
<1>7. /\ \A j \in Messages : Here(j)' = Here(j)
      /\ \A j \in Messages : Here(j) \in GraphNodes
  BY <1>2, SameHere, HereIn DEF GraphInv
<1>8. Tasks'
  <2>0. at'[m] = Evaluated(m) /\ \A j \in Messages : j # m => at'[j] = at[j]
    BY <1>1 DEF GraphInv, GraphTypes, Placed
  <2>1. ASSUME NEW k \in GraphNodes PROVE NodeTask(k)'
    <3>1. CASE k = n
      BY <1>2, <1>3, <3>1 DEF GraphInv, Tasks, NodeTask
    <3>2. CASE k # n
      BY <1>1, <1>2, <1>3, <1>7, <2>0, <3>2 DEF GraphInv, Tasks, NodeTask
    <3> QED
      BY <3>1, <3>2
  <2>2. ASSUME NEW j \in Messages PROVE MessageTask(j)'
    <3>1. CASE j = m
      BY <1>2, <1>4, <2>0, <3>1 DEF MessageTask
    <3>2. CASE j # m
      <4>1. at[j] = "node" => Here(j) # n
        BY <1>1, <3>2 DEF GraphInv, Tasks, MessageTask
      <4> QED
        BY <1>2, <1>3, <1>7, <2>0, <3>2, <4>1 DEF GraphInv, Tasks, MessageTask
    <3> QED
      BY <3>1, <3>2
  <2> QED
    BY <2>1, <2>2 DEF Tasks
<1>9. WaitsCounted'
  <2>1. ASSUME NEW j \in Messages, Ready(j) PROVE Ready(j)'
    BY <1>1, <2>1, ReadyStays DEF GraphInv
  <2> SUFFICES ASSUME NEW j \in Messages PROVE Waited(j)'
    BY DEF WaitsCounted
  <2>2. CASE j = m
    BY <1>1, <1>2, <1>4, <1>7, <2>1, <2>2 DEF GraphInv, GraphTypes, Placed, WaitsCounted,
         Waited, Showing
  <2>3. CASE j # m
    BY <1>1, <1>2, <1>7, <2>1, <2>3 DEF GraphInv, GraphTypes, Placed, WaitsCounted, Waited,
         Showing
  <2> QED
    BY <2>2, <2>3
<1> QED
  BY <1>5, <1>6, <1>8, <1>9 DEF GraphInv

\* What a task does stays as it is when the messages it has in hand change.
LEMMA TodoReplaced ==
    ASSUME NEW u, NEW t \in [step : Steps, todo : SUBSET Messages, flushes : BOOLEAN]
    PROVE  [t EXCEPT !.todo = u] = [step |-> t.step, todo |-> u, flushes |-> t.flushes]
  OBVIOUS

\* A task looks at one of the parked messages it has in hand.
LEMMA ReevaluateMoves ==
    ASSUME GraphInv, NEW n \in GraphNodes, Reevaluate(n), task[n].todo # {}
    PROVE  \E m \in Messages :
             /\ at[m] = "parked" /\ Here(m) = n /\ m \in task[n].todo
             /\ at' = [at EXCEPT ![m] = Evaluated(m)]
             /\ task' = [task EXCEPT ![n] = [step |-> "retry", todo |-> task[n].todo \ {m},
                                             flushes |-> task[n].flushes]]
<1>1. PICK m \in task[n].todo : /\ at' = [at EXCEPT ![m] = Evaluated(m)]
                                /\ task' = [task EXCEPT ![n].todo = @ \ {m}]
  BY DEF Reevaluate
<1>2. m \in Messages /\ Here(m) = n /\ at[m] = "parked" /\ task[n].step = "retry"
  BY <1>1 DEF Reevaluate, GraphInv, Tasks, NodeTask
<1>3. task[n] \in [step : Steps, todo : SUBSET Messages, flushes : BOOLEAN]
  BY DEF GraphInv, GraphTypes, Works
<1>4. [task[n] EXCEPT !.todo = @ \ {m}] =
        [step |-> "retry", todo |-> task[n].todo \ {m}, flushes |-> task[n].flushes]
  <2> DEFINE t == task[n]
  <2>1. t \in [step : Steps, todo : SUBSET Messages, flushes : BOOLEAN] /\ t.step = "retry"
    BY <1>2, <1>3
  <2> HIDE DEF t
  <2>2. [t EXCEPT !.todo = @ \ {m}] = [step |-> "retry", todo |-> t.todo \ {m}, flushes |-> t.flushes]
    BY <2>1, TodoReplaced
  <2> QED
    BY <2>2 DEF t
<1> QED
  BY <1>1, <1>2, <1>3, <1>4 DEF GraphInv, GraphTypes, Works

\* A parked message goes on only with its state there.
LEMMA ReevaluateKeeps ==
    ASSUME Graph, GraphInv, NEW n \in GraphNodes, Reevaluate(n)
    PROVE  GraphInv'
<1>1. /\ hop' = hop /\ admitted' = admitted /\ handedOn' = handedOn /\ guard' = guard
      /\ shown' = shown /\ flush' = flush /\ queued' = queued /\ owner' = owner
      /\ waited' = waited /\ task[n].step = "retry"
  BY DEF Reevaluate, counts, relays, history
<1>2. Numbers'
  BY <1>1 DEF GraphInv, GraphTypes, Numbers
<1>3. /\ \A j \in Messages : Here(j)' = Here(j)
      /\ \A j \in Messages : Here(j) \in GraphNodes
  BY <1>1, SameHere, HereIn DEF GraphInv
<1>4. CASE task[n].todo = {}
  <2>1. at' = at /\ task' = [task EXCEPT ![n].step = "settle"]
    BY <1>4 DEF Reevaluate, Does
  <2>2. /\ task' \in [GraphNodes -> [step : Steps, todo : SUBSET Messages, flushes : BOOLEAN]]
        /\ task'[n].step = "settle" /\ task'[n].todo = task[n].todo
        /\ task'[n].flushes = task[n].flushes
        /\ \A k \in GraphNodes : k # n => task'[k] = task[k]
    BY <2>1, NextStep DEF GraphInv, Steps
  <2>3. GraphTypes'
    BY <1>1, <1>2, <2>1, <2>2 DEF GraphInv, GraphTypes, Placed, Works
  <2>4. Counted'
    BY <1>1, <2>1 DEF GraphInv, Counted, In, Here
  <2>5. Tasks'
    BY <1>1, <1>3, <2>1, <2>2 DEF GraphInv, Tasks, NodeTask, MessageTask
  <2>6. WaitsCounted'
    BY <1>1, <1>3, <2>1 DEF GraphInv, WaitsCounted, Waited, Showing, Ready
  <2> QED
    BY <2>3, <2>4, <2>5, <2>6 DEF GraphInv
<1>5. CASE task[n].todo # {}
  <2>1. PICK m \in Messages :
          /\ at[m] = "parked" /\ Here(m) = n /\ m \in task[n].todo
          /\ at' = [at EXCEPT ![m] = Evaluated(m)]
          /\ task' = [task EXCEPT ![n] = [step |-> "retry", todo |-> task[n].todo \ {m},
                                          flushes |-> task[n].flushes]]
    BY <1>5, ReevaluateMoves
  <2>2. task[n].todo \ {m} \in SUBSET Messages /\ task[n].flushes \in BOOLEAN
    BY DEF GraphInv, GraphTypes, Works
  <2>3. /\ task' \in [GraphNodes -> [step : Steps, todo : SUBSET Messages, flushes : BOOLEAN]]
        /\ task'[n].step = "retry" /\ task'[n].todo = task[n].todo \ {m}
        /\ task'[n].flushes = task[n].flushes
        /\ \A k \in GraphNodes : k # n => task'[k] = task[k]
    BY <2>1, <2>2, NextOperation DEF GraphInv, Steps
  <2>4. /\ Evaluated(m) \in {"parked", "done", "out"}
        /\ (Evaluated(m) = "parked" <=> ~Ready(m))
        /\ Evaluated(m) = "out" => hop[m] # Len(Path[m])
    BY EvaluatedIs
  <2>5. GraphTypes'
    <3>1. Placed'
      BY <1>1, <2>1, <2>4 DEF GraphInv, GraphTypes, Placed, Places
    <3>2. Works'
      BY <1>1, <2>3 DEF GraphInv, GraphTypes, Works
    <3> QED
      BY <1>2, <3>1, <3>2 DEF GraphTypes
  <2>6. Counted'
    <3>1. GraphTypes /\ Evaluated(m) # "relay" /\ Evaluated(m) # "queue"
      BY <2>4 DEF GraphInv
    <3>2. \A k \in GraphNodes :
            /\ In(k, "relay")' = In(k, "relay")
            /\ In(k, "queue")' = In(k, "queue")
      BY <1>1, <2>1, <3>1, MovesPast
    <3> QED
      BY <1>1, <3>2 DEF GraphInv, Counted
  <2>7. Tasks'
    <3>1. ASSUME NEW k \in GraphNodes PROVE NodeTask(k)'
      <4>1. CASE k = n
        BY <1>1, <1>3, <2>1, <2>3, <4>1 DEF GraphInv, GraphTypes, Placed, Tasks, NodeTask
      <4>2. CASE k # n
        <5>1. \A j \in Messages : j # m => at'[j] = at[j]
          BY <2>1 DEF GraphInv, GraphTypes, Placed
        <5> QED
          BY <1>1, <1>3, <2>1, <2>3, <4>2, <5>1 DEF GraphInv, Tasks, NodeTask
      <4> QED
        BY <4>1, <4>2
    <3>2. ASSUME NEW j \in Messages PROVE MessageTask(j)'
      <4>1. CASE j = m
        BY <1>1, <2>1, <2>4, <4>1 DEF GraphInv, GraphTypes, Placed, MessageTask
      <4>2. CASE j # m
        BY <1>1, <1>3, <2>1, <2>3, <4>2 DEF GraphInv, GraphTypes, Placed, Tasks, MessageTask
      <4> QED
        BY <4>1, <4>2
    <3> QED
      BY <3>1, <3>2 DEF Tasks
  <2>8. WaitsCounted'
    <3>1. ASSUME NEW j \in Messages, Ready(j) PROVE Ready(j)'
      BY <2>1, <3>1, ReadyStays DEF GraphInv
    <3> SUFFICES ASSUME NEW j \in Messages PROVE Waited(j)'
      BY DEF WaitsCounted
    <3>2. CASE j = m
      BY <1>1, <1>3, <2>1, <2>4, <3>1, <3>2
         DEF GraphInv, GraphTypes, Placed, WaitsCounted, Waited, Showing
    <3>3. CASE j # m
      BY <1>1, <1>3, <2>1, <3>1, <3>3 DEF GraphInv, GraphTypes, Placed, WaitsCounted, Waited,
           Showing
    <3> QED
      BY <3>2, <3>3
  <2> QED
    BY <2>5, <2>6, <2>7, <2>8 DEF GraphInv
<1> QED
  BY <1>4, <1>5

\* An output goes to the next relay.
LEMMA ReleaseKeeps ==
    ASSUME Graph, GraphInv, NEW n \in GraphNodes, ReleaseOutput(n)
    PROVE  GraphInv'
<1>1. PICK m \in In(n, "out") :
        /\ hop' = [hop EXCEPT ![m] = @ + 1] /\ at' = [at EXCEPT ![m] = "relay"]
        /\ admitted' = [admitted EXCEPT ![Path[m][hop[m] + 1]] = @ + 1]
  BY DEF ReleaseOutput, Admits
<1>2. m \in Messages /\ at[m] = "out" /\ Here(m) = n
  BY <1>1 DEF In
<1>3. /\ handedOn' = handedOn /\ guard' = guard /\ waited' = waited
      /\ shown' = shown /\ flush' = flush /\ queued' = queued /\ owner' = owner
      /\ task[n].step \in {"settle", "idle"}
      /\ task' = task \/ task' = [task EXCEPT ![n].step = "settle"]
  BY DEF ReleaseOutput, Does, counts, relays, history
<1>4. /\ task' \in [GraphNodes -> [step : Steps, todo : SUBSET Messages, flushes : BOOLEAN]]
      /\ task'[n].step \in {"settle", "idle"} /\ task'[n].todo = task[n].todo
      /\ task[n].step = "settle" => task'[n].step = "settle"
      /\ task'[n].flushes = task[n].flushes
      /\ \A k \in GraphNodes : k # n => task'[k] = task[k]
  <2>1. CASE task' = task
    BY <1>3, <2>1 DEF GraphInv, GraphTypes, Works
  <2>2. CASE task' = [task EXCEPT ![n].step = "settle"]
    BY <2>2, NextStep DEF GraphInv, Steps
  <2> QED
    BY <1>3, <2>1, <2>2
<1>5. hop[m] # Len(Path[m])
  BY <1>2 DEF GraphInv, Tasks, MessageTask
<1>6. hop[m] + 1 \in 1..Len(Path[m]) /\ Path[m][hop[m] + 1] \in GraphNodes
  BY <1>1, <1>2, <1>5, Passed DEF GraphInv
<1> DEFINE next == Path[m][hop[m] + 1]
<1>a. admitted' = [admitted EXCEPT ![next] = @ + 1] /\ next \in GraphNodes
  BY <1>1, <1>6
<1>7. GraphTypes'
  <2>1. Placed'
    BY <1>1, <1>2, <1>3, <1>6 DEF GraphInv, GraphTypes, Placed, Places
  <2>2. Numbers'
    <3> HIDE DEF next
    <3> QED
      BY <1>3, <1>a DEF GraphInv, GraphTypes, Numbers
  <2>3. Works'
    BY <1>3, <1>4 DEF GraphInv, GraphTypes, Works
  <2> QED
    BY <2>1, <2>2, <2>3 DEF GraphTypes
<1>8. Counted'
  <2> SUFFICES ASSUME NEW k \in GraphNodes
               PROVE  /\ admitted'[k] = handedOn'[k] + Cardinality(In(k, "relay")')
                                          + (IF owner'[k] THEN 1 ELSE 0)
                      /\ queued'[k] = Cardinality(In(k, "queue")')
    BY DEF Counted
  <2>1. /\ Cardinality(In(k, "relay")') =
             Cardinality(In(k, "relay")) + (IF k = next THEN 1 ELSE 0)
        /\ Cardinality(In(k, "queue")') = Cardinality(In(k, "queue"))
    BY <1>1, <1>2, <1>5, Passed DEF GraphInv
  <2>2. Cardinality(In(k, "relay")) \in Nat
    BY InFinite
  <2> HIDE DEF next
  <2> QED
    BY <1>3, <1>a, <2>1, <2>2 DEF GraphInv, GraphTypes, Numbers, Counted
<1>9. \A j \in Messages :
        j # m => Here(j)' = Here(j) /\ hop'[j] = hop[j] /\ at'[j] = at[j]
  BY <1>1, <1>2 DEF Here, GraphInv, GraphTypes, Placed
<1>10. \A j \in Messages : Here(j) \in GraphNodes
  BY HereIn DEF GraphInv
<1>11. at'[m] = "relay"
  BY <1>1, <1>2 DEF GraphInv, GraphTypes, Placed
<1>12. Tasks'
  <2>1. ASSUME NEW k \in GraphNodes PROVE NodeTask(k)'
    <3>1. CASE k = n
      BY <1>3, <1>4, <3>1 DEF GraphInv, Tasks, NodeTask
    <3>2. CASE k # n
      BY <1>2, <1>3, <1>4, <1>9, <3>2 DEF GraphInv, Tasks, NodeTask
    <3> QED
      BY <3>1, <3>2
  <2>2. ASSUME NEW j \in Messages PROVE MessageTask(j)'
    <3>1. CASE j = m
      BY <1>11, <3>1 DEF MessageTask
    <3>2. CASE j # m
      BY <1>3, <1>4, <1>9, <1>10, <3>2 DEF GraphInv, Tasks, MessageTask
    <3> QED
      BY <3>1, <3>2
  <2> QED
    BY <2>1, <2>2 DEF Tasks
<1>13. WaitsCounted'
  <2>1. ASSUME NEW j \in Messages, Ready(j) PROVE Ready(j)'
    BY <1>1, <1>2, <2>1, ReadyStays DEF GraphInv
  <2> SUFFICES ASSUME NEW j \in Messages PROVE Waited(j)'
    BY DEF WaitsCounted
  <2>2. CASE j = m
    BY <1>2, <1>3, <1>11, <2>1, <2>2 DEF GraphInv, WaitsCounted, Waited
  <2>3. CASE j # m
    BY <1>3, <1>9, <2>1, <2>3 DEF GraphInv, WaitsCounted, Waited, Showing
  <2> QED
    BY <2>2, <2>3
<1> QED
  BY <1>7, <1>8, <1>12, <1>13 DEF GraphInv

\* A message is generated.
LEMMA GenerateKeeps ==
    ASSUME Graph, GraphInv, Generate
    PROVE  GraphInv'
<1>1. PICK m \in Messages :
        /\ at[m] = "source" /\ at' = [at EXCEPT ![m] = "relay"]
        /\ admitted' = [admitted EXCEPT ![Here(m)] = @ + 1]
  BY DEF Generate, Admits
<1>2. /\ hop' = hop /\ handedOn' = handedOn /\ guard' = guard /\ waited' = waited
      /\ shown' = shown /\ flush' = flush /\ queued' = queued /\ owner' = owner /\ task' = task
  BY DEF Generate, counts, history
<1>3. /\ \A j \in Messages : Here(j)' = Here(j)
      /\ \A j \in Messages : Here(j) \in GraphNodes
  BY <1>2, SameHere, HereIn DEF GraphInv
<1>4. GraphTypes'
  <2>1. Placed'
    BY <1>1, <1>2 DEF GraphInv, GraphTypes, Placed, Places
  <2>2. Numbers'
    BY <1>1, <1>2, <1>3 DEF GraphInv, GraphTypes, Numbers
  <2>3. Works'
    BY <1>2 DEF GraphInv, GraphTypes, Works
  <2> QED
    BY <2>1, <2>2, <2>3 DEF GraphTypes
<1>5. Counted'
  <2> SUFFICES ASSUME NEW k \in GraphNodes
               PROVE  /\ admitted'[k] = handedOn'[k] + Cardinality(In(k, "relay")')
                                          + (IF owner'[k] THEN 1 ELSE 0)
                      /\ queued'[k] = Cardinality(In(k, "queue")')
    BY DEF Counted
  <2>1. GraphTypes
    BY DEF GraphInv
  <2>2. Cardinality(In(k, "relay")') =
          Cardinality(In(k, "relay")) + (IF k = Here(m) THEN 1 ELSE 0)
    BY <1>1, <1>2, <2>1, MovesTo
  <2>3. In(k, "queue")' = In(k, "queue")
    BY <1>1, <1>2, <2>1, MovesPast
  <2>4. Cardinality(In(k, "relay")) \in Nat
    BY InFinite
  <2> QED
    BY <1>1, <1>2, <1>3, <2>2, <2>3, <2>4 DEF GraphInv, GraphTypes, Numbers, Counted
<1>6. Tasks'
  <2>1. \A j \in Messages : at'[j] = IF j = m THEN "relay" ELSE at[j]
    BY <1>1 DEF GraphInv, GraphTypes, Placed
  <2>2. ASSUME NEW n \in GraphNodes PROVE NodeTask(n)'
    BY <1>1, <1>2, <1>3, <2>1, <2>2 DEF GraphInv, Tasks, NodeTask
  <2>3. ASSUME NEW j \in Messages PROVE MessageTask(j)'
    BY <1>2, <1>3, <2>1, <2>3 DEF GraphInv, Tasks, MessageTask
  <2> QED
    BY <2>2, <2>3 DEF Tasks
<1>7. WaitsCounted'
  BY <1>1, <1>2, <1>3, ReadyStays DEF GraphInv, GraphTypes, Placed, WaitsCounted, Waited,
       Showing
<1> QED
  BY <1>4, <1>5, <1>6, <1>7 DEF GraphInv

-----------------------------------------------------------------------------
\* The steps of the graph, and those of the drain and of its observations.
GraphStep ==
    \/ \E n \in GraphNodes : \/ Work(n) \/ Take(n) \/ Retry(n)
                        \/ Claim(n) \/ ReleaseOutput(n)
    \/ Generate
ClosingStep == FlushIfIdle \/ Confirm \/ Confirmed
ReadStep ==
    \/ BeginObservation \/ ReadDomain \/ ReadAdmitted \/ ReadQueue
    \/ \E n \in GraphNodes : \/ ReadFlush(n) \/ ReadBefore(n) \/ ReadHandedOn(n)
                        \/ ReadNode(n) \/ ReadAfter(n)
OtherStep == GeneratorLoop \/ PauseGenerator \/ CloseIntake \/ AbandonDrain

\* A step is one of these.
LEMMA NextSplits == DrainNext <=> GraphStep \/ ReadStep \/ ClosingStep \/ OtherStep
BY DEF DrainNext, Read, GraphStep, ReadStep, ClosingStep, OtherStep

\* Each step of the graph keeps its counts and what is known of tasks and messages.
LEMMA GraphStepKeeps ==
    ASSUME Graph, GraphInv, GraphStep
    PROVE  GraphInv'
BY DeliverKeeps, HandOnKeeps, TaskKeeps, TakenKeeps, ExecuteKeeps, ReevaluateKeeps,
     ReleaseKeeps, GenerateKeeps DEF GraphStep, Work

\* What a step of the graph makes of a message; what enters a relay is counted there.
Admission == \E k \in GraphNodes : admitted'[k] > admitted[k]
Fate(m) ==
    \/ at'[m] = at[m] /\ Here(m)' = Here(m)
    \/ /\ Here(m)' = Here(m)
       /\ \/ at[m] = "relay" /\ at'[m] = "queue"
          \/ at[m] = "queue" /\ at'[m] = "node"
          \/ at[m] \in {"node", "parked"} /\ at'[m] = Evaluated(m)
    \/ at[m] = "out" /\ at'[m] = "relay" /\ Admission
    \/ at[m] = "source" /\ at'[m] = "relay" /\ Admission /\ generator = "produce"

\* One message moves.
LEMMA OneFate ==
    ASSUME GraphInv, NEW m \in Messages, NEW place, at' = [at EXCEPT ![m] = place], hop' = hop,
           \/ at[m] = "relay" /\ place = "queue"
           \/ at[m] = "queue" /\ place = "node"
           \/ at[m] \in {"node", "parked"} /\ place = Evaluated(m)
           \/ at[m] = "source" /\ place = "relay" /\ Admission /\ generator = "produce"
    PROVE  \A j \in Messages : Fate(j)
BY SameHere DEF GraphInv, GraphTypes, Placed, Fate

\* What a step of the graph does to messages and counts, and what it leaves alone.
LEMMA Fates ==
    ASSUME Graph, GraphInv, GraphStep
    PROVE  /\ \A m \in Messages : Fate(m)
           /\ \A k \in GraphNodes : admitted[k] <= admitted'[k] /\ handedOn[k] <= handedOn'[k]
           /\ waited \subseteq waited'
           /\ UNCHANGED <<observation, progress, carried, owed, intake>>
           /\ generator' = generator \/ generator' = "active"
<1>1. CASE Generate
  <2>1. PICK m \in Messages :
          /\ at[m] = "source" /\ at' = [at EXCEPT ![m] = "relay"]
          /\ admitted' = [admitted EXCEPT ![Here(m)] = @ + 1]
    BY <1>1 DEF Generate, Admits
  <2>2. Here(m) \in GraphNodes
    BY HereIn DEF GraphInv
  <2>3. Admission /\ \A k \in GraphNodes : admitted[k] <= admitted'[k]
    BY <2>1, <2>2 DEF Admission, GraphInv, GraphTypes, Numbers
  <2>4. /\ hop' = hop /\ handedOn' = handedOn /\ waited' = waited /\ generator = "produce"
        /\ generator' = "active" /\ UNCHANGED <<observation, progress, carried, owed, intake>>
    BY <1>1 DEF Generate, history
  <2>5. \A j \in Messages : Fate(j)
    BY <2>1, <2>3, <2>4, OneFate
  <2> QED
    BY <2>3, <2>4, <2>5 DEF GraphInv, GraphTypes, Numbers
<1>2. ASSUME NEW n \in GraphNodes, Work(n) \/ Take(n) \/ Retry(n) \/ Claim(n)
      PROVE  /\ \A m \in Messages : Fate(m)
             /\ admitted' = admitted /\ waited \subseteq waited'
             /\ \A k \in GraphNodes : handedOn[k] <= handedOn'[k]
             /\ UNCHANGED <<observation, progress, carried, owed, intake, generator>>
  <2>1. CASE Deliver(n)
    <3>1. PICK m \in Messages : at[m] = "relay" /\ at' = [at EXCEPT ![m] = "queue"]
      BY <2>1 DEF Deliver, In
    <3>2. /\ hop' = hop /\ handedOn' = handedOn /\ waited' = waited /\ admitted' = admitted
          /\ UNCHANGED <<observation, progress, carried, owed, intake, generator>>
      BY <2>1 DEF Deliver, history, source
    <3>3. \A j \in Messages : Fate(j)
      BY <3>1, <3>2, OneFate
    <3> QED
      BY <3>2, <3>3 DEF GraphInv, GraphTypes, Numbers
  <2>2. CASE HandOn(n)
    <3>1. /\ at' = at /\ hop' = hop /\ waited' = waited /\ admitted' = admitted
          /\ handedOn' = [handedOn EXCEPT ![n] = @ + 1]
          /\ UNCHANGED <<observation, progress, carried, owed, intake, generator>>
      BY <2>2 DEF HandOn, history, source, graph
    <3>2. \A j \in Messages : Fate(j)
      BY <3>1, SameHere DEF Fate
    <3> QED
      BY <3>1, <3>2 DEF GraphInv, GraphTypes, Numbers
  <2>3. CASE Take(n) \/ Retry(n) \/ Claim(n) \/ Settle(n) \/ End(n)
    <3>1. /\ at' = at /\ hop' = hop /\ waited' = waited /\ admitted' = admitted
          /\ handedOn' = handedOn
          /\ UNCHANGED <<observation, progress, carried, owed, intake, generator>>
      BY <2>3 DEF Take, Retry, Claim, Settle, End, history,
           source, graph, relays
    <3>2. \A j \in Messages : Fate(j)
      BY <3>1, SameHere DEF Fate
    <3> QED
      BY <3>1, <3>2 DEF GraphInv, GraphTypes, Numbers
  <2>4. CASE Taken(n)
    <3>1. PICK m \in Messages : at[m] = "queue" /\ at' = [at EXCEPT ![m] = "node"]
      BY <2>4, TakenMoves
    <3>2. /\ hop' = hop /\ handedOn' = handedOn /\ waited' = waited /\ admitted' = admitted
          /\ UNCHANGED <<observation, progress, carried, owed, intake, generator>>
      BY <2>4 DEF Taken, history, source
    <3>3. \A j \in Messages : Fate(j)
      BY <3>1, <3>2, OneFate
    <3> QED
      BY <3>2, <3>3 DEF GraphInv, GraphTypes, Numbers
  <2>5. CASE Execute(n)
    <3>1. PICK m \in Messages : /\ at[m] = "node" /\ at' = [at EXCEPT ![m] = Evaluated(m)]
                                /\ waited' = IF Ready(m) THEN waited ELSE waited \cup {m}
      BY <2>5, ExecuteMoves
    <3>2. /\ hop' = hop /\ handedOn' = handedOn /\ admitted' = admitted
          /\ UNCHANGED <<observation, progress, carried, owed, intake, generator>>
      BY <2>5 DEF Execute, source, relays
    <3>3. \A j \in Messages : Fate(j)
      BY <3>1, <3>2, OneFate
    <3> QED
      BY <3>1, <3>2, <3>3 DEF GraphInv, GraphTypes, Numbers
  <2>6. CASE Reevaluate(n)
    <3>1. /\ hop' = hop /\ handedOn' = handedOn /\ waited' = waited /\ admitted' = admitted
          /\ UNCHANGED <<observation, progress, carried, owed, intake, generator>>
      BY <2>6 DEF Reevaluate, history, source, relays
    <3>2. CASE task[n].todo = {}
      <4>1. at' = at
        BY <2>6, <3>2 DEF Reevaluate
      <4>2. \A j \in Messages : Fate(j)
        BY <3>1, <4>1, SameHere DEF Fate
      <4> QED
        BY <3>1, <4>2 DEF GraphInv, GraphTypes, Numbers
    <3>3. CASE task[n].todo # {}
      <4>1. PICK m \in Messages : at[m] = "parked" /\ at' = [at EXCEPT ![m] = Evaluated(m)]
        BY <2>6, <3>3, ReevaluateMoves
      <4>2. \A j \in Messages : Fate(j)
        BY <3>1, <4>1, OneFate
      <4> QED
        BY <3>1, <4>2 DEF GraphInv, GraphTypes, Numbers
    <3> QED
      BY <3>2, <3>3
  <2> QED
    BY <1>2, <2>1, <2>2, <2>3, <2>4, <2>5, <2>6 DEF Work
<1>3. ASSUME NEW n \in GraphNodes, ReleaseOutput(n)
      PROVE  /\ \A m \in Messages : Fate(m)
             /\ \A k \in GraphNodes : admitted[k] <= admitted'[k]
             /\ handedOn' = handedOn /\ waited' = waited
             /\ UNCHANGED <<observation, progress, carried, owed, intake, generator>>
  <2>1. PICK m \in In(n, "out") :
          /\ hop' = [hop EXCEPT ![m] = @ + 1] /\ at' = [at EXCEPT ![m] = "relay"]
          /\ admitted' = [admitted EXCEPT ![Path[m][hop[m] + 1]] = @ + 1]
    BY <1>3 DEF ReleaseOutput, Admits
  <2>2. m \in Messages /\ at[m] = "out"
    BY <2>1 DEF In
  <2>3. hop[m] # Len(Path[m])
    BY <2>2 DEF GraphInv, Tasks, MessageTask
  <2> DEFINE next == Path[m][hop[m] + 1]
  <2>4. admitted' = [admitted EXCEPT ![next] = @ + 1]
    BY <2>1
  <2>5. next \in GraphNodes
    <3>1. GraphTypes
      BY DEF GraphInv
    <3> QED
      BY <2>1, <2>2, <2>3, <3>1, Passed
  <2> HIDE DEF next
  <2>6. Admission /\ \A k \in GraphNodes : admitted[k] <= admitted'[k]
    BY <2>4, <2>5 DEF Admission, GraphInv, GraphTypes, Numbers
  <2>7. /\ handedOn' = handedOn /\ waited' = waited
        /\ UNCHANGED <<observation, progress, carried, owed, intake, generator>>
    BY <1>3 DEF ReleaseOutput, history, source
  <2>8. ASSUME NEW j \in Messages PROVE Fate(j)
    <3>1. CASE j = m
      BY <2>1, <2>2, <2>6, <3>1 DEF GraphInv, GraphTypes, Placed, Fate
    <3>2. CASE j # m
      BY <2>1, <2>2, <3>2 DEF GraphInv, GraphTypes, Placed, Fate, Here
    <3> QED
      BY <3>1, <3>2
  <2> QED
    BY <2>6, <2>7, <2>8
<1> QED
  BY <1>1, <1>2, <1>3 DEF GraphStep, GraphInv, GraphTypes, Numbers

\* Neither is a message that can go on parked again, nor does what ended begin again.
LEMMA KeepsGoing ==
    ASSUME Graph, GraphInv, GraphStep, NEW m \in Messages, Ready(m)
    PROVE  /\ Ready(m)' /\ (at[m] # "source" => at'[m] # "source")
           /\ at'[m] = "parked" => at[m] = "parked" /\ Here(m)' = Here(m)
<1>1. ASSUME NEW k \in Messages, at[k] = "done" PROVE at'[k] = "done"
  BY <1>1, Fates DEF Fate
<1>2. Ready(m)'
  BY <1>1 DEF Ready, Graph
<1> QED
  BY <1>2, Fates, EvaluatedIs DEF Fate

\* What a confirming generation owes leaves a node before the node's flush is done.
LEMMA OwesKept ==
    ASSUME Graph, GraphInv, Owes, GraphStep
    PROVE  Owes'
<1> SUFFICES ASSUME progress = "confirming", NEW m \in owed
             PROVE  Owing(m)'
  BY Fates DEF Owes
<1>1. Owing(m) /\ m \in Messages /\ Ready(m)
  BY DEF Owes, Owing
<1>2. /\ Ready(m)' /\ at'[m] # "source"
      /\ at'[m] = "parked" => at[m] = "parked" /\ Here(m)' = Here(m)
  BY <1>1, KeepsGoing DEF Owing
<1>3. /\ Here(m) \in GraphNodes /\ flush \in [GraphNodes -> {"none", "available", "claimed"}]
      /\ guard \in [GraphNodes -> Nat] /\ shown \in [GraphNodes -> Nat]
      /\ at \in [Messages -> Places]
  BY <1>1, HereIn DEF GraphInv, GraphTypes, Works, Numbers, Placed
<1>4. SUFFICES /\ at'[m] = "parked" => Flushes(Here(m), m)'
               /\ at'[m] = "out" => (Showing(Here(m)) \/ Flushes(Here(m), m))'
  BY <1>1, <1>2 DEF Owing
<1>5. ASSUME UNCHANGED <<guard, shown, task, flush>>,
             at'[m] = "out" => at[m] = "out" /\ Here(m)' = Here(m)
      PROVE  /\ at'[m] = "parked" => Flushes(Here(m), m)'
             /\ at'[m] = "out" => (Showing(Here(m)) \/ Flushes(Here(m), m))'
  BY <1>1, <1>2, <1>5 DEF Owing, Flushes, Showing
<1>6. ASSUME NEW n \in GraphNodes, Deliver(n) \/ HandOn(n)
      PROVE  /\ at'[m] = "parked" => Flushes(Here(m), m)'
             /\ at'[m] = "out" => (Showing(Here(m)) \/ Flushes(Here(m), m))'
  <2>1. UNCHANGED <<guard, shown, task, flush, hop>>
    BY <1>6 DEF Deliver, HandOn, counts, graph
  <2>2. at'[m] = "out" => at[m] = "out"
    BY <1>1, <1>3, <1>6 DEF Deliver, HandOn, graph, In
  <2> QED
    BY <1>1, <1>5, <2>1, <2>2, SameHere
<1>7. CASE Generate
  <2>1. UNCHANGED <<guard, shown, task, flush, hop>>
    BY <1>7 DEF Generate, counts, graph
  <2>2. at'[m] = "out" => at[m] = "out"
    BY <1>1, <1>3, <1>7 DEF Generate, Admits
  <2> QED
    BY <1>1, <1>5, <2>1, <2>2, SameHere
<1>8. ASSUME NEW n \in GraphNodes, ReleaseOutput(n)
      PROVE  /\ at'[m] = "parked" => Flushes(Here(m), m)'
             /\ at'[m] = "out" => (Showing(Here(m)) \/ Flushes(Here(m), m))'
  <2>1. PICK x \in In(n, "out") :
          hop' = [hop EXCEPT ![x] = @ + 1] /\ at' = [at EXCEPT ![x] = "relay"]
    BY <1>8 DEF ReleaseOutput, Admits
  <2>2. at'[m] = "out" => at[m] = "out" /\ Here(m)' = Here(m)
    BY <1>1, <1>3, <2>1 DEF In, Here, GraphInv, GraphTypes, Placed
  <2>3. /\ UNCHANGED <<guard, shown, flush>>
        /\ \/ task' = task
           \/ task' = [task EXCEPT ![n].step = "settle"] /\ task[n].step = "idle"
    BY <1>8 DEF ReleaseOutput, Does, counts
  <2>4. CASE task' = task
    BY <1>5, <2>2, <2>3, <2>4
  <2>5. CASE task' = [task EXCEPT ![n].step = "settle"] /\ task[n].step = "idle"
    <3>1. /\ task'[n].step = "settle" /\ task'[n].todo = task[n].todo
          /\ \A k \in GraphNodes : k # n => task'[k] = task[k]
      BY <2>5, NextStep DEF GraphInv, Steps
    <3> QED
      BY <1>1, <1>2, <1>3, <2>2, <2>3, <2>5, <3>1 DEF Owing, Flushes, Showing
  <2> QED
    BY <2>3, <2>4, <2>5
<1>9. ASSUME NEW n \in GraphNodes, Take(n) \/ Retry(n) \/ Claim(n)
      PROVE  /\ at'[m] = "parked" => Flushes(Here(m), m)'
             /\ at'[m] = "out" => (Showing(Here(m)) \/ Flushes(Here(m), m))'
  <2>1. /\ at' = at /\ hop' = hop /\ shown' = shown /\ task[n].step = "idle"
        /\ Here(m)' = Here(m)
    BY <1>1, <1>9, SameHere DEF Take, Retry, Claim, graph, counts
  <2>2. CASE Take(n)
    <3>1. guard' = [guard EXCEPT ![n] = 1] /\ flush' = flush
      BY <2>2 DEF Take
    <3>2. \A k \in GraphNodes : k # n => task'[k] = task[k]
      BY <2>2 DEF Take, GraphInv, GraphTypes, Works
    <3> QED
      BY <1>1, <1>3, <2>1, <3>1, <3>2 DEF Owing, Flushes, Showing
  <2>3. CASE Retry(n)
    <3>1. guard' = guard /\ flush' = flush
      BY <2>3 DEF Retry, counts
    <3>2. \A k \in GraphNodes : k # n => task'[k] = task[k]
      BY <2>3 DEF Retry, GraphInv, GraphTypes, Works
    <3> QED
      BY <1>1, <1>3, <2>1, <3>1, <3>2 DEF Owing, Flushes, Showing
  <2>4. CASE Claim(n)
    <3>1. guard' = guard /\ flush' = [flush EXCEPT ![n] = "claimed"]
      BY <2>4 DEF Claim, counts
    <3>2. /\ \A k \in GraphNodes : k # n => task'[k] = task[k]
          /\ task'[n].step = "retry" /\ task'[n].todo = In(n, "parked")
      BY <2>4 DEF Claim, GraphInv, GraphTypes, Works
    <3>3. at[m] = "parked" /\ Here(m) = n => m \in In(n, "parked")
      BY <1>1 DEF In
    <3> QED
      BY <1>1, <1>3, <2>1, <3>1, <3>2, <3>3 DEF Owing, Flushes, Showing
  <2> QED
    BY <1>9, <2>2, <2>3, <2>4
<1>10. ASSUME NEW n \in GraphNodes, Settle(n) \/ End(n)
       PROVE  /\ at'[m] = "parked" => Flushes(Here(m), m)'
              /\ at'[m] = "out" => (Showing(Here(m)) \/ Flushes(Here(m), m))'
  <2>1. /\ at' = at /\ hop' = hop /\ Here(m)' = Here(m)
    BY <1>1, <1>10, SameHere DEF Settle, End, graph
  <2>2. /\ Cardinality(In(n, "out")) \in Nat
        /\ Here(m) = n /\ at[m] = "out" => Cardinality(In(n, "out")) > 0
    <3>1. Here(m) = n /\ at[m] = "out" => m \in In(n, "out")
      BY <1>1 DEF In
    <3> QED
      BY <3>1, InFinite
  <2>3. CASE Settle(n)
    <3>1. /\ guard' = guard /\ flush' = flush /\ task[n].step = "settle"
          /\ task[n].flushes => Cardinality(In(n, "out")) = 0
          /\ shown' = [shown EXCEPT ![n] = IF Cardinality(In(n, "out")) > @
                                           THEN Cardinality(In(n, "out")) ELSE @]
          /\ task' = [task EXCEPT ![n].step = "end"]
      BY <2>3 DEF Settle, Does
    <3>2. \A k \in GraphNodes : k # n => task'[k] = task[k]
      BY <3>1, NextStep DEF GraphInv, Steps
    <3>3. flush[n] = "claimed" => task[n].flushes
      BY DEF GraphInv, Tasks, NodeTask
    <3> QED
      BY <1>1, <1>3, <2>1, <2>2, <3>1, <3>2, <3>3 DEF Owing, Flushes, Showing
  <2>4. CASE End(n)
    <3>1. /\ task[n].step = "end" /\ guard' = [guard EXCEPT ![n] = 0]
          /\ shown' = [shown EXCEPT ![n] = Cardinality(In(n, "out"))]
          /\ flush' = IF task[n].flushes /\ flush[n] = "claimed"
                      THEN [flush EXCEPT ![n] = "none"] ELSE flush
      BY <2>4 DEF End
    <3>2. \A k \in GraphNodes : k # n => task'[k] = task[k]
      BY <2>4 DEF End, GraphInv, GraphTypes, Works
    <3> QED
      BY <1>1, <1>3, <2>1, <2>2, <3>1, <3>2 DEF Owing, Flushes, Showing
  <2> QED
    BY <1>10, <2>3, <2>4
<1>11. ASSUME NEW n \in GraphNodes, Taken(n) \/ Execute(n)
       PROVE  /\ at'[m] = "parked" => Flushes(Here(m), m)'
              /\ at'[m] = "out" => (Showing(Here(m)) \/ Flushes(Here(m), m))'
  <2>1. /\ hop' = hop /\ guard' = guard /\ shown' = shown /\ flush' = flush
        /\ Here(m)' = Here(m) /\ task[n].step \in {"take", "execute"}
    BY <1>1, <1>11, SameHere DEF Taken, Execute, counts
  <2>2. \A k \in GraphNodes : k # n => task'[k] = task[k]
    BY <1>11, NextStep DEF Taken, Execute, Does, GraphInv, Steps
  <2>3. flush[n] # "claimed" /\ guard[n] = 1
    BY <2>1 DEF GraphInv, Tasks, NodeTask
  <2>4. at'[m] = "out" => at[m] = "out" \/ Here(m) = n
    <3>1. CASE Taken(n)
      BY <1>1, <1>3, <3>1, TakenMoves
    <3>2. CASE Execute(n)
      BY <1>1, <1>3, <3>2, ExecuteMoves
    <3> QED
      BY <1>11, <3>1, <3>2
  <2> QED
    BY <1>1, <1>2, <1>3, <2>1, <2>2, <2>3, <2>4 DEF Owing, Flushes, Showing
<1>12. ASSUME NEW n \in GraphNodes, Reevaluate(n)
       PROVE  /\ at'[m] = "parked" => Flushes(Here(m), m)'
              /\ at'[m] = "out" => (Showing(Here(m)) \/ Flushes(Here(m), m))'
  <2>1. /\ hop' = hop /\ guard' = guard /\ shown' = shown /\ flush' = flush
        /\ Here(m)' = Here(m) /\ task[n].step = "retry"
    BY <1>1, <1>12, SameHere DEF Reevaluate, counts
  <2>2. CASE task[n].todo = {}
    <3>1. at' = at /\ task' = [task EXCEPT ![n].step = "settle"]
      BY <1>12, <2>2 DEF Reevaluate, Does
    <3>2. task'[n].step = "settle" /\ \A k \in GraphNodes : k # n => task'[k] = task[k]
      BY <3>1, NextStep DEF GraphInv, Steps
    <3> QED
      BY <1>1, <1>3, <2>1, <2>2, <3>1, <3>2 DEF Owing, Flushes, Showing
  <2>3. CASE task[n].todo # {}
    <3>1. PICK x \in Messages :
            /\ at[x] = "parked" /\ Here(x) = n /\ x \in task[n].todo
            /\ at' = [at EXCEPT ![x] = Evaluated(x)]
            /\ task' = [task EXCEPT ![n] = [step |-> "retry", todo |-> task[n].todo \ {x},
                                            flushes |-> task[n].flushes]]
      BY <1>12, <2>3, ReevaluateMoves
    <3>2. /\ task'[n].step = "retry" /\ task'[n].todo = task[n].todo \ {x}
          /\ \A k \in GraphNodes : k # n => task'[k] = task[k]
      BY <3>1 DEF GraphInv, GraphTypes, Works
    <3>3. CASE m = x
      <4>1. at'[m] # "parked"
        BY <1>1, <1>3, <3>1, <3>3, EvaluatedIs
      <4>2. Flushes(n, m)
        BY <1>1, <3>1, <3>3 DEF Owing
      <4> QED
        BY <2>1, <3>1, <3>2, <3>3, <4>1, <4>2 DEF Flushes
    <3>4. CASE m # x
      <4>1. at'[m] = at[m]
        BY <1>1, <1>3, <3>1, <3>4
      <4> QED
        BY <1>1, <1>3, <2>1, <3>2, <3>4, <4>1 DEF Owing, Flushes, Showing
    <3> QED
      BY <3>3, <3>4
  <2> QED
    BY <2>2, <2>3
<1> QED
  BY <1>6, <1>7, <1>8, <1>9, <1>10, <1>11, <1>12 DEF GraphStep, Work

-----------------------------------------------------------------------------
\* A message that is counted wherever it moves is not parked, and is counted among outputs.
LEMMA SureCounted ==
    ASSUME Graph, DrainInv, observing \in Flushed, NEW m \in Messages, Sure(m)
    PROVE  at[m] # "parked" /\ (at[m] = "out" => Showing(Here(m)))
<1>1. CASE m \notin waited
  BY <1>1 DEF DrainInv, WaitsCounted, Waited
<1>2. CASE progress = "confirming" /\ ~owing /\ m \in owed
  <2>1. Owing(m) /\ Here(m) \in GraphNodes
    BY <1>2, HereIn DEF DrainInv, Owes
  <2>2. flush[Here(m)] = "none"
    BY <1>2, <2>1 DEF DrainInv, FlushesDone
  <2> QED
    BY <2>1, <2>2 DEF Owing, Flushes
<1> QED
  BY <1>1, <1>2 DEF Sure

\* The graph's steps leave the observation alone.
LEMMA GraphKeepsClosed ==
    ASSUME Graph, DrainInv, GraphStep
    PROVE  IntakeClosed' /\ FlushesDone' /\ Held' /\ Quiet'
<1>1. /\ \A m \in Messages : Fate(m)
      /\ waited \subseteq waited'
      /\ UNCHANGED <<observation, progress, carried, owed, intake>>
      /\ generator' = generator \/ generator' = "active"
  BY Fates DEF DrainInv, GraphInv
<1>2. IntakeClosed'
  BY <1>1 DEF DrainInv, IntakeClosed, observation
<1>3. FlushesDone'
  <2>1. ASSUME NEW n \in GraphNodes, flush[n] = "none" PROVE flush'[n] = "none"
    <3>1. CASE \E k \in GraphNodes : Claim(k)
      BY <2>1, <3>1 DEF Claim, DrainInv, GraphTypes, Works
    <3>2. CASE \E k \in GraphNodes : End(k)
      BY <2>1, <3>2 DEF End, DrainInv, GraphTypes, Works
    <3>3. CASE flush' = flush
      BY <2>1, <3>3
    <3> QED
      BY <3>1, <3>2, <3>3 DEF GraphStep, Work, Deliver, HandOn, Taken,
           Execute, Reevaluate, Settle, Take, Retry,
           ReleaseOutput, Generate
  <2> QED
    BY <1>1, <2>1 DEF DrainInv, FlushesDone, observation
<1>4. Held'
  BY <1>1, EvaluatedIs DEF DrainInv, Held, Fate
<1>5. Quiet'
  <2> SUFFICES ASSUME progress = "quiescent"
               PROVE  /\ \A m \in owed : m \in Messages /\ at'[m] = "done"
                      /\ \A m \in Messages : Moving(m)' => m \in waited'
    BY <1>1 DEF Quiet
  <2>1. ASSUME NEW m \in owed PROVE m \in Messages /\ at'[m] = "done"
    BY <1>1 DEF DrainInv, Quiet, Fate
  <2>2. generator # "produce"
    BY DEF DrainInv, IntakeClosed
  <2>3. ASSUME NEW m \in Messages, Moving(m)' PROVE m \in waited'
    <3>1. Moving(m) \/ at[m] = "parked"
      BY <1>1, <2>2, <2>3 DEF Fate, Moving
    <3> QED
      BY <1>1, <3>1 DEF DrainInv, Quiet, WaitsCounted, Waited
  <2> QED
    BY <2>1, <2>3
<1> QED
  BY <1>2, <1>3, <1>4, <1>5

\* While nothing is admitted, what was seen empty stays empty.
LEMMA GraphKeepsReading ==
    ASSUME Graph, DrainInv, GraphStep
    PROVE  Reading'
<1>1. /\ \A m \in Messages : Fate(m)
      /\ \A k \in GraphNodes : admitted[k] <= admitted'[k] /\ handedOn[k] <= handedOn'[k]
      /\ waited \subseteq waited'
      /\ UNCHANGED <<observing, left, visible, owing, before, reading, progress, owed>>
  BY Fates DEF DrainInv, GraphInv, observation
<1>2. GraphInv' /\ GraphInv
  BY GraphStepKeeps DEF DrainInv, GraphInv
<1>3. /\ admitted \in [GraphNodes -> Nat] /\ admitted' \in [GraphNodes -> Nat]
      /\ handedOn \in [GraphNodes -> Nat] /\ handedOn' \in [GraphNodes -> Nat]
      /\ before \in [GraphNodes -> Nat] /\ left \subseteq GraphNodes
  BY <1>2 DEF DrainInv, GraphInv, GraphTypes, Numbers, Reading, IntakeClosed
<1>4. \A m \in Messages : Sure(m)' => Sure(m)
  BY <1>1 DEF Sure
<1>5. ASSUME ~visible, Still', observing \in Flushed \ {"before"}
      PROVE  Still /\ (observing # "after" => ~Admission)
  BY <1>1, <1>3, <1>5 DEF Still, Admission, DrainInv, Reading, Flushed
<1>6. ASSUME ~visible, Still', observing \in {"relays", "queue"}
      PROVE  /\ \A n \in Behind' : Emptied(n)'
             /\ observing = "queue" =>
                  \A m \in Messages : Here(m)' = reading.relay => at'[m] # "relay"
  <2>1. Still /\ ~Admission
    BY <1>5, <1>6 DEF Flushed
  <2>2. Behind' = Behind
    BY <1>1 DEF Behind
  <2>3. /\ \A n \in Behind : Emptied(n)
        /\ observing = "queue" =>
             \A m \in Messages : Here(m) = reading.relay => at[m] # "relay"
    BY <1>6, <2>1 DEF DrainInv, Reading
  <2>4. ASSUME NEW n \in Behind PROVE Emptied(n)'
    BY <1>1, <2>1, <2>3, EvaluatedIs DEF Emptied, Fate
  <2>5. ASSUME observing = "queue", NEW m \in Messages, Here(m)' = reading.relay
        PROVE  at'[m] # "relay"
    BY <1>1, <2>1, <2>3, <2>5, EvaluatedIs DEF Fate
  <2> QED
    BY <2>2, <2>4, <2>5
<1>7. ASSUME ~visible, Still', observing = "nodes"
      PROVE  /\ \A n \in GraphNodes : Emptied(n)'
             /\ \A m \in Messages :
                  Sure(m)' /\ Here(m)' \notin left => at'[m] \notin {"node", "out"}
  <2>1. Still /\ ~Admission
    BY <1>5, <1>7 DEF Flushed
  <2>2. /\ \A n \in GraphNodes : Emptied(n)
        /\ \A m \in Messages : Sure(m) /\ Here(m) \notin left => at[m] \notin {"node", "out"}
    BY <1>7, <2>1 DEF DrainInv, Reading
  <2>3. ASSUME NEW n \in GraphNodes PROVE Emptied(n)'
    BY <1>1, <2>1, <2>2, EvaluatedIs DEF Emptied, Fate
  <2>4. ASSUME NEW m \in Messages, Sure(m)', Here(m)' \notin left
        PROVE  at'[m] \notin {"node", "out"}
    <3>1. Sure(m) /\ at[m] # "parked"
      BY <1>4, <1>7, <2>4, SureCounted DEF Flushed
    <3>2. at[m] \notin {"relay", "queue"}
      BY <2>2, HereIn DEF Emptied, DrainInv
    <3> QED
      BY <1>1, <2>1, <2>2, <2>4, <3>1, <3>2, EvaluatedIs DEF Fate
  <2> QED
    BY <2>3, <2>4
<1>8. ASSUME ~visible, Still', observing = "after", NEW m \in Messages, Sure(m)'
      PROVE  ~Moving(m)'
  <2>1. Still /\ Sure(m) /\ at[m] # "parked"
    BY <1>4, <1>5, <1>8, SureCounted DEF Flushed
  <2>2. ~Moving(m) /\ generator # "produce"
    BY <1>8, <2>1 DEF DrainInv, Reading, IntakeClosed, Sourced
  <2> QED
    BY <1>1, <2>1, <2>2 DEF Fate, Moving
<1>9. /\ reading # NoRead => reading.handed <= handedOn'[reading.relay]
      /\ observing = "before" => \A n \in GraphNodes \ left : before[n] <= admitted'[n]
      /\ observing \in Flushed \ {"before"} => \A n \in GraphNodes : before[n] <= admitted'[n]
  BY <1>1, <1>3 DEF DrainInv, Reading
<1> QED
  BY <1>1, <1>6, <1>7, <1>8, <1>9 DEF DrainInv, Reading

-----------------------------------------------------------------------------
\* An observation only reads.
LEMMA OnlyReads ==
    ASSUME ReadStep
    PROVE  UNCHANGED <<at, hop, admitted, handedOn, queued, owner, guard, shown, task, flush,
                       generator, intake, progress, owed, waited>>
BY DEF ReadStep, BeginObservation, ReadDomain, ReadAdmitted, ReadQueue,
     ReadFlush, ReadBefore, ReadHandedOn, ReadNode, ReadAfter,
     ReadOne, Unmoved, graph, relays, counts, source

\* So the graph keeps what it promises.
LEMMA ReadKeepsGraph ==
    ASSUME DrainInv, ReadStep
    PROVE  GraphInv' /\ Owes' /\ Quiet'
<1>1. UNCHANGED <<at, hop, admitted, handedOn, queued, owner, guard, shown, task, flush,
                  generator, intake, progress, owed, waited>>
  BY OnlyReads
<1>2. GraphInv'
  BY <1>1, GraphUnmoved DEF DrainInv, GraphInv, graphState, graph, relays,
       counts
<1>3. Owes'
  BY <1>1 DEF DrainInv, Owes, Owing, Flushes, Showing, Here, Ready
<1>4. Quiet'
  BY <1>1 DEF DrainInv, Quiet, Moving
<1> QED
  BY <1>2, <1>3, <1>4

\* The stages follow each other; the source is seen idle, and the flushes done, before later ones.
LEMMA ReadKeepsClosed ==
    ASSUME DrainInv, ReadStep
    PROVE  IntakeClosed' /\ FlushesDone' /\ Held'
<1>1. UNCHANGED <<at, hop, admitted, handedOn, queued, owner, guard, shown, task, flush,
                  generator, intake, progress, owed, waited>>
  BY OnlyReads
<1> USE <1>1 DEF DrainInv, IntakeClosed, FlushesDone, Held, ObservingStages, Flushed, Sourced
<1>2. CASE BeginObservation
  BY <1>2 DEF BeginObservation, Reads, Moving
<1>3. ASSUME NEW n \in GraphNodes, ReadFlush(n) PROVE IntakeClosed' /\ FlushesDone' /\ Held'
  BY <1>3 DEF ReadFlush, ReadOne, GoesOn, Reads, Following
<1>4. ASSUME NEW n \in GraphNodes, ReadBefore(n) PROVE IntakeClosed' /\ FlushesDone' /\ Held'
  BY <1>4 DEF ReadBefore, ReadOne, GoesOn, Reads, Following
<1>5. CASE ReadDomain
  BY <1>5 DEF ReadDomain, GoesOn, Reads, Following
<1>6. ASSUME NEW n \in GraphNodes, ReadHandedOn(n) PROVE IntakeClosed' /\ FlushesDone' /\ Held'
  BY <1>6 DEF ReadHandedOn
<1>7. CASE ReadAdmitted
  BY <1>7 DEF ReadAdmitted, Reading
<1>8. CASE ReadQueue
  BY <1>8 DEF ReadQueue, Reads, Reading
<1>9. ASSUME NEW n \in GraphNodes, ReadNode(n) PROVE IntakeClosed' /\ FlushesDone' /\ Held'
  BY <1>9 DEF ReadNode, ReadOne, GoesOn, Reads, Following,
       GraphTypes, Numbers
<1>10. ASSUME NEW n \in GraphNodes, ReadAfter(n) PROVE IntakeClosed' /\ FlushesDone' /\ Held'
  BY <1>10 DEF ReadAfter, ReadOne, GoesOn, Reads, Following
<1> QED
  BY <1>2, <1>3, <1>4, <1>5, <1>6, <1>7, <1>8, <1>9, <1>10 DEF ReadStep

\* What a count of zero shows.
LEMMA NoneQueued ==
    ASSUME Graph, DrainInv, NEW n \in GraphNodes, queued[n] = 0, NEW m \in Messages, Here(m) = n
    PROVE  at[m] # "queue"
<1>1. In(n, "queue") = {}
  BY InFinite DEF DrainInv, Counted
<1> QED
  BY <1>1 DEF In
\* What was handed on is read first: a relay that admitted no more is empty.
LEMMA NoneHeld ==
    ASSUME Graph, DrainInv, NEW n \in GraphNodes, NEW handed \in Nat, handed <= handedOn[n],
           admitted[n] = handed, NEW m \in Messages, Here(m) = n
    PROVE  at[m] # "relay"
<1>1. Cardinality(In(n, "relay")) \in Nat
  BY InFinite
<1>2. Cardinality(In(n, "relay")) = 0
  BY <1>1 DEF DrainInv, Counted, GraphTypes, Numbers
<1>3. In(n, "relay") = {}
  BY <1>2, InFinite
<1> QED
  BY <1>3 DEF In
\* A node that shows nothing has no message that is counted.
LEMMA NoneWorked ==
    ASSUME Graph, DrainInv, observing \in Flushed, NEW m \in Messages, Sure(m),
           guard[Here(m)] + shown[Here(m)] = 0
    PROVE  at[m] \notin {"node", "out"}
<1>1. Here(m) \in GraphNodes
  BY HereIn DEF DrainInv
<1>2. guard[Here(m)] = 0 /\ shown[Here(m)] = 0
  BY <1>1 DEF DrainInv, GraphTypes, Numbers
<1>3. at[m] # "node"
  BY <1>1, <1>2 DEF DrainInv, Tasks, MessageTask, NodeTask
<1> QED
  BY <1>2, <1>3, SureCounted DEF Showing

\* Each read adds the relay, queue or node it saw empty.
LEMMA ReadKeepsReading ==
    ASSUME Graph, DrainInv, ReadStep
    PROVE  Reading'
<1>1. UNCHANGED <<at, hop, admitted, handedOn, queued, owner, guard, shown, task, flush,
                  generator, intake, progress, owed, waited>>
  BY OnlyReads
<1>2. /\ \A m \in Messages : Here(m)' = Here(m) /\ Here(m) \in GraphNodes
      /\ \A m \in Messages : Moving(m)' = Moving(m)
      /\ \A n \in GraphNodes : Emptied(n)' = Emptied(n)
  BY <1>1, HereIn, SameHere DEF DrainInv, Moving, Emptied
<1>3. /\ admitted \in [GraphNodes -> Nat] /\ handedOn \in [GraphNodes -> Nat]
      /\ before \in [GraphNodes -> Nat] /\ left \subseteq GraphNodes /\ observing \in ObservingStages
      /\ (observing = "rest" => ~visible) /\ visible \in BOOLEAN
  BY DEF DrainInv, GraphTypes, Numbers, Reading, IntakeClosed
<1>4. Reading
  BY DEF DrainInv
<1>5. CASE BeginObservation
  <2>1. /\ observing' = "flushes" /\ before' = before /\ reading' = reading /\ left' = GraphNodes
        /\ observing = "rest"
    BY <1>5 DEF BeginObservation, Reads
  <2> QED
    BY <1>1, <1>4, <2>1 DEF Reading, Flushed
<1>6. ASSUME NEW n \in GraphNodes, ReadFlush(n) PROVE Reading'
  <2>1. /\ observing' \in {"flushes", "before"} /\ before' = before /\ reading' = reading
        /\ observing' = "before" => left' = GraphNodes
        /\ observing = "flushes"
    BY <1>6 DEF ReadFlush, ReadOne, GoesOn, Reads, Following
  <2> QED
    BY <1>1, <1>4, <2>1 DEF Reading, Flushed
<1>7. ASSUME NEW n \in GraphNodes, ReadBefore(n) PROVE Reading'
  <2>1. /\ before' = [before EXCEPT ![n] = admitted[n]] /\ reading' = reading
        /\ observing = "before"
        /\ n \in left
        /\ \/ observing' = "before" /\ left' = left \ {n}
           \/ observing' = "source" /\ left \ {n} = {}
    BY <1>7 DEF ReadBefore, ReadOne, GoesOn, Reads, Following
  <2>2. /\ before' \in [GraphNodes -> Nat] /\ reading' = NoRead
        /\ \A k \in GraphNodes \ (left \ {n}) : before'[k] <= admitted[k]
    BY <1>3, <1>4, <2>1 DEF Reading
  <2> QED
    BY <1>1, <2>1, <2>2 DEF Reading, Flushed
<1>8. CASE ReadDomain
  <2>1. /\ before' = before /\ reading' = reading /\ observing \in {"source", "acks"}
        /\ left' = GraphNodes
        /\ observing' \in {"acks", "relays"}
    BY <1>8 DEF ReadDomain, GoesOn, Reads, Following
  <2>2. reading' = NoRead /\ Behind' = {}
    BY <1>4, <2>1 DEF Reading, Behind
  <2> QED
    BY <1>1, <1>4, <2>1, <2>2 DEF Reading, Flushed
<1>9. ASSUME NEW n \in GraphNodes, ReadHandedOn(n) PROVE Reading'
  <2>1. /\ before' = before /\ observing = "relays" /\ observing' = "relays" /\ left' = left \ {n}
        /\ n \in left /\ reading = NoRead /\ ~visible /\ visible' = visible
        /\ reading' = [relay |-> n, handed |-> handedOn[n]]
    BY <1>9 DEF ReadHandedOn
  <2>2. reading' # NoRead /\ reading'.relay = n /\ reading'.handed = handedOn[n]
    BY <2>1 DEF NoRead, Graph
  <2>3. Behind' = Behind
    BY <1>3, <2>1, <2>2 DEF Behind
  <2>4. Still' => Still
    BY <1>1, <2>1 DEF Still
  <2> QED
    BY <1>1, <1>2, <1>3, <1>4, <2>1, <2>2, <2>3, <2>4 DEF Reading, Flushed, Behind
<1>10. CASE ReadAdmitted
  <2>1. /\ before' = before /\ observing = "relays" /\ left' = left /\ reading # NoRead
        /\ \/ visible' = TRUE /\ reading' = NoRead /\ observing' = observing
           \/ /\ admitted[reading.relay] = reading.handed
              /\ observing' = "queue" /\ visible' = visible /\ reading' = reading
    BY <1>10 DEF ReadAdmitted
  <2>2. CASE visible' = TRUE /\ reading' = NoRead /\ observing' = observing
    BY <1>1, <1>4, <2>1, <2>2 DEF Reading, Flushed
  <2>3. CASE /\ admitted[reading.relay] = reading.handed
             /\ observing' = "queue" /\ visible' = visible /\ reading' = reading
    <3>1. /\ reading.relay \in GraphNodes /\ reading.handed \in Nat
          /\ reading.handed <= handedOn[reading.relay]
      BY <1>4, <2>1 DEF Reading
    <3>2. \A m \in Messages : Here(m) = reading.relay => at[m] # "relay"
      BY <2>3, <3>1, NoneHeld
    <3>3. (Still' => Still) /\ Behind' = Behind
      BY <1>1, <2>1, <2>3 DEF Still, Behind
    <3> QED
      BY <1>1, <1>2, <1>3, <1>4, <2>1, <2>3, <3>2, <3>3 DEF Reading, Flushed, Behind
  <2> QED
    BY <2>1, <2>2, <2>3
<1>11. CASE ReadQueue
  <2>1. /\ before' = before /\ observing = "queue" /\ reading' = NoRead
        /\ visible' = (queued[reading.relay] # 0)
        /\ \/ left = {} /\ observing' = "nodes" /\ left' = GraphNodes
           \/ left # {} /\ observing' = "relays" /\ left' = left
    BY <1>11 DEF ReadQueue, Reads
  <2>2. reading # NoRead /\ ~visible /\ reading.relay \in GraphNodes
    BY <1>4, <2>1 DEF Reading
  <2>3. ASSUME ~visible', Still'
        PROVE  \A n \in GraphNodes : n \notin left => Emptied(n)
    <3>1. Still
      BY <1>1, <2>1, <2>3 DEF Still
    <3>2. /\ \A n \in Behind : Emptied(n)
          /\ \A m \in Messages : Here(m) = reading.relay => at[m] # "relay"
      BY <1>4, <2>1, <2>2, <3>1 DEF Reading
    <3>3. \A m \in Messages : Here(m) = reading.relay => at[m] # "queue"
      BY <2>1, <2>2, <2>3, NoneQueued
    <3> QED
      BY <3>2, <3>3 DEF Behind, Emptied
  <2>4. \A m \in Messages : left' = GraphNodes => Here(m)' \in left'
    BY <1>2
  <2>5. /\ before' \in [GraphNodes -> Nat] /\ \A n \in GraphNodes : before'[n] <= admitted'[n]
    BY <1>1, <1>4, <2>1 DEF Reading, Flushed
  <2>6. ASSUME ~visible', Still', observing' = "relays" PROVE \A n \in Behind' : Emptied(n)'
    BY <1>2, <2>1, <2>3, <2>6 DEF Behind
  <2>7. ASSUME ~visible', Still', observing' = "nodes"
        PROVE  /\ \A n \in GraphNodes : Emptied(n)'
               /\ \A m \in Messages : Here(m)' \in left'
    BY <1>2, <2>1, <2>3, <2>4, <2>7
  <2> QED
    BY <2>1, <2>5, <2>6, <2>7 DEF Reading, Flushed
<1>12. ASSUME NEW n \in GraphNodes, ReadNode(n) PROVE Reading'
  <2>1. /\ before' = before /\ observing = "nodes" /\ reading' = reading /\ n \in left /\ ~visible
        /\ visible' = (guard[n] + shown[n] # 0) /\ owing' = owing
        /\ \/ observing' = "nodes" /\ left' = left \ {n}
           \/ observing' = "after" /\ left' = GraphNodes /\ left \ {n} = {}
    BY <1>12 DEF ReadNode, ReadOne, GoesOn, Reads, Following
  <2>2. /\ reading' = NoRead /\ before' \in [GraphNodes -> Nat]
        /\ \A k \in GraphNodes : before'[k] <= admitted'[k]
    BY <1>1, <1>4, <2>1 DEF Reading, Flushed
  <2>3. \A m \in Messages : Sure(m)' => Sure(m)
    BY <1>1, <2>1 DEF Sure
  <2>4. ASSUME ~visible', Still'
        PROVE  /\ \A k \in GraphNodes : Emptied(k)
               /\ \A m \in Messages : Sure(m) /\ Here(m) \notin left \ {n} =>
                    at[m] \notin {"node", "out"}
    <3>1. Still
      BY <1>1, <2>1, <2>4 DEF Still
    <3>2. /\ \A k \in GraphNodes : Emptied(k)
          /\ \A m \in Messages :
               Sure(m) /\ Here(m) \notin left => at[m] \notin {"node", "out"}
      BY <1>4, <2>1, <3>1 DEF Reading
    <3>3. \A m \in Messages : Sure(m) /\ Here(m) = n => at[m] \notin {"node", "out"}
      BY <2>1, <2>4, NoneWorked DEF Flushed
    <3> QED
      BY <3>2, <3>3
  <2>5. ASSUME ~visible', Still', observing' = "nodes"
        PROVE  /\ \A k \in GraphNodes : Emptied(k)'
               /\ \A m \in Messages : Sure(m)' /\ Here(m)' \notin left' =>
                    at'[m] \notin {"node", "out"}
    BY <1>1, <1>2, <2>1, <2>3, <2>4, <2>5
  <2>6. ASSUME ~visible', Still', observing' = "after", NEW m \in Messages, Sure(m)'
        PROVE  ~Moving(m)'
    <3>1. Sure(m) /\ left \ {n} = {} /\ Here(m) \in GraphNodes
      BY <1>2, <2>1, <2>3, <2>6
    <3> QED
      BY <1>2, <2>4, <2>6, <3>1 DEF Emptied, Moving
  <2> QED
    BY <2>1, <2>2, <2>5, <2>6 DEF Reading, Flushed
<1>13. ASSUME NEW n \in GraphNodes, ReadAfter(n) PROVE Reading'
  <2>1. /\ before' = before /\ observing = "after" /\ observing' = "after" /\ reading' = reading
        /\ n \in left /\ ~visible /\ left' = left \ {n}
        /\ visible' = (admitted[n] # before[n]) /\ owing' = owing
    BY <1>13 DEF ReadAfter, ReadOne, GoesOn, Reads, Following
  <2>2. /\ reading' = NoRead /\ before' \in [GraphNodes -> Nat]
        /\ \A k \in GraphNodes : before'[k] <= admitted'[k]
    BY <1>1, <1>4, <2>1 DEF Reading, Flushed
  <2>3. \A m \in Messages : Sure(m)' => Sure(m)
    BY <1>1, <2>1 DEF Sure
  <2>4. ASSUME ~visible', Still' PROVE Still
    BY <1>1, <2>1, <2>4 DEF Still
  <2>5. ASSUME ~visible', Still', NEW m \in Messages, Sure(m)' PROVE ~Moving(m)'
    BY <1>2, <1>4, <2>1, <2>3, <2>4, <2>5 DEF Reading
  <2> QED
    BY <2>1, <2>2, <2>5 DEF Reading, Flushed
<1> QED
  BY <1>5, <1>6, <1>7, <1>8, <1>9, <1>10, <1>11, <1>12, <1>13 DEF ReadStep

-----------------------------------------------------------------------------
\* The end of an observation that showed nothing: what is counted wherever it moves moves no more.
LEMMA CleanShows ==
    ASSUME DrainInv, Clean, NEW m \in Messages, Sure(m)
    PROVE  ~Moving(m)
<1>1. Still
  BY DEF Clean, Still
<1> QED
  BY <1>1 DEF DrainInv, Reading, Clean

\* An observation ends, and the generation to confirm it is requested or found done.
LEMMA EndKeeps ==
    ASSUME Graph, DrainInv, ClosingStep
    PROVE  DrainInv'
<1>1. /\ UNCHANGED <<at, hop, admitted, handedOn, queued, owner, guard, shown, task, generator,
                     intake, waited>>
      /\ observing' = "rest" /\ left' = {} /\ visible' = FALSE /\ owing' = FALSE /\ carried' = {}
      /\ before' = [n \in GraphNodes |-> 0] /\ reading' = NoRead
      /\ flush' = flush \/ flush' = [n \in GraphNodes |-> "available"]
  BY DEF ClosingStep, FlushIfIdle, Confirm, Confirmed, Ends,
       Reads, RequestFlush, RequestIfIdle, graph, relays,
       counts, source
<1>2. GraphTypes' /\ Counted' /\ WaitsCounted'
  <2>1. GraphTypes'
    BY <1>1 DEF DrainInv, GraphTypes, Placed, Numbers, Works
  <2>2. Counted'
    BY <1>1 DEF DrainInv, Counted, In, Here
  <2>3. WaitsCounted'
    BY <1>1 DEF DrainInv, WaitsCounted, Waited, Here, Ready, Showing
  <2> QED
    BY <2>1, <2>2, <2>3
<1>3. Tasks'
  BY <1>1 DEF DrainInv, Tasks, NodeTask, MessageTask, Here
<1>4. Reading' /\ Held' /\ FlushesDone'
  <2>1. owed' \subseteq Messages
    BY DEF ClosingStep, FlushIfIdle, Confirm, Confirmed, DrainInv, Held
  <2> QED
    BY <1>1, <2>1 DEF Reading, Held, FlushesDone, Flushed
<1>5. CASE FlushIfIdle
  <2>1. progress' = "draining" /\ observing # "rest"
    BY <1>5 DEF FlushIfIdle, DrainInv, IntakeClosed
  <2>2. IntakeClosed'
    BY <1>1, <2>1 DEF DrainInv, IntakeClosed, ObservingStages, Sourced
  <2> QED
    BY <1>2, <1>3, <1>4, <2>1, <2>2 DEF DrainInv, Owes, Quiet
<1>6. CASE Confirm
  <2>1. /\ progress' = "confirming" /\ flush' = [n \in GraphNodes |-> "available"] /\ Clean
        /\ owed' = {m \in Messages : Moving(m) \/ (at[m] = "parked" /\ Ready(m))}
    BY <1>6 DEF Confirm, RequestFlush
  <2>2. IntakeClosed'
    BY <1>1, <2>1 DEF DrainInv, IntakeClosed, Clean, ObservingStages, Sourced
  <2>3. ASSUME NEW m \in owed' PROVE Owing(m)'
    <3>1. m \in Messages /\ (Moving(m) \/ (at[m] = "parked" /\ Ready(m)))
      BY <2>1
    <3>2. Ready(m) /\ at[m] # "source"
      <4>1. CASE Moving(m)
        <5>1. m \in waited /\ at[m] # "parked" /\ at[m] # "source"
          BY <2>1, <3>1, <4>1, CleanShows DEF Sure, Moving
        <5> QED
          BY <3>1, <5>1 DEF DrainInv, WaitsCounted, Waited
      <4> QED
        BY <3>1, <4>1
    <3>3. Here(m)' \in GraphNodes /\ flush'[Here(m)'] = "available"
      BY <1>1, <2>1, <3>1, HereIn, SameHere DEF DrainInv
    <3> QED
      BY <1>1, <3>1, <3>2, <3>3 DEF Owing, Flushes, Ready
  <2> QED
    BY <1>2, <1>3, <1>4, <2>1, <2>2, <2>3 DEF DrainInv, Owes, Quiet
<1>7. CASE Confirmed
  <2>1. /\ progress = "confirming" /\ Clean /\ flush' = flush /\ owed' = owed
        /\ progress' = IF owing THEN "confirming" ELSE "quiescent"
    BY <1>7 DEF Confirmed
  <2>2. IntakeClosed'
    BY <1>1, <2>1 DEF DrainInv, IntakeClosed, Clean, ObservingStages, Sourced
  <2>3. Owes'
    BY <1>1, <2>1 DEF DrainInv, Owes, Owing, Flushes, Showing, Here, Ready
  <2>4. ASSUME ~owing, NEW m \in owed PROVE m \in Messages /\ at[m] = "done"
    <3>1. m \in Messages /\ at[m] # "source" /\ Sure(m)
      BY <2>1, <2>4 DEF DrainInv, Owes, Owing, Sure
    <3>2. at[m] # "parked"
      BY <2>1, <3>1, SureCounted DEF Clean, Flushed
    <3>3. ~Moving(m)
      BY <2>1, <3>1, CleanShows
    <3>4. at[m] \in Places
      BY <3>1 DEF DrainInv, GraphTypes, Placed
    <3> QED
      BY <3>1, <3>2, <3>3, <3>4 DEF Places, Moving
  <2>5. ASSUME NEW m \in Messages, Moving(m) PROVE m \in waited
    BY <2>1, <2>5, CleanShows DEF Sure
  <2>6. Quiet'
    BY <1>1, <2>1, <2>4, <2>5 DEF Quiet, Moving
  <2> QED
    BY <1>2, <1>3, <1>4, <2>2, <2>3, <2>6 DEF DrainInv
<1> QED
  BY <1>5, <1>6, <1>7 DEF ClosingStep

\* The generator, the closing of the intake and the end of the time for the drain.
LEMMA OtherKeeps ==
    ASSUME Graph, DrainInv, OtherStep
    PROVE  DrainInv'
<1>1. /\ UNCHANGED <<at, hop, admitted, handedOn, queued, owner, guard, shown, task, flush, waited,
                     observation, carried, owed>>
  BY DEF OtherStep, GeneratorLoop, PauseGenerator, CloseIntake,
       AbandonDrain, graph, relays, counts, history
<1>2. GraphInv'
  BY <1>1, GraphUnmoved DEF DrainInv, GraphInv, graphState, graph, relays,
       counts
<1>3. Held'
  BY <1>1 DEF DrainInv, Held
<1>4. CASE GeneratorLoop \/ PauseGenerator
  <2>1. progress' = progress /\ intake' = intake
    BY <1>4 DEF GeneratorLoop, PauseGenerator
  <2>2. IntakeClosed'
    <3>1. generator' \in {"paused", "decided", "active", "produce", "stopped"}
      BY <1>4 DEF GeneratorLoop, PauseGenerator
    <3>2. intake = "closed" /\ generator # "produce" => generator' # "produce"
      BY <1>4 DEF GeneratorLoop, PauseGenerator
    <3> QED
      BY <1>1, <2>1, <3>1, <3>2 DEF DrainInv, IntakeClosed, observation, Sourced
  <2>3. Owes'
    BY <1>1, <2>1 DEF DrainInv, Owes, Owing, Flushes, Showing, Here, Ready
  <2>4. FlushesDone' /\ Quiet'
    BY <1>1, <2>1 DEF DrainInv, FlushesDone, Quiet, Moving, observation
  <2>5. Reading'
    BY <1>1, <2>1 DEF DrainInv, Reading, Still, Behind, Emptied, Sure, Moving,
         Here, observation
  <2> QED
    BY <1>2, <1>3, <2>2, <2>3, <2>4, <2>5 DEF DrainInv, GraphInv
<1>5. CASE CloseIntake \/ AbandonDrain
  <2>1. /\ generator' = generator /\ observing = "rest" /\ progress' \in {"draining", "abandoned"}
        /\ progress' = "draining" => intake' = "closed"
        /\ progress' = "abandoned" => progress # "running" /\ intake' = intake
    BY <1>5 DEF CloseIntake, AbandonDrain, source, DrainInv, IntakeClosed
  <2>2. IntakeClosed'
    BY <1>1, <2>1 DEF DrainInv, IntakeClosed, observation, Sourced
  <2>3. Owes' /\ FlushesDone' /\ Quiet'
    BY <2>1 DEF Owes, FlushesDone, Quiet
  <2>4. Reading'
    BY <1>1, <2>1 DEF DrainInv, Reading, observation, Flushed
  <2> QED
    BY <1>2, <1>3, <2>2, <2>3, <2>4 DEF DrainInv, GraphInv
<1> QED
  BY <1>4, <1>5 DEF OtherStep

\* Nothing happens.
LEMMA StutterKeeps ==
    ASSUME DrainInv, UNCHANGED drainVars
    PROVE  DrainInv'
<1> USE DEF drainVars, graph, relays, counts, source,
           observation, history
<1>1. GraphInv'
  BY GraphUnmoved DEF DrainInv, GraphInv, graphState
<1>2. Owes'
  BY DEF DrainInv, Owes, Owing, Flushes, Showing, Here, Ready
<1>3. IntakeClosed' /\ FlushesDone' /\ Held' /\ Quiet'
  BY DEF DrainInv, IntakeClosed, FlushesDone, Held, Quiet, Moving
<1>4. Reading'
  BY DEF DrainInv, Reading, Still, Behind, Emptied, Sure, Moving, Here
<1> QED
  BY <1>1, <1>2, <1>3, <1>4 DEF DrainInv, GraphInv

\* At first messages are in relays, parked or in their source.
LEMMA InitHolds ==
    ASSUME Graph, DrainInit
    PROVE  DrainInv
<1>1. Placed
  BY DEF DrainInit, Placed, Places, Graph
<1>2. \A n \in GraphNodes : In(n, "relay") = {m \in Messages : at[m] = "relay" /\ Path[m][1] = n}
  BY DEF DrainInit, In, Here
<1>3. \A n \in GraphNodes : Cardinality(In(n, "relay")) \in Nat
  BY InFinite
<1>4. admitted = [n \in GraphNodes |-> Cardinality(In(n, "relay"))]
  BY <1>2 DEF DrainInit
<1>5. /\ handedOn = [n \in GraphNodes |-> 0] /\ queued = [n \in GraphNodes |-> 0]
      /\ owner = [n \in GraphNodes |-> FALSE] /\ guard = [n \in GraphNodes |-> 0]
      /\ shown = [n \in GraphNodes |-> 0]
  BY DEF DrainInit
<1>a. Numbers
  <2>1. admitted \in [GraphNodes -> Nat]
    BY <1>3, <1>4
  <2> QED
    BY <1>5, <2>1 DEF Numbers
<1>6. Works
  BY DEF DrainInit, Works, Idle, Steps
<1>7. Counted
  <2>1. \A n \in GraphNodes : In(n, "queue") = {}
    BY DEF DrainInit, In, Graph
  <2> SUFFICES ASSUME NEW n \in GraphNodes
               PROVE  /\ admitted[n] = handedOn[n] + Cardinality(In(n, "relay"))
                                          + (IF owner[n] THEN 1 ELSE 0)
                      /\ queued[n] = Cardinality(In(n, "queue"))
    BY DEF Counted
  <2>2. admitted[n] = Cardinality(In(n, "relay")) /\ Cardinality(In(n, "relay")) \in Nat
    BY <1>3, <1>4
  <2>3. Cardinality(In(n, "queue")) = 0
    BY <2>1, FS_EmptySet
  <2> QED
    BY <1>5, <2>2, <2>3
<1>8. Tasks
  BY DEF DrainInit, Tasks, NodeTask, MessageTask, Idle
<1>9. WaitsCounted
  BY DEF DrainInit, WaitsCounted, Waited, Graph
<1>10. Owes /\ IntakeClosed /\ FlushesDone /\ Held /\ Quiet
  BY DEF DrainInit, Owes, IntakeClosed, FlushesDone, Held, Quiet, ObservingStages, Flushed,
       Sourced
<1>11. Reading
  BY DEF DrainInit, Reading, Flushed
<1> QED
  BY <1>1, <1>6, <1>7, <1>8, <1>9, <1>10, <1>11, <1>a DEF DrainInv, GraphTypes

\* On any finite graph, whatever the messages wait for: an observation that shows nothing missed
\* nothing that moved as it began, unless it was parked; a domain is quiescent only once all that
\* its confirming generation owed has ended, and with it every message that never waited
\* (LocalDomainDrainStatus::observe and progress, force_flush_domain).
THEOREM DrainNeverMisses ==
    ASSUME Graph
    PROVE  DrainSpec => []DrainMissesNothing
<1>1. DrainInit => DrainInv
  BY InitHolds
<1>2. DrainInv /\ [DrainNext]_drainVars => DrainInv'
  <2> SUFFICES ASSUME DrainInv, [DrainNext]_drainVars PROVE DrainInv'
    OBVIOUS
  <2>1. CASE GraphStep
    <3>1. GraphInv' /\ Owes'
      BY <2>1, GraphStepKeeps, OwesKept DEF DrainInv, GraphInv
    <3> QED
      BY <2>1, <3>1, GraphKeepsClosed, GraphKeepsReading DEF DrainInv, GraphInv
  <2>2. CASE ReadStep
    BY <2>2, ReadKeepsGraph, ReadKeepsClosed, ReadKeepsReading DEF DrainInv, GraphInv
  <2> QED
    BY <2>1, <2>2, EndKeeps, OtherKeeps, StutterKeeps, NextSplits
<1>3. DrainInv => NothingMissed /\ ConfirmedEnded /\ QuiescentEnded
  <2> SUFFICES ASSUME DrainInv
               PROVE  NothingMissed /\ ConfirmedEnded /\ QuiescentEnded
    OBVIOUS
  <2>1. NothingMissed
    <3> SUFFICES ASSUME Clean, NEW m \in carried, m \notin waited PROVE at[m] = "done"
      BY DEF NothingMissed
    <3>1. m \in Messages /\ at[m] # "source" /\ at[m] # "parked" /\ at[m] \in Places
      BY DEF DrainInv, Held, WaitsCounted, Waited, GraphTypes, Placed
    <3>2. ~Moving(m)
      BY <3>1, CleanShows DEF Sure
    <3> QED
      BY <3>1, <3>2 DEF Moving, Places
  <2>2. ConfirmedEnded /\ QuiescentEnded
    BY DEF DrainInv, Quiet, IntakeClosed, ConfirmedEnded, QuiescentEnded
  <2> QED
    BY <2>1, <2>2
<1>4. DrainInv => DrainTypeOK
  <2> SUFFICES ASSUME DrainInv PROVE DrainTypeOK
    OBVIOUS
  <2>1. queued \in [GraphNodes -> Nat]
    <3>1. \A n \in GraphNodes : queued[n] = Cardinality(In(n, "queue"))
      BY DEF DrainInv, Counted
    <3> QED
      BY <3>1, InFinite DEF DrainInv, GraphTypes, Numbers
  <2>2. /\ owing \in BOOLEAN /\ visible \in BOOLEAN
        /\ reading # NoRead => reading.relay \in GraphNodes /\ reading.handed \in Nat
        /\ before \in [GraphNodes -> Nat]
    BY DEF DrainInv, IntakeClosed, Reading
  <2> QED
    BY <2>1, <2>2
    DEF DrainTypeOK, DrainInv, GraphTypes, Placed, Numbers, Works, IntakeClosed, Held
<1>5. DrainInv => DrainMissesNothing
  BY <1>3, <1>4 DEF DrainMissesNothing
<1> QED
  BY <1>1, <1>2, <1>5, PTL DEF DrainSpec
=============================================================================
