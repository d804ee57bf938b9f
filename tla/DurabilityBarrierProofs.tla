---------------------- MODULE DurabilityBarrierProofs ----------------------
(***************************************************************************)
(* What the durability barrier promises, for any number of writers, and,   *)
(* for any replicas, announcers and waiters, that the replication of       *)
(* checkpoints announces what it offers.                                   *)
(***************************************************************************)
EXTENDS DurabilityBarrier, CheckpointReplication, TLAPS

\* Tickets are numbered by `issued`, and only calls that applied their write have one.
Tickets ==
    /\ synchronized <= issued /\ round.covered <= issued
    /\ \A w \in Writers :
         /\ ticket[w] <= issued
         /\ step[w] \in {"idle", "applied"} <=> ticket[w] = 0

\* A write that was applied is still to be flushed, was flushed, or was lost by a
\* flush after which the database flushes no more.
Somewhere ==
    /\ \A w \in Writers : step[w] # "idle" => w \in dirty \/ w \in stable \/ w \in lost
    /\ lost # {} => poisoned = "yes"

\* The call that claimed a round holds it until a job takes it.
Claimant ==
    /\ \A w \in Writers : step[w] = "reserve" => round.phase = "claimed"
    /\ \A v, w \in Writers : step[v] = "reserve" /\ step[w] = "reserve" => v = w

\* The writes whose tickets a round covers are the ones its flush carries.
Covered ==
    /\ round.phase \in {"flushing", "flushed"} => poisoned = "no"
    /\ \A w \in Writers :
         ticket[w] # 0 /\ ticket[w] <= round.covered =>
           /\ round.phase = "flushing" => w \in stable \/ w \in carried
           /\ round.phase = "flushed" => w \in stable

\* What `synchronized` says of a ticket is true of its write.
Synchronized ==
    \A w \in Writers :
      /\ ticket[w] # 0 /\ ticket[w] <= synchronized => w \in stable
      /\ step[w] = "durable" => ticket[w] <= synchronized

Inv == TypeOK /\ Tickets /\ Somewhere /\ Claimant /\ Covered /\ Synchronized /\ NoLostWakeup

USE DEF Goto, NoRound, callVars, barrierVars, storeVars

\* The barrier starts without calls.
LEMMA InitInv == Init => Inv
  BY DEF Init, Inv, TypeOK, Tickets, Somewhere, Claimant, Covered, Synchronized, NoLostWakeup,
       Steps, Phases

\* A step of a call.
LEMMA CallInv ==
    ASSUME Inv, NEW w \in Writers,
           Apply(w) \/ Call(w) \/ Refuse(w) \/ Cancel(w)
    PROVE  Inv'
<1> USE DEF Inv
<1>1. CASE Apply(w)
  BY <1>1 DEF Apply, TypeOK, Tickets, Somewhere, Claimant, Covered, Synchronized, NoLostWakeup,
       Steps
<1>2. CASE Issue(w)
  BY <1>2 DEF Issue, TypeOK, Tickets, Somewhere, Claimant, Covered, Synchronized, NoLostWakeup,
       Steps
<1>3. CASE Enable(w)
  BY <1>3 DEF Enable, TypeOK, Tickets, Somewhere, Claimant, Covered, Synchronized,
       NoLostWakeup, Steps
<1>4. CASE Look(w)
  BY <1>4 DEF Look, TypeOK, Tickets, Somewhere, Claimant, Covered, Synchronized, NoLostWakeup,
       Steps
<1>5. CASE LookFailed(w)
  BY <1>5 DEF LookFailed, TypeOK, Tickets, Somewhere, Claimant, Covered, Synchronized,
       NoLostWakeup, Steps
<1>6. CASE Claim(w)
  BY <1>6 DEF Claim, TypeOK, Tickets, Somewhere, Claimant, Covered, Synchronized, NoLostWakeup,
       Steps, Phases
<1>7. CASE Wake(w)
  BY <1>7 DEF Wake, TypeOK, Tickets, Somewhere, Claimant, Covered, Synchronized, NoLostWakeup,
       Steps
<1>8. CASE Admit(w)
  BY <1>8 DEF Admit, TypeOK, Tickets, Somewhere, Claimant, Covered, Synchronized, NoLostWakeup,
       Steps, Phases
<1>9. CASE Refuse(w)
  BY <1>9 DEF Refuse, TypeOK, Tickets, Somewhere, Claimant, Covered, Synchronized,
       NoLostWakeup, Steps, Phases
<1>10. CASE Cancel(w)
  BY <1>10 DEF Cancel, TypeOK, Tickets, Somewhere, Claimant, Covered, Synchronized,
       NoLostWakeup, Steps, Phases
<1> QED
  BY <1>1, <1>2, <1>3, <1>4, <1>5, <1>6, <1>7, <1>8, <1>9, <1>10 DEF Call

\* A step of the round, or of the signal that follows it.
LEMMA RoundInv ==
    ASSUME Inv,
           Job \/ DropJob \/ FlushFails("failed") \/ FlushFails("ending") \/ Signal
    PROVE  Inv'
<1> USE DEF Inv
<1>1. CASE Start
  <2>1. round'.phase = "started" /\ round'.covered = issued
    BY <1>1 DEF Start, TypeOK
  <2>2. TypeOK'
    BY <1>1 DEF Start, TypeOK, Phases
  <2>3. Tickets' /\ Somewhere' /\ NoLostWakeup'
    BY <1>1, <2>1 DEF Start, TypeOK, Tickets, Somewhere, NoLostWakeup
  <2>4. Claimant' /\ Covered' /\ Synchronized'
    BY <1>1, <2>1 DEF Start, TypeOK, Tickets, Claimant, Covered, Synchronized
  <2> QED
    BY <2>2, <2>3, <2>4
<1>2. CASE DropJob
  BY <1>2 DEF DropJob, TypeOK, Tickets, Somewhere, Claimant, Covered, Synchronized,
       NoLostWakeup, Phases
<1>3. CASE Flush
  BY <1>3 DEF Flush, TypeOK, Tickets, Somewhere, Claimant, Covered, Synchronized, NoLostWakeup,
       Phases
<1>4. CASE FlushSucceeds
  BY <1>4 DEF FlushSucceeds, TypeOK, Tickets, Somewhere, Claimant, Covered, Synchronized,
       NoLostWakeup, Phases
<1>5. ASSUME NEW phase \in {"failed", "ending"}, FlushFails(phase) PROVE Inv'
  BY <1>5 DEF FlushFails, TypeOK, Tickets, Somewhere, Claimant, Covered, Synchronized,
       NoLostWakeup, Phases
<1>6. CASE Succeeded
  <2>1. round'.phase = "ending" /\ round'.covered = 0
    BY <1>6 DEF Succeeded, TypeOK
  <2>2. TypeOK'
    BY <1>6 DEF Succeeded, TypeOK, Phases
  <2>3. Tickets' /\ Somewhere' /\ NoLostWakeup'
    BY <1>6, <2>1 DEF Succeeded, TypeOK, Tickets, Somewhere, NoLostWakeup
  <2>4. Claimant' /\ Covered' /\ Synchronized'
    BY <1>6, <2>1 DEF Succeeded, TypeOK, Tickets, Claimant, Covered, Synchronized
  <2> QED
    BY <2>2, <2>3, <2>4
<1>7. CASE Failed
  <2>1. round'.phase = "ending" /\ round'.covered = 0
    BY <1>7 DEF Failed, TypeOK
  <2>2. TypeOK'
    BY <1>7 DEF Failed, TypeOK, Phases
  <2>3. Tickets' /\ Somewhere' /\ NoLostWakeup'
    BY <1>7, <2>1 DEF Failed, TypeOK, Tickets, Somewhere, NoLostWakeup
  <2>4. Claimant' /\ Covered' /\ Synchronized'
    BY <1>7, <2>1 DEF Failed, TypeOK, Tickets, Claimant, Covered, Synchronized
  <2> QED
    BY <2>2, <2>3, <2>4
<1>8. CASE DropStarted
  BY <1>8 DEF DropStarted, TypeOK, Tickets, Somewhere, Claimant, Covered, Synchronized,
       NoLostWakeup, Phases
<1>9. CASE Free
  <2>1. \A w \in Writers : /\ step'[w] = "durable" => step[w] = "durable"
                           /\ step'[w] = "waits" => step[w] = "waits"
                           /\ step'[w] = "reserve" => step[w] = "reserve"
                           /\ step'[w] = "idle" <=> step[w] = "idle"
                           /\ step'[w] \in {"idle", "applied"} <=> step[w] \in {"idle", "applied"}
                           /\ step'[w] \in Steps
    BY <1>9 DEF Free, Answered, TypeOK, Steps
  <2>2. step' \in [Writers -> Steps]
    BY <1>9, <2>1 DEF Free, Answered
  <2>3. TypeOK'
    BY <1>9, <2>2 DEF Free, TypeOK, Phases
  <2>4. Tickets' /\ Somewhere' /\ NoLostWakeup'
    BY <1>9, <2>1 DEF Free, TypeOK, Tickets, Somewhere, NoLostWakeup
  <2>5. Claimant' /\ Covered' /\ Synchronized'
    BY <1>9, <2>1 DEF Free, TypeOK, Tickets, Claimant, Covered, Synchronized
  <2> QED
    BY <2>3, <2>4, <2>5
<1>10. CASE Signal
  BY <1>10 DEF Signal, TypeOK, Tickets, Somewhere, Claimant, Covered, Synchronized,
       NoLostWakeup
<1> QED
  BY <1>1, <1>2, <1>3, <1>4, <1>5, <1>6, <1>7, <1>8, <1>9, <1>10 DEF Job

\* The invariant holds of every behaviour.
THEOREM Invariance == Spec => []Inv
<1>1. Inv /\ [Next]_vars => Inv'
  <2> SUFFICES ASSUME Inv, [Next]_vars PROVE Inv'
    OBVIOUS
  <2>1. CASE Next
    BY <2>1, CallInv, RoundInv DEF Next
  <2>2. CASE UNCHANGED vars
    BY <2>2 DEF vars, Inv, TypeOK, Tickets, Somewhere, Claimant, Covered, Synchronized,
         NoLostWakeup
  <2> QED
    BY <2>1, <2>2
<1> QED
  BY InitInv, <1>1, PTL DEF Spec

\* A write reported durable is on stable storage, whoever flushed it and whatever
\* failed meanwhile.
THEOREM DurablePromises == Spec => []PromisesKept
<1>1. Inv => PromisesKept
  BY DEF Inv, Tickets, Synchronized, PromisesKept
<1> QED
  BY Invariance, <1>1, PTL

\* No waiting writer misses the end of the round it waits for.
THEOREM WaitersSignalled == Spec => []NoLostWakeup
<1>1. Inv => NoLostWakeup
  BY DEF Inv
<1> QED
  BY Invariance, <1>1, PTL

-----------------------------------------------------------------------------
(* The replication of a placement's checkpoints, CheckpointReplication.        *)

\* The bounds are numbers, and the first replicas are replicas.
Bounds == FirstReplicas \subseteq Replicas /\ {MaxRevision, MaxChanges, MaxLosses} \subseteq Nat

\* A report under way is of a revision its replica holds.
ReportsHeld == \A m \in messages : m.kind = "held" => m.revision <= held[m.replica]

\* At most one announcer runs.
Alone == \A a, b \in Live : a = b

\* One runs exactly while a revision is offered.
Attended ==
  announcement # Retired =>
    (announcement.state = "offering" <=> Live # {})

\* The inductive invariant.
OfferInv == ReplicationTypeOK /\ ReportsHeld /\ Alone /\ Attended /\ WaitersWoken

LEMMA InitOffers ==
  ASSUME Bounds, ReplicationInit
  PROVE  OfferInv
<1> USE DEF ReplicationInit, Bounds
<1>0. /\ 0 \in Revisions
      /\ NoWait \in
           [at : {"none", "registered", "asleep"}, revision : Revisions,
            notified : BOOLEAN, replicas : SUBSET Replicas]
      /\ NoTask \in [at : {"none", "ready", "read", "sending", "asleep"},
                     replicas : SUBSET Replicas, lagging : SUBSET Replicas]
  BY DEF NoTask, NoWait, Revisions
<1>1. ReplicationTypeOK
  <2>1. primary \in BOOLEAN /\ closed \in BOOLEAN
    OBVIOUS
  <2>2. changes \in 0..MaxChanges /\ losses \in 0..MaxLosses /\ signals \in Nat
        /\ \A n \in Replicas : progress[n] <= held[n] /\ held[n] <= written
    OBVIOUS
  <2>3. announcer \in [Announcers -> [at : {"none", "ready", "read", "sending", "asleep"},
                     replicas : SUBSET Replicas, lagging : SUBSET Replicas]]
    BY <1>0
  <2>4. waiter \in [Waiters -> [at : {"none", "registered", "asleep"}, revision : Revisions,
                               notified : BOOLEAN, replicas : SUBSET Replicas]]
    BY <1>0
  <2> QED
    BY <1>0, <2>1, <2>2, <2>3, <2>4 DEF ReplicationTypeOK
<1>2. Live = {}
  BY DEF Live, NoTask
<1>3. ReportsHeld /\ WaitersWoken
  BY DEF ReportsHeld, WaitersWoken, NoWait
<1> QED
  BY <1>1, <1>2, <1>3 DEF OfferInv, Alone, Attended, Idle

\* Announcements are told apart by their state.
LEMMA States ==
  ASSUME NEW r
  PROVE  /\ Idle.state = "idle" /\ Retired.state = "retired"
         /\ Offering(r).state = "offering"
         /\ Offering(r).revision = r
         /\ Idle # Retired /\ Offering(r) # Retired
         /\ Offering(r) # Idle
BY DEF Idle, Retired, Offering

LEMMA WriteStep ==
  ASSUME Bounds, OfferInv, Write
  PROVE  OfferInv'
<1> USE DEF Write, scheduleVars, replicaVars
<1>1. ReplicationTypeOK'
  BY DEF OfferInv, ReplicationTypeOK, Revisions, Bounds
<1>2. ReportsHeld' /\ WaitersWoken'
  BY DEF OfferInv, ReportsHeld, WaitersWoken, Awaiting
<1>3. Live' = Live
  BY DEF Live
<1> QED
  BY <1>1, <1>2, <1>3 DEF OfferInv, Alone, Attended

LEMMA OfferStep ==
  ASSUME Bounds, OfferInv, NEW r \in 1..MaxRevision, Offer(r)
  PROVE  OfferInv'
<1>1. UNCHANGED <<written, progress, scheduleVars, messages, replicaVars, waiter, losses>>
  BY DEF Offer
<1>2. r \in Nat \ {0} /\ written \in Nat /\ unoffered' \subseteq 1..written
  BY DEF OfferInv, ReplicationTypeOK, Offer, Bounds, Revisions
<1>3. announcement' \in {Idle, Retired} \cup {Offering(q) : q \in 1..MaxRevision}
  <2>1. CASE announcement.state = "idle"
    BY <2>1, States DEF Offer, OfferInv, ReplicationTypeOK, Bounds
  <2>2. CASE announcement.state = "offering"
    <3>1. PICK q \in 1..MaxRevision : announcement = Offering(q)
      BY <2>2, States DEF OfferInv, ReplicationTypeOK
    <3>2. announcement' = Offering(Larger(q, r))
      BY <2>2, <3>1, States DEF Offer, OfferedBoth
    <3> QED
      BY <3>2 DEF Larger
  <2>3. CASE announcement = Retired
    BY <2>3, States DEF Offer
  <2> QED
    BY <2>1, <2>2, <2>3 DEF Offer
<1>4. announcer' \in [Announcers -> [at : {"none", "ready", "read", "sending", "asleep"},
                                     replicas : SUBSET Replicas, lagging : SUBSET Replicas]]
  BY DEF Offer, OfferInv, ReplicationTypeOK, NoTask
<1>5. ReplicationTypeOK'
  BY <1>1, <1>2, <1>3, <1>4 DEF OfferInv, ReplicationTypeOK, scheduleVars,
       replicaVars
<1>6. ReportsHeld' /\ WaitersWoken'
  BY <1>1 DEF OfferInv, ReportsHeld, WaitersWoken, Awaiting,
       replicaVars
<1>7. Alone' /\ Attended'
  <2>1. CASE announcement.state = "idle"
    <3>1. Live = {}
      BY <2>1, States DEF OfferInv, Attended
    <3>2. PICK a \in Announcers : announcer' = [announcer EXCEPT ![a] = [NoTask EXCEPT !.at = "ready"]]
      BY <2>1, States DEF Offer
    <3>3. announcement' = Offering(r)
      BY <2>1, States DEF Offer
    <3>4. Live' = {a}
      BY <3>1, <3>2 DEF Live, NoTask, OfferInv, ReplicationTypeOK
    <3> QED
      BY <3>3, <3>4, States DEF Alone, Attended
  <2>2. CASE announcement.state # "idle"
    <3>1. announcer' = announcer
      BY <2>2 DEF Offer
    <3>2. Live' = Live
      BY <3>1 DEF Live
    <3>3. CASE announcement.state = "offering"
      BY <2>2, <3>2, <3>3, States DEF OfferInv, Alone, Attended, Offer,
           OfferedBoth
    <3>4. CASE announcement = Retired
      BY <2>2, <3>2, <3>4, States DEF OfferInv, Alone, Attended, Offer
    <3> QED
      BY <2>2, <3>3, <3>4 DEF Offer
  <2> QED
    BY <2>1, <2>2
<1> QED
  BY <1>5, <1>6, <1>7 DEF OfferInv

\* An announcer that goes on, or ends.
LEMMA AnnouncerStep ==
  ASSUME Bounds, OfferInv, NEW a \in Announcers,
         NEW t \in [at : {"none", "ready", "read", "sending", "asleep"},
                    replicas : SUBSET Replicas, lagging : SUBSET Replicas],
         announcer[a].at # "none",
         announcer' = [announcer EXCEPT ![a] = t],
         messages' = messages \/ \E n \in Replicas :
           messages' = messages \cup {[kind |-> "available", replica |-> n, revision |-> 0]},
         UNCHANGED <<ownerVars, progress, scheduleVars, replicaVars, waiter, losses>>,
         \/ t.at # "none" /\ UNCHANGED announcement
         \/ t.at = "none" /\ announcement.state = "offering" /\ announcement' = Idle
         \/ t.at = "none" /\ announcement.state # "offering" /\ UNCHANGED announcement
  PROVE  OfferInv'
<1> USE DEF ownerVars, scheduleVars, replicaVars
<1>0. announcement' \in {Idle, announcement}
  OBVIOUS
<1>1. messages' \subseteq [kind : {"available", "held"}, replica : Replicas, revision : Revisions]
  BY DEF OfferInv, ReplicationTypeOK, Bounds, Revisions
<1>2. ReplicationTypeOK'
  BY <1>0, <1>1 DEF OfferInv, ReplicationTypeOK
<1>3. ReportsHeld' /\ WaitersWoken'
  BY DEF OfferInv, ReportsHeld, WaitersWoken, Awaiting
<1>4. Live = {a}
  BY DEF Live, OfferInv, Alone
<1>5. Live' = IF t.at = "none" THEN {} ELSE {a}
  BY <1>4 DEF Live, OfferInv, ReplicationTypeOK
<1>6. Alone'
  BY <1>5 DEF Alone
<1>7. Attended'
  BY <1>4, <1>5, States DEF OfferInv, Attended
<1> QED
  BY <1>2, <1>3, <1>6, <1>7 DEF OfferInv

LEMMA AnnouncingStep ==
  ASSUME Bounds, OfferInv, NEW a \in Announcers, Announcing(a)
  PROVE  OfferInv'
<1> DEFINE Task == [at : {"none", "ready", "read", "sending", "asleep"},
                    replicas : SUBSET Replicas, lagging : SUBSET Replicas]
<1>1. announcer[a] \in Task /\ assigned \subseteq Replicas
  BY DEF OfferInv, ReplicationTypeOK
<1>2. CASE ReadAssignment(a)
  <2>1. PICK t : t = [announcer[a] EXCEPT !.at = "read", !.replicas = assigned]
    OBVIOUS
  <2>2. t \in Task /\ t.at = "read"
    BY <1>1, <2>1
  <2> QED
    BY <1>2, <2>1, <2>2, AnnouncerStep DEF ReadAssignment
<1>3. CASE Leave(a)
  <2>1. NoTask \in Task /\ NoTask.at = "none"
    BY DEF NoTask
  <2> QED
    BY <1>3, <2>1, AnnouncerStep DEF Leave, End, HandBack
<1>4. CASE Finish(a)
  <2>1. NoTask \in Task /\ NoTask.at = "none"
    BY DEF NoTask
  <2> QED
    BY <1>4, <2>1, AnnouncerStep DEF Finish, End
<1>5. CASE Announce(a)
  <2> DEFINE lagging == Awaiting(announcer[a].replicas, announcement.revision)
  <2>1. lagging \subseteq Replicas
    BY <1>1 DEF Awaiting
  <2>2. PICK t : t = [announcer[a] EXCEPT !.at = "sending", !.lagging = lagging]
    OBVIOUS
  <2>3. t \in Task /\ t.at = "sending"
    BY <1>1, <2>1, <2>2
  <2> QED
    BY <1>5, <2>2, <2>3, AnnouncerStep DEF Announce
<1>6. CASE Retry(a)
  <2>1. PICK t : t = [NoTask EXCEPT !.at = "ready"]
    OBVIOUS
  <2>2. t \in Task /\ t.at = "ready"
    BY <2>1 DEF NoTask
  <2> QED
    BY <1>6, <2>1, <2>2, AnnouncerStep DEF Retry
<1>7. ASSUME NEW n \in Replicas, Dispatch(a, n) PROVE OfferInv'
  <2> DEFINE rest == announcer[a].lagging \ {n}
  <2>1. PICK t : /\ t = [announcer[a] EXCEPT !.lagging = rest,
                            !.at = IF rest = {} THEN "asleep" ELSE "sending"]
                 /\ announcer' = [announcer EXCEPT ![a] = t]
    BY <1>7 DEF Dispatch
  <2>2. t \in Task /\ t.at # "none"
    BY <1>1, <1>7, <2>1 DEF Dispatch
  <2> QED
    BY <1>7, <2>1, <2>2, AnnouncerStep DEF Dispatch
<1> QED
  BY <1>2, <1>3, <1>4, <1>5, <1>6, <1>7 DEF Announcing

LEMMA HearStep ==
  ASSUME Bounds, OfferInv, NEW m \in messages, Hear(m) \/ Lose(m)
  PROVE  OfferInv'
<1>1. /\ UNCHANGED <<written, unoffered, announcement, progress, announcer, primary, assigned,
                     closed, held, waiter, signals, changes>>
      /\ messages' \subseteq messages
      /\ losses' \in 0..MaxLosses
      /\ permit' \subseteq permit \cup {m.replica}
  BY DEF Hear, Lose, ownerVars, scheduleVars,
       replicaVars, OfferInv, ReplicationTypeOK, Bounds
<1>2. m.replica \in Replicas
  BY DEF OfferInv, ReplicationTypeOK
<1>3. ReplicationTypeOK'
  BY <1>1, <1>2 DEF OfferInv, ReplicationTypeOK
<1>4. ReportsHeld' /\ WaitersWoken'
  BY <1>1 DEF OfferInv, ReportsHeld, WaitersWoken, Awaiting
<1>5. Live' = Live
  BY <1>1 DEF Live
<1> QED
  BY <1>1, <1>3, <1>4, <1>5 DEF OfferInv, Alone, Attended

LEMMA SynchronizeStep ==
  ASSUME Bounds, OfferInv, NEW n \in Replicas, Synchronize(n)
  PROVE  OfferInv'
<1>1. /\ UNCHANGED <<written, unoffered, announcement, progress, announcer, primary, assigned,
                     closed, waiter, signals, changes, losses>>
      /\ held' = [held EXCEPT ![n] = written]
      /\ messages' = messages \cup {[kind |-> "held", replica |-> n, revision |-> written]}
      /\ permit' \subseteq permit
  BY DEF Synchronize, ownerVars, scheduleVars,
       Send
<1>2. /\ \A k \in Replicas : held[k] <= held'[k] /\ held'[k] <= written /\ progress[k] <= held'[k]
      /\ held' \in [Replicas -> Revisions]
      /\ held'[n] = written
  BY <1>1 DEF OfferInv, ReplicationTypeOK, Revisions, Bounds
<1>3. messages' \subseteq [kind : {"available", "held"}, replica : Replicas, revision : Revisions]
  BY <1>1 DEF OfferInv, ReplicationTypeOK
<1>4. ReplicationTypeOK'
  BY <1>1, <1>2, <1>3 DEF OfferInv, ReplicationTypeOK
<1>5. ReportsHeld'
  <2> SUFFICES ASSUME NEW m \in messages', m.kind = "held" PROVE m.revision <= held'[m.replica]
    BY DEF ReportsHeld
  <2>1. m.replica \in Replicas /\ m.revision \in Nat
    BY <1>3 DEF Revisions
  <2>2. CASE m \in messages
    <3>1. m.revision <= held[m.replica] /\ held[m.replica] \in Nat /\ held'[m.replica] \in Nat
      BY <1>2, <2>1, <2>2 DEF OfferInv, ReportsHeld, ReplicationTypeOK, Revisions
    <3> QED
      BY <1>2, <2>1, <3>1
  <2>3. CASE m \notin messages
    BY <1>1, <1>2, <2>1, <2>3
  <2> QED
    BY <2>2, <2>3
<1>6. WaitersWoken'
  BY <1>1 DEF OfferInv, WaitersWoken, Awaiting
<1>7. Live' = Live
  BY <1>1 DEF Live
<1> QED
  BY <1>1, <1>4, <1>5, <1>6, <1>7 DEF OfferInv, Alone, Attended

LEMMA RecordStep ==
  ASSUME Bounds, OfferInv, NEW m \in messages, Record(m)
  PROVE  OfferInv'
<1>1. /\ UNCHANGED <<written, unoffered, announcement, announcer, primary, assigned,
                     closed, held, permit, waiter, changes, losses>>
      /\ messages' \subseteq messages
      /\ m.kind = "held"
      /\ progress' = [progress EXCEPT ![m.replica] = Larger(progress[m.replica], m.revision)]
      /\ signals' = IF Raised(m.replica, m.revision) THEN signals + 1 ELSE signals
  BY DEF Record, ownerVars, scheduleVars
<1>2. /\ m.replica \in Replicas /\ m.revision \in Nat /\ m.revision <= held[m.replica]
      /\ progress \in [Replicas -> Revisions] /\ held \in [Replicas -> Revisions]
      /\ signals \in Nat
  BY <1>1 DEF OfferInv, ReportsHeld, ReplicationTypeOK, Revisions
<1>3. /\ progress' \in [Replicas -> Revisions]
      /\ \A k \in Replicas : progress'[k] <= held[k]
      /\ signals' \in Nat
  BY <1>1, <1>2 DEF OfferInv, ReplicationTypeOK, Revisions, Larger,
       Bounds
<1>4. ReplicationTypeOK'
  BY <1>1, <1>3 DEF OfferInv, ReplicationTypeOK
<1>5. ReportsHeld'
  BY <1>1 DEF OfferInv, ReportsHeld
<1>6. signals' = 0 => signals = 0 /\ progress' = progress
  <2>1. CASE Raised(m.replica, m.revision)
    BY <1>1, <1>2, <2>1
  <2>2. CASE ~Raised(m.replica, m.revision)
    <3>1. Larger(progress[m.replica], m.revision) = progress[m.replica]
      BY <2>2 DEF Raised, Larger
    <3> QED
      BY <1>1, <1>2, <2>2, <3>1
  <2> QED
    BY <2>1, <2>2
<1>7. WaitersWoken'
  BY <1>1, <1>6 DEF OfferInv, WaitersWoken, Awaiting
<1>8. Live' = Live
  BY <1>1 DEF Live
<1> QED
  BY <1>1, <1>4, <1>5, <1>7, <1>8 DEF OfferInv, Alone, Attended

\* Steps of the waiting tasks.
LEMMA WaiterStep ==
  ASSUME Bounds, OfferInv,
         UNCHANGED <<written, unoffered, announcement, progress, announcer, primary, assigned,
                     closed, messages, held, permit, changes, losses>>,
         signals' \in Nat,
         waiter' \in [Waiters -> [at : {"none", "registered", "asleep"}, revision : Revisions,
                                  notified : BOOLEAN, replicas : SUBSET Replicas]],
         WaitersWoken'
  PROVE  OfferInv'
<1>1. ReplicationTypeOK'
  BY DEF OfferInv, ReplicationTypeOK
<1>2. ReportsHeld'
  BY DEF OfferInv, ReportsHeld
<1>3. Live' = Live
  BY DEF Live
<1> QED
  BY <1>1, <1>2, <1>3 DEF OfferInv, Alone, Attended

LEMMA WaitersStep ==
  ASSUME Bounds, OfferInv, SignalWaiters \/ \E w \in Waiters : Register(w) \/ LookAtProgress(w)
  PROVE  OfferInv'
<1> DEFINE Wait == [at : {"none", "registered", "asleep"}, revision : Revisions,
                    notified : BOOLEAN, replicas : SUBSET Replicas]
<1>0. waiter \in [Waiters -> Wait] /\ signals \in Nat /\ assigned \subseteq Replicas
      /\ written \in Revisions
  BY DEF OfferInv, ReplicationTypeOK
<1>1. CASE SignalWaiters
  <2>1. /\ UNCHANGED <<written, unoffered, announcement, progress, announcer, primary, assigned,
                       closed, messages, held, permit, changes, losses>>
        /\ signals' \in Nat
        /\ waiter' = [w \in Waiters |-> IF Reached(w) THEN [waiter[w] EXCEPT !.notified = TRUE]
                                    ELSE waiter[w]]
    BY <1>0, <1>1 DEF SignalWaiters, ownerVars, scheduleVars
  <2>2. \A w \in Waiters : waiter'[w] \in Wait /\ (waiter'[w].at = "asleep" => waiter'[w].notified)
    BY <1>0, <2>1 DEF Reached
  <2>3. waiter' \in [Waiters -> Wait]
    BY <2>1, <2>2
  <2>4. WaitersWoken'
    BY <2>2 DEF WaitersWoken
  <2> QED
    BY <2>1, <2>3, <2>4, WaiterStep
<1>2. ASSUME NEW w \in Waiters, Register(w) PROVE OfferInv'
  <2>1. UNCHANGED <<written, unoffered, announcement, progress, announcer, primary, assigned,
                    closed, messages, held, permit, changes, losses, signals>>
    BY <1>2 DEF Register, ownerVars, scheduleVars,
         replicaVars
  <2>2. PICK t : t \in Wait /\ t.at = "registered" /\ waiter' = [waiter EXCEPT ![w] = t]
    <3>1. CASE \E r \in 1..written :
            waiter' = [waiter EXCEPT ![w] = [NoWait EXCEPT !.at = "registered", !.revision = r]]
      <4>1. PICK r \in 1..written :
              waiter' = [waiter EXCEPT ![w] = [NoWait EXCEPT !.at = "registered", !.revision = r]]
        BY <3>1
      <4>2. PICK t : /\ t = [NoWait EXCEPT !.at = "registered", !.revision = r]
                     /\ waiter' = [waiter EXCEPT ![w] = t]
        BY <4>1
      <4>3. r \in Revisions
        BY <1>0 DEF Revisions, Bounds
      <4>4. t \in Wait /\ t.at = "registered"
        BY <4>2, <4>3 DEF NoWait
      <4> QED
        BY <4>2, <4>4
    <3>2. CASE waiter' = [waiter EXCEPT ![w] = [waiter[w] EXCEPT !.at = "registered",
                                                                 !.notified = FALSE]]
      <4>1. PICK t : /\ t = [waiter[w] EXCEPT !.at = "registered", !.notified = FALSE]
                     /\ waiter' = [waiter EXCEPT ![w] = t]
        BY <3>2
      <4>2. t \in Wait /\ t.at = "registered"
        BY <1>0, <4>1
      <4> QED
        BY <4>1, <4>2
    <3> QED
      BY <1>2, <3>1, <3>2 DEF Register
  <2>3. WaitersWoken'
    BY <1>0, <2>1, <2>2 DEF OfferInv, WaitersWoken, Awaiting
  <2>4. waiter' \in [Waiters -> Wait]
    BY <1>0, <2>2
  <2> QED
    BY <1>0, <2>1, <2>3, <2>4, WaiterStep
<1>3. ASSUME NEW w \in Waiters, LookAtProgress(w) PROVE OfferInv'
  <2>1. UNCHANGED <<written, unoffered, announcement, progress, announcer, primary, assigned,
                    closed, messages, held, permit, changes, losses, signals>>
    BY <1>3 DEF LookAtProgress, ownerVars, scheduleVars,
         replicaVars
  <2>2. PICK t : /\ t \in Wait /\ waiter' = [waiter EXCEPT ![w] = t]
                 /\ t.at = "asleep" => Awaiting(t.replicas, t.revision) # {}
    <3>1. CASE Enough(waiter[w].revision)
      <4>1. NoWait \in Wait /\ NoWait.at = "none"
        BY <1>0 DEF NoWait, Revisions, Bounds
      <4> QED
        BY <1>3, <3>1, <4>1 DEF LookAtProgress
    <3>2. CASE ~Enough(waiter[w].revision)
      <4>1. PICK t : /\ t = [waiter[w] EXCEPT !.at = "asleep", !.replicas = assigned]
                     /\ waiter' = [waiter EXCEPT ![w] = t]
        BY <1>3, <3>2 DEF LookAtProgress
      <4>2. t \in Wait /\ t.replicas = assigned /\ t.revision = waiter[w].revision
        BY <1>0, <4>1
      <4>3. \A n \in assigned : progress[n] \in Nat /\ waiter[w].revision \in Nat
        BY <1>0 DEF OfferInv, ReplicationTypeOK, Revisions
      <4>4. Awaiting(t.replicas, t.revision) # {}
        BY <3>2, <4>2, <4>3 DEF Awaiting, Enough
      <4> QED
        BY <4>1, <4>2, <4>4
    <3> QED
      BY <3>1, <3>2
  <2>3. WaitersWoken'
    BY <1>0, <2>1, <2>2 DEF OfferInv, WaitersWoken, Awaiting
  <2>4. waiter' \in [Waiters -> Wait]
    BY <1>0, <2>2
  <2> QED
    BY <1>0, <2>1, <2>3, <2>4, WaiterStep
<1> QED
  BY <1>1, <1>2, <1>3

LEMMA ScheduleStep ==
  ASSUME Bounds, OfferInv,
         (\E replicas \in SUBSET Replicas : Assign(replicas)) \/ MovePrimary \/ Close
  PROVE  OfferInv'
<1>1. /\ UNCHANGED <<written, unoffered, announcement, progress, announcer, messages, held,
                     signals, waiter, losses>>
      /\ changes' \in 0..MaxChanges
      /\ assigned' \subseteq Replicas /\ permit' \subseteq Replicas
  BY DEF Assign, MovePrimary, Close, ownerVars,
       replicaVars, OfferInv, ReplicationTypeOK, Bounds
<1>2. primary' \in BOOLEAN /\ closed' \in BOOLEAN
  BY DEF Assign, MovePrimary, Close, OfferInv,
       ReplicationTypeOK
<1>3. ReplicationTypeOK'
  BY <1>1, <1>2 DEF OfferInv, ReplicationTypeOK
<1>4. ReportsHeld' /\ WaitersWoken'
  BY <1>1 DEF OfferInv, ReportsHeld, WaitersWoken, Awaiting
<1>5. Live' = Live
  BY <1>1 DEF Live
<1> QED
  BY <1>1, <1>3, <1>4, <1>5 DEF OfferInv, Alone, Attended

LEMMA RetireStep ==
  ASSUME Bounds, OfferInv, Retire
  PROVE  OfferInv'
<1>1. /\ UNCHANGED <<written, unoffered, progress, announcer, primary, assigned, closed, messages,
                     held, permit, signals, losses>>
      /\ changes' \in 0..MaxChanges
      /\ announcement' = Retired
      /\ waiter' = [w \in Waiters |-> NoWait]
  BY DEF Retire, ownerVars, replicaVars, OfferInv,
       ReplicationTypeOK, Bounds
<1>2. NoWait \in [at : {"none", "registered", "asleep"}, revision : Revisions,
                  notified : BOOLEAN, replicas : SUBSET Replicas] /\ NoWait.at = "none"
  BY DEF NoWait, Revisions, Bounds
<1>3. waiter' \in [Waiters -> [at : {"none", "registered", "asleep"}, revision : Revisions,
                  notified : BOOLEAN, replicas : SUBSET Replicas]]
  BY <1>1, <1>2
<1>4. ReplicationTypeOK'
  BY <1>1, <1>3 DEF OfferInv, ReplicationTypeOK
<1>5. ReportsHeld' /\ WaitersWoken'
  BY <1>1, <1>2 DEF OfferInv, ReportsHeld, WaitersWoken
<1>6. Live' = Live
  BY <1>1 DEF Live
<1> QED
  BY <1>1, <1>4, <1>5, <1>6 DEF OfferInv, Alone, Attended

\* For any replicas, announcers, waiting tasks and changes of the schedule, and with any
\* losses: one announcer runs exactly while a revision is offered, and a task that sleeps
\* without a signal waits for a report that has not come (offer, Announcer::next,
\* Announcer::drop, wait_until).
THEOREM OffersAreAnnounced ==
  ASSUME Bounds
  PROVE  ReplicationSpec => []OffersAnnounced
<1>1. ReplicationInit => OfferInv
  BY InitOffers
<1>2. OfferInv /\ [ReplicationNext]_replicationVars => OfferInv'
  <2> SUFFICES ASSUME OfferInv, [ReplicationNext]_replicationVars PROVE OfferInv'
    OBVIOUS
  <2>1. CASE UNCHANGED replicationVars
    <3>1. ReplicationTypeOK' /\ ReportsHeld' /\ WaitersWoken'
      BY <2>1 DEF replicationVars, OfferInv, ReplicationTypeOK, ReportsHeld,
           WaitersWoken, Awaiting
    <3>2. Live' = Live /\ announcement' = announcement
      BY <2>1 DEF replicationVars, Live
    <3> QED
      BY <3>1, <3>2 DEF OfferInv, Alone, Attended
  <2>2. CASE ReplicationNext
    BY <2>2, WriteStep, OfferStep, AnnouncingStep, HearStep, RecordStep, SynchronizeStep,
       WaitersStep, ScheduleStep, RetireStep DEF ReplicationNext
  <2> QED
    BY <2>1, <2>2
<1>3. OfferInv => OffersAnnounced
  <2> SUFFICES ASSUME OfferInv PROVE OffersAnnounced
    OBVIOUS
  <2> QED
    BY DEF OfferInv, Alone, Attended, OffersAnnounced, OneAnnouncer
<1> QED
  BY <1>1, <1>2, <1>3, PTL DEF ReplicationSpec
=============================================================================
