------------------------ MODULE CheckpointReplication ------------------------
(***************************************************************************)
(* The replication of one placement's checkpoints                          *)
(* (src/crates/checkpoint-replication/src/replication.rs and               *)
(* src/src/runtime/state_replication/checkpoint_announcement.rs).  The     *)
(* owner offers its newest revision through one announcer task at a time;  *)
(* replicas that hear of it synchronize and acknowledge; tasks wait until  *)
(* the replicas hold a revision.                                           *)
(*                                                                         *)
(* Announcement and progress change together under one lock; an announcer  *)
(* reads the assignment before it takes that lock.  Replicas here hear of  *)
(* revisions from announcements only, as when polling is paused.           *)
(***************************************************************************)
EXTENDS Naturals, FiniteSets

CONSTANTS Replicas, Announcers, Waiters,
          FirstReplicas,   \* replicas the first schedule assigns
          MaxRevision, MaxChanges, MaxLosses

VARIABLES
    written,      \* revision of the owner's newest checkpoint
    unoffered,    \* revisions written whose writer has not offered them yet
    announcement, \* Announcement: Idle, Offering, Retired
    progress,     \* replica -> revision it reported
    announcer,    \* announcer task -> what it is doing
    primary, assigned, closed, \* the schedule, and whether the runtime stops
    messages,     \* announcements and acknowledgements under way
    held,         \* replica -> revision it holds
    permit,       \* replicas whose task has a permit, or its initial synchronization, left
    waiter,       \* waiting task -> what it waits for
    signals,      \* reports recorded whose signal has not been given yet
    changes, losses

replicationVars == <<written, unoffered, announcement, progress, announcer, primary, assigned,
          closed, messages, held, permit, waiter, signals, changes, losses>>
ownerVars == <<written, unoffered>>
scheduleVars == <<primary, assigned, closed, changes>>
replicaVars == <<held, permit, signals>>

Revisions == 0..MaxRevision
Idle == [state |-> "idle", revision |-> 0]
Offering(r) == [state |-> "offering", revision |-> r]
Retired == [state |-> "retired", revision |-> 0]
NoTask == [at |-> "none", replicas |-> {}, lagging |-> {}]
NoWait == [at |-> "none", revision |-> 0, notified |-> FALSE, replicas |-> {}]

ReplicationTypeOK ==
    /\ written \in Revisions /\ unoffered \subseteq 1..written
    /\ announcement \in {Idle, Retired} \cup {Offering(r) : r \in 1..MaxRevision}
    /\ progress \in [Replicas -> Revisions]
    /\ announcer \in [Announcers -> [at : {"none", "ready", "read", "sending", "asleep"},
                                     replicas : SUBSET Replicas, lagging : SUBSET Replicas]]
    /\ primary \in BOOLEAN /\ closed \in BOOLEAN /\ assigned \subseteq Replicas
    /\ messages \subseteq [kind : {"available", "held"}, replica : Replicas, revision : Revisions]
    /\ held \in [Replicas -> Revisions] /\ permit \subseteq Replicas
    /\ waiter \in [Waiters -> [at : {"none", "registered", "asleep"}, revision : Revisions,
                               notified : BOOLEAN, replicas : SUBSET Replicas]]
    /\ signals \in Nat /\ changes \in 0..MaxChanges /\ losses \in 0..MaxLosses
    /\ \A n \in Replicas : progress[n] <= held[n] /\ held[n] <= written

ReplicationInit ==
    /\ written = 0 /\ unoffered = {}
    /\ announcement = Idle /\ progress = [n \in Replicas |-> 0]
    /\ announcer = [a \in Announcers |-> NoTask]
    /\ primary = TRUE /\ assigned = FirstReplicas /\ closed = FALSE
    /\ messages = {} /\ signals = 0 /\ held = [n \in Replicas |-> 0] /\ permit = {}
    /\ waiter = [w \in Waiters |-> NoWait]
    /\ changes = 0 /\ losses = 0

(***************************************************************************)
(* The owner writes checkpoints and offers them.                           *)
(***************************************************************************)
Write ==
    /\ primary /\ announcement # Retired /\ written < MaxRevision
    /\ written' = written + 1
    /\ unoffered' = unoffered \cup {written + 1}
    /\ UNCHANGED <<announcement, progress, announcer, scheduleVars, messages,
                   replicaVars, waiter, losses>>

Larger(a, b) == IF a < b THEN b ELSE a
Live == {a \in Announcers : announcer[a].at # "none"}

\* offer: an announcer that runs goes on with the newer revision.
OfferedBoth(r) == Offering(Larger(announcement.revision, r))

\* announce_checkpoint: offer, and start an announcer when none is offering.
Offer(r) ==
    /\ r \in unoffered /\ unoffered' = unoffered \ {r}
    /\ \/ /\ announcement.state = "idle"
          /\ announcement' = Offering(r)
          /\ \E a \in Announcers \ Live :
               announcer' = [announcer EXCEPT ![a] = [NoTask EXCEPT !.at = "ready"]]
       \/ /\ announcement.state = "offering"
          /\ announcement' = OfferedBoth(r)
          /\ UNCHANGED announcer
       \/ /\ announcement = Retired
          /\ UNCHANGED <<announcement, announcer>>
    /\ UNCHANGED <<written, progress, scheduleVars, messages, replicaVars, waiter, losses>>

(***************************************************************************)
(* The announcer: offer_to_lagging_replicas.                               *)
(***************************************************************************)
\* Announcer::drop of one that has not finished hands the announcement back.
HandBack == announcement' = IF announcement.state = "offering" THEN Idle ELSE announcement
End(a) == announcer' = [announcer EXCEPT ![a] = NoTask]

\* It reads whether it goes on, and for which replicas.
ReadAssignment(a) ==
    /\ announcer[a].at = "ready" /\ primary /\ ~closed
    /\ announcer' = [announcer EXCEPT ![a] = [@ EXCEPT !.at = "read", !.replicas = assigned]]
    /\ UNCHANGED <<ownerVars, announcement, progress, scheduleVars, messages, replicaVars, waiter,
                   losses>>
\* It returns when this node is not the primary; a stopping runtime cancels it anywhere.
Leave(a) ==
    /\ \/ announcer[a].at = "ready" /\ (~primary \/ announcement = Retired)
       \/ announcer[a].at # "none" /\ closed
    /\ End(a) /\ HandBack
    /\ UNCHANGED <<ownerVars, progress, scheduleVars, messages, replicaVars, waiter, losses>>

\* ReplicaProgress::awaiting.
Awaiting(replicas, r) == {n \in replicas : progress[n] < r}

\* Announcer::next, in one step under the lock.
Finish(a) ==
    /\ announcer[a].at = "read"
    /\ \/ announcement.state # "offering" /\ UNCHANGED announcement
       \/ /\ announcement.state = "offering"
          /\ Awaiting(announcer[a].replicas, announcement.revision) = {}
          /\ announcement' = Idle
    /\ End(a)
    /\ UNCHANGED <<ownerVars, progress, scheduleVars, messages, replicaVars, waiter, losses>>
Announce(a) ==
    /\ announcer[a].at = "read" /\ announcement.state = "offering"
    /\ LET lagging == Awaiting(announcer[a].replicas, announcement.revision)
       IN /\ lagging # {}
          /\ announcer' = [announcer EXCEPT ![a] = [@ EXCEPT !.at = "sending", !.lagging = lagging]]
    /\ UNCHANGED <<ownerVars, announcement, progress, scheduleVars, messages, replicaVars, waiter,
                   losses>>

\* One dispatch; after the last the announcer sleeps for the retry interval.
Dispatch(a, n) ==
    /\ announcer[a].at = "sending" /\ n \in announcer[a].lagging
    /\ messages' = messages \cup {[kind |-> "available", replica |-> n, revision |-> 0]}
    /\ LET rest == announcer[a].lagging \ {n}
       IN announcer' = [announcer EXCEPT ![a] =
                          [@ EXCEPT !.lagging = rest, !.at = IF rest = {} THEN "asleep" ELSE "sending"]]
    /\ UNCHANGED <<ownerVars, announcement, progress, scheduleVars, replicaVars, waiter, losses>>
Retry(a) ==
    /\ announcer[a].at = "asleep"
    /\ announcer' = [announcer EXCEPT ![a] = [NoTask EXCEPT !.at = "ready"]]
    /\ UNCHANGED <<ownerVars, announcement, progress, scheduleVars, messages, replicaVars, waiter,
                   losses>>

(***************************************************************************)
(* Replicas and the network.                                               *)
(***************************************************************************)
Send(kind, n, r) == [kind |-> kind, replica |-> n, revision |-> r]

\* handle_state_checkpoint_available leaves a permit.
Hear(m) ==
    /\ m.kind = "available" /\ messages' = messages \ {m}
    /\ permit' = IF m.replica \in assigned THEN permit \cup {m.replica} ELSE permit
    /\ UNCHANGED <<ownerVars, announcement, progress, announcer, scheduleVars, held, signals, waiter, losses>>

\* The replica task takes the permit and fetches; what it held already it reports again.
Synchronize(n) ==
    /\ n \in permit /\ permit' = permit \ {n}
    /\ held' = [held EXCEPT ![n] = written]
    /\ messages' = messages \cup {Send("held", n, written)}
    /\ UNCHANGED <<ownerVars, announcement, progress, announcer, scheduleVars, signals, waiter,
                   losses>>

\* The fault of a report compared with the revision after the recorded one.
RaisedBeyondNext(n, r) == progress[n] + 1 < r
\* ReplicaProgress::record.
Raised(n, r) == progress[n] < r

\* handle_state_replication_ack, record: the signal follows once the lock is released.
Record(m) ==
    /\ m.kind = "held" /\ messages' = messages \ {m}
    /\ progress' = [progress EXCEPT ![m.replica] = Larger(@, m.revision)]
    /\ signals' = IF Raised(m.replica, m.revision) THEN signals + 1 ELSE signals
    /\ UNCHANGED <<ownerVars, announcement, announcer, scheduleVars, held, permit, waiter, losses>>

\* notify_waiters reaches every task that registered.
Reached(w) == waiter[w].at # "none"
SignalWaiters ==
    /\ signals > 0 /\ signals' = signals - 1
    /\ waiter' = [w \in Waiters |-> IF Reached(w) THEN [waiter[w] EXCEPT !.notified = TRUE]
                                    ELSE waiter[w]]
    /\ UNCHANGED <<ownerVars, announcement, progress, announcer, scheduleVars, messages, held,
                   permit, losses>>
Lose(m) ==
    /\ losses < MaxLosses /\ losses' = losses + 1 /\ messages' = messages \ {m}
    /\ UNCHANGED <<ownerVars, announcement, progress, announcer, scheduleVars, replicaVars, waiter>>

(***************************************************************************)
(* wait_until: a task registers, reads, and sleeps.                        *)
(***************************************************************************)
Enough(r) == \A n \in assigned : progress[n] >= r
Register(w) ==
    /\ \/ waiter[w].at = "none" /\ announcement # Retired /\ \E r \in 1..written :
            waiter' = [waiter EXCEPT ![w] = [NoWait EXCEPT !.at = "registered", !.revision = r]]
       \/ waiter[w].at = "asleep" /\ waiter[w].notified
            /\ waiter' = [waiter EXCEPT ![w] = [@ EXCEPT !.at = "registered", !.notified = FALSE]]
    /\ UNCHANGED <<ownerVars, announcement, progress, announcer, scheduleVars, messages,
                   replicaVars, losses>>
LookAtProgress(w) ==
    /\ waiter[w].at = "registered"
    /\ waiter' = [waiter EXCEPT ![w] =
                    IF Enough(waiter[w].revision) THEN NoWait ELSE [@ EXCEPT !.at = "asleep", !.replicas = assigned]]
    /\ UNCHANGED <<ownerVars, announcement, progress, announcer, scheduleVars, messages,
                   replicaVars, losses>>

(***************************************************************************)
(* The schedule changes, the state goes away, the runtime stops.           *)
(***************************************************************************)
\* Replicas that are assigned begin with a synchronization.
Assign(replicas) ==
    /\ changes < MaxChanges /\ changes' = changes + 1
    /\ replicas # assigned
    /\ assigned' = replicas /\ permit' = (permit \cap replicas) \cup (replicas \ assigned)
    /\ UNCHANGED <<ownerVars, announcement, progress, announcer, primary, closed, messages, held,
                   signals, waiter, losses>>
MovePrimary ==
    /\ changes < MaxChanges /\ changes' = changes + 1
    /\ primary' = ~primary
    /\ UNCHANGED <<ownerVars, announcement, progress, announcer, assigned, closed, messages,
                   replicaVars, waiter, losses>>
\* CheckpointReplication::drop: no task waits in it any more.
Retire ==
    /\ changes < MaxChanges /\ changes' = changes + 1
    /\ announcement # Retired /\ announcement' = Retired
    /\ waiter' = [w \in Waiters |-> NoWait]
    /\ UNCHANGED <<ownerVars, progress, announcer, primary, assigned, closed, messages,
                   replicaVars, losses>>
Close ==
    /\ changes < MaxChanges /\ changes' = changes + 1
    /\ ~closed /\ closed' = TRUE
    /\ UNCHANGED <<ownerVars, announcement, progress, announcer, primary, assigned, messages,
                   replicaVars, waiter, losses>>

Announcing(a) ==
    \/ ReadAssignment(a) \/ Leave(a) \/ Finish(a) \/ Announce(a) \/ Retry(a)
    \/ \E n \in Replicas : Dispatch(a, n)
ReplicationNext ==
    \/ Write \/ (\E r \in 1..MaxRevision : Offer(r))
    \/ \E a \in Announcers : Announcing(a)
    \/ \E m \in messages : Hear(m) \/ Record(m) \/ Lose(m)
    \/ SignalWaiters \/ \E n \in Replicas : Synchronize(n)
    \/ \E w \in Waiters : Register(w) \/ LookAtProgress(w)
    \/ (\E replicas \in SUBSET Replicas : Assign(replicas)) \/ MovePrimary \/ Retire \/ Close

ReplicationSpec == ReplicationInit /\ [][ReplicationNext]_replicationVars

\* Tasks run, replicas synchronize, and what is sent and not lost arrives.
Arrives(kind, n) == \E m \in messages : m.kind = kind /\ m.replica = n /\ (Hear(m) \/ Record(m))
-----------------------------------------------------------------------------
\* One announcer runs exactly while a revision is offered: never two, and no offered
\* revision is left without one (offer, Announcer::next, Announcer::drop).
OneAnnouncer ==
    /\ \A a, b \in Live : a = b
    /\ announcement # Retired => (announcement.state = "offering" <=> Live # {})

\* A task asleep without a signal waits for a report that has not come from a replica
\* it read as assigned, or a signal is due (wait_until, record).
WaitersWoken ==
    signals = 0 => \A w \in Waiters : waiter[w].at = "asleep" /\ ~waiter[w].notified =>
                         Awaiting(waiter[w].replicas, waiter[w].revision) # {}

\* What is offered is announced and waited for.  One announcer runs exactly while a
\* revision is offered: never two, and no offered revision is left without one (offer,
\* Announcer::next, Announcer::drop).  A task asleep without a signal waits for a report
\* that has not come from a replica it read as assigned, or a signal is due (wait_until,
\* record).
OffersAnnounced == ReplicationTypeOK /\ OneAnnouncer /\ WaitersWoken
=============================================================================
