---------------------------- MODULE RelayFanout ----------------------------
(***************************************************************************)
(* The bounded fan-out of a relay (RelayBroadcast of                       *)
(* src/src/runtime/relay_channel.rs).  A publisher reserves one admission  *)
(* of every consumer it found registered, in registration order, waiting   *)
(* where one is full, and then delivers.  A consumer that takes a batch    *)
(* returns the admission and wakes publishers only if it sees one waiting. *)
(*                                                                         *)
(* The waiting count is read and raised with relaxed orderings.  The       *)
(* values of it a thread may still read are a set: `views` holds one for   *)
(* each publisher and consumer, and one for each admission count, whose    *)
(* read-modify-writes hand on what the ones before them knew.              *)
(***************************************************************************)
EXTENDS Integers, Sequences, FiniteSets, SequencesExt

CONSTANTS Publishers, Consumers,
          Capacities,    \* capacities the relay is given
          MaxBatches,    \* batches of each publisher that are explored
          MaxChanges,    \* capacity changes that are explored
          MayLeave,      \* whether consumers leave and the fan-out is closed
          MayAbort       \* whether a publisher's task is aborted while it waits

VARIABLES
    list,       \* the consumers, in the order of their registration
    queue,      \* consumer -> batches delivered and not taken
    ended,      \* consumers whose queue is closed
    admitted,   \* consumer -> its admission count
    capacity,   \* the admitted backlog each consumer may hold
    changes,    \* capacity changes so far
    waiting,    \* waiting_publishers
    views,      \* values of `waiting` that may still be read
    pub,        \* publisher -> its publication
    receiver,   \* consumer -> where its receiver is
    received,   \* consumer -> batches it took
    roused,      \* publishers notified since they enabled their wait
    notices     \* notifications that are due

fanoutVars == <<list, queue, ended, admitted, capacity, changes, waiting, views, pub, receiver,
          received, roused, notices>>
consumerVars == <<queue, ended, receiver, received>>
settingVars == <<list, capacity, changes, notices>>

Idle == [step |-> "idle", to |-> << >>, at |-> 1, held |-> << >>, capacity |-> 0, sent |-> 0]

FanoutTypeOK ==
    /\ IsInjective(list) /\ Range(list) \subseteq Consumers
    /\ admitted \in [Consumers -> Nat] /\ capacity \in Capacities
    /\ waiting \in 0 .. Cardinality(Publishers)
    /\ \A x \in DOMAIN views : views[x] \subseteq 0 .. Cardinality(Publishers) /\ waiting \in views[x]
    /\ \A p \in Publishers :
         pub[p].step \in {"idle", "reserving", "begin", "enable", "check", "admit", "raise", "asleep",
                          "lower", "deliver"}
    /\ receiver \in [Consumers -> {"absent", "poll", "register", "repoll", "pending", "woken",
                                   "taken", "returned", "leaving", "left", "done"}]

FanoutInit ==
    /\ list = << >> /\ queue = [c \in Consumers |-> << >>] /\ ended = {}
    /\ admitted = [c \in Consumers |-> 0]
    /\ capacity \in Capacities /\ changes = 0
    /\ waiting = 0
    /\ views = [x \in Publishers \cup Consumers \cup {<<"admitted", c>> : c \in Consumers} |-> {0}]
    /\ pub = [p \in Publishers |-> Idle]
    /\ receiver = [c \in Consumers |-> "absent"]
    /\ received = [c \in Consumers |-> << >>]
    /\ roused = {} /\ notices = {}

(***************************************************************************)
(* The atomics.                                                            *)
(***************************************************************************)
\* A relaxed read-modify-write of the waiting count by p.
Count(p, n) ==
    /\ waiting' = n
    /\ views' = [x \in DOMAIN views |-> IF x = p THEN {n} ELSE views[x] \cup {n}]

\* The fault of an ordering that hands nothing on.
MeetRelaxed(x, c) == UNCHANGED views

\* A read-modify-write (AcqRel) of c's admission count by the thread x.
Location(c) == <<"admitted", c>>
Meet(x, c) ==
    LET known == views[x] \cap views[Location(c)]
    IN  views' = [views EXCEPT ![x] = known, ![Location(c)] = known]

(***************************************************************************)
(* A publication.                                                          *)
(***************************************************************************)
To(p) == pub[p].to[pub[p].at]
Goes(p, step) == pub' = [pub EXCEPT ![p].step = step]
AtLast(p) == pub[p].at = Len(pub[p].to)
\* What follows the consumer it was at: `slow` once it met a full one.
Passed(p, held, next) ==
    [pub[p] EXCEPT !.step = IF AtLast(p) THEN "deliver" ELSE next,
                   !.at = IF AtLast(p) THEN 1 ELSE @ + 1, !.held = held]

\* publication, and the start of broadcast: without a consumer the batch returns.
Publish(p) ==
    /\ pub[p].step = "idle" /\ pub[p].sent < MaxBatches /\ list # << >>
    /\ pub' = [pub EXCEPT ![p] = [Idle EXCEPT !.step = "reserving", !.to = list,
                                    !.capacity = capacity, !.sent = pub[p].sent + 1]]
    /\ UNCHANGED <<settingVars, consumerVars, admitted, waiting, views, roused>>

\* try_admit on the way without waiting.  Its first look is a load, which may
\* return an older count and find no room where there is some.
Reserve(p) ==
    /\ pub[p].step = "reserving"
    /\ \/ /\ admitted[To(p)] < pub[p].capacity
          /\ admitted' = [admitted EXCEPT ![To(p)] = @ + 1]
          /\ Meet(p, To(p))
          /\ pub' = [pub EXCEPT ![p] = Passed(p, Append(pub[p].held, To(p)), "reserving")]
       \/ /\ Goes(p, "begin")
          /\ UNCHANGED <<admitted, views>>
    /\ UNCHANGED <<settingVars, consumerVars, waiting, roused>>

\* RelayAdmissionWait::begin
Begin(p) ==
    /\ pub[p].step = "begin"
    /\ Count(p, waiting + 1)
    /\ Goes(p, "enable")
    /\ UNCHANGED <<settingVars, consumerVars, admitted, roused>>

EnableWait(p) ==
    /\ pub[p].step = "enable"
    /\ roused' = roused \ {p}
    /\ Goes(p, "check")
    /\ UNCHANGED <<settingVars, consumerVars, admitted, waiting, views>>

\* A consumer that left is skipped; else the capacity is read.
Check(p) ==
    /\ pub[p].step = "check"
    /\ pub' = [pub EXCEPT ![p] =
                 IF To(p) \in ended THEN [pub[p] EXCEPT !.step = "lower"]
                 ELSE [pub[p] EXCEPT !.step = "admit", !.capacity = capacity]]
    /\ UNCHANGED <<settingVars, consumerVars, admitted, waiting, views, roused>>

\* The fault of skipping a consumer that has no room.
AdmitSkips(p) ==
    /\ pub[p].step = "admit"
    /\ Meet(p, To(p))
    /\ Goes(p, IF admitted[To(p)] < pub[p].capacity THEN "raise" ELSE "lower")
    /\ UNCHANGED <<settingVars, consumerVars, admitted, waiting, roused>>

\* try_admit_while_waiting: the first look is a read-modify-write that adds nothing.
Admit(p) ==
    /\ pub[p].step = "admit"
    /\ Meet(p, To(p))
    /\ Goes(p, IF admitted[To(p)] < pub[p].capacity THEN "raise" ELSE "asleep")
    /\ UNCHANGED <<settingVars, consumerVars, admitted, waiting, roused>>

\* admit_from, after that look: the exchange fails if others took the room.
Raise(p) ==
    /\ pub[p].step = "raise"
    /\ IF admitted[To(p)] < pub[p].capacity
       THEN /\ admitted' = [admitted EXCEPT ![To(p)] = @ + 1]
            /\ Meet(p, To(p))
            /\ pub' = [pub EXCEPT ![p] = [pub[p] EXCEPT !.step = "lower",
                                                        !.held = Append(pub[p].held, To(p))]]
       ELSE Goes(p, "asleep") /\ UNCHANGED <<admitted, views>>
    /\ UNCHANGED <<settingVars, consumerVars, waiting, roused>>

WakePublisher(p) ==
    /\ pub[p].step = "asleep" /\ p \in roused
    /\ Goes(p, "enable")
    /\ UNCHANGED <<settingVars, consumerVars, admitted, waiting, views, roused>>

\* RelayAdmissionWait::drop, and on to the next consumer, which is waited for too.
Lower(p) ==
    /\ pub[p].step = "lower"
    /\ Count(p, waiting - 1)
    /\ pub' = [pub EXCEPT ![p] = Passed(p, pub[p].held, "begin")]
    /\ UNCHANGED <<settingVars, consumerVars, admitted, roused>>

\* The task was aborted at its await: the wait is given up, the admissions it
\* reserved are not.
Abort(p) ==
    /\ MayAbort /\ pub[p].step = "asleep"
    /\ Count(p, waiting - 1)
    /\ pub' = [pub EXCEPT ![p] = [Idle EXCEPT !.sent = MaxBatches + 1]]
    /\ UNCHANGED <<settingVars, consumerVars, admitted, roused>>

\* deliver, to one consumer after another; a closed queue returns the admission.
Deliver(p) ==
    LET c == Head(pub[p].held) IN
    /\ pub[p].step = "deliver" /\ pub[p].held # << >>
    /\ pub' = [pub EXCEPT ![p].held = Tail(@)]
    /\ IF c \in ended
       THEN /\ admitted' = [admitted EXCEPT ![c] = @ - 1]
            /\ Meet(p, c)
            /\ UNCHANGED <<queue, receiver>>
       ELSE /\ queue' = [queue EXCEPT ![c] = Append(@, [from |-> p, number |-> pub[p].sent])]
            /\ receiver' = IF receiver[c] = "pending" THEN [receiver EXCEPT ![c] = "woken"]
                                                      ELSE receiver
            /\ UNCHANGED <<admitted, views>>
    /\ UNCHANGED <<settingVars, ended, received, waiting, roused>>

Finish(p) ==
    /\ pub[p].step = "deliver" /\ pub[p].held = << >>
    /\ pub' = [pub EXCEPT ![p] = [Idle EXCEPT !.sent = pub[p].sent]]
    /\ UNCHANGED <<settingVars, consumerVars, admitted, waiting, views, roused>>

(***************************************************************************)
(* A receiver.                                                             *)
(***************************************************************************)
At(c, step) == receiver' = [receiver EXCEPT ![c] = step]

Register(c) ==
    /\ receiver[c] = "absent"
    /\ list' = Append(list, c)
    /\ At(c, "poll")
    /\ UNCHANGED <<queue, ended, received, admitted, capacity, changes, waiting, views, pub, roused,
                   notices>>

\* poll_recv: it looks, registers its waker and looks again.
PollQueue(c) ==
    /\ receiver[c] \in {"poll", "repoll", "woken"}
    /\ IF queue[c] # << >>
       THEN /\ queue' = [queue EXCEPT ![c] = Tail(@)]
            /\ received' = [received EXCEPT ![c] = Append(@, Head(queue[c]))]
            /\ At(c, "taken")
       ELSE /\ At(c, IF c \in ended THEN "done"
                     ELSE IF receiver[c] = "repoll" THEN "pending" ELSE "register")
            /\ UNCHANGED <<queue, received>>
    /\ UNCHANGED <<settingVars, ended, admitted, waiting, views, pub, roused>>

RegisterWaker(c) ==
    /\ receiver[c] = "register"
    /\ At(c, "repoll")
    /\ UNCHANGED <<settingVars, queue, ended, received, admitted, waiting, views, pub, roused>>

\* release_admission
Return(c) ==
    /\ receiver[c] = "taken"
    /\ admitted' = [admitted EXCEPT ![c] = @ - 1]
    /\ Meet(c, c)
    /\ At(c, "returned")
    /\ UNCHANGED <<settingVars, queue, ended, received, waiting, pub, roused>>

\* The rest of take_from and take: publishers are woken if one is seen waiting.
LookWaiting(c) ==
    /\ receiver[c] = "returned"
    /\ \E seen \in views[c] : roused' = IF seen > 0 THEN Publishers ELSE roused
    /\ At(c, "poll")
    /\ UNCHANGED <<settingVars, queue, ended, received, admitted, waiting, views, pub>>

\* RelayReceiver::drop: deregister, close, notify.
Deregister(c) ==
    /\ MayLeave /\ receiver[c] \in {"poll", "pending", "woken"}
    /\ \E i \in DOMAIN list : list[i] = c /\ list' = RemoveAt(list, i)
    /\ At(c, "leaving")
    /\ UNCHANGED <<queue, ended, received, admitted, capacity, changes, waiting, views, pub, roused,
                   notices>>

Close(c) ==
    /\ receiver[c] = "leaving"
    /\ ended' = ended \cup {c}
    /\ notices' = notices \cup {c}
    /\ At(c, "left")
    /\ UNCHANGED <<list, queue, received, admitted, capacity, changes, waiting, views, pub, roused>>

(***************************************************************************)
(* The relay.                                                              *)
(***************************************************************************)
SetCapacity ==
    /\ changes < MaxChanges
    /\ capacity' \in Capacities \ {capacity}
    /\ changes' = changes + 1
    /\ notices' = notices \cup {"capacity"}
    /\ UNCHANGED <<list, consumerVars, admitted, waiting, views, pub, roused>>

\* close_receivers, of the consumers registered so far.
CloseReceivers ==
    /\ MayLeave /\ list # << >> /\ ~(Range(list) \subseteq ended)
    /\ ended' = ended \cup Range(list)
    /\ receiver' = [c \in Consumers |-> IF c \in Range(list) /\ receiver[c] = "pending"
                                        THEN "woken" ELSE receiver[c]]
    /\ notices' = notices \cup {"closed"}
    /\ UNCHANGED <<list, queue, received, admitted, capacity, changes, waiting, views, pub, roused>>

\* The notification that ends Close, SetCapacity and CloseReceivers.
Notify ==
    /\ \E notice \in notices : notices' = notices \ {notice}
    /\ roused' = Publishers
    /\ UNCHANGED <<list, consumerVars, admitted, capacity, changes, waiting, views, pub>>

Broadcast(p) ==
    \/ Publish(p) \/ Reserve(p) \/ Begin(p) \/ EnableWait(p) \/ Check(p) \/ Admit(p) \/ Raise(p)
    \/ WakePublisher(p) \/ Lower(p) \/ Abort(p) \/ Deliver(p) \/ Finish(p)
Receive(c) == PollQueue(c) \/ RegisterWaker(c) \/ Return(c) \/ LookWaiting(c)

FanoutNext ==
    \/ \E p \in Publishers : Broadcast(p)
    \/ \E c \in Consumers : Register(c) \/ Receive(c) \/ Deregister(c) \/ Close(c)
    \/ SetCapacity \/ CloseReceivers \/ Notify

FanoutSpec == FanoutInit /\ [][FanoutNext]_fanoutVars

\* Publications that began go on, receivers take what they were given, and what is
\* being closed is closed.
Continue(p) ==
    \/ Reserve(p) \/ Begin(p) \/ EnableWait(p) \/ Check(p) \/ Admit(p) \/ Raise(p) \/ WakePublisher(p)
    \/ Lower(p) \/ Deliver(p) \/ Finish(p)

-----------------------------------------------------------------------------
Holders(c) == {p \in Publishers : c \in Range(pub[p].held)}

\* The admission count of a consumer is what was delivered and not taken, and what
\* publishers hold reserved: nothing returns an admission twice or forgets one, on
\* any path of a consumer that leaves (RelayConsumerQueue::admitted).
AdmittedExact ==
    \A c \in Consumers :
      admitted[c] = Len(queue[c]) + Cardinality(Holders(c))
                      + (IF receiver[c] = "taken" THEN 1 ELSE 0)

\* A publisher sleeps only while its consumer has no room and is not closed, or
\* while somebody is about to wake it; a consumer that just returned an admission
\* can no longer read that nobody waits (admit, take_from, waiting_publishers).
PublishersWoken ==
    \A p \in DOMAIN pub :
      pub[p].step = "asleep" /\ p \notin roused =>
        \/ notices # {}
        \/ To(p) \notin ended /\ admitted[To(p)] >= capacity
        \/ receiver[To(p)] = "returned" /\ 0 \notin views[To(p)]

\* While the capacity is not changed, no race of publishers admits more than it
\* (admit_from).
WithinCapacity == changes = 0 => \A c \in Consumers : admitted[c] <= capacity

Sent(c, p) == SelectSeq(received[c] \o queue[c], LAMBDA b : b.from = p)
\* A consumer gets the batches of each publisher in the order they were published
\* and without a gap, up to the last that was published while it is registered:
\* backpressure delays a batch and never drops it (broadcast, deliver_each).
NoGaps ==
    \A c \in Consumers, p \in Publishers :
      LET sent == Sent(c, p) IN
      /\ \A i \in 2 .. Len(sent) : sent[i].number = sent[i - 1].number + 1
      /\ sent # << >> /\ pub[p].step = "idle" /\ pub[p].sent <= MaxBatches
         /\ c \in Range(list) \ ended
           => sent[Len(sent)].number = pub[p].sent
=============================================================================
