--------------------------- MODULE RelayAdmission ---------------------------
(***************************************************************************)
(* Admission of relay deliveries by the receiver of an authenticated peer  *)
(* (src/crates/interconnect/src/connection/relay_owner.rs, relay.rs,       *)
(* relay_watermarks.rs, relay_admission_choice.rs, and the records of      *)
(* connection.rs), under one process epoch of each side.  A delivery is a  *)
(* position of a channel.  Its sender retries the grant, sends the body,   *)
(* and asks to cancel what it gave up; requests and replies are lost,      *)
(* repeated and delayed without bound.  Every section of code under the    *)
(* peer owner's guard is one step; the handler of a grant takes the guard  *)
(* five times, and other requests may come in between.                     *)
(***************************************************************************)
EXTENDS Integers, Sequences, FiniteSets

CONSTANTS Slots,              \* outbound slots of the sender
          MaxChannel,         \* channel incarnations that are explored
          MaxSequence,        \* last position of a channel that is explored
          AttemptCapacity,    \* attempts the owner holds at once
          WatermarkCapacity,  \* channel watermarks it retains
          MaxRecords,         \* reservations that are explored
          MaxHandling,        \* grant requests that are handled at once
          MayDepart           \* whether the receiver may take the sender for gone

ASSUME AdmissionAssumption ==
    /\ MaxChannel \in Nat /\ MaxSequence \in Nat /\ MaxRecords \in Nat /\ MaxHandling \in Nat
    /\ MayDepart \in BOOLEAN
    /\ AttemptCapacity \in Nat \ {0}
    /\ WatermarkCapacity \in Nat /\ WatermarkCapacity > AttemptCapacity

Channels == 1 .. MaxChannel
SequenceNumbers == 0 .. MaxSequence
Ids == [channel : Channels, sequence : SequenceNumbers]

VARIABLES
    outbound,   \* slot -> the sender's channel and the delivery it is at
    opened,     \* incarnations the sender created so far
    outcome,    \* delivery -> what its sender knows of it
    asked,      \* deliveries a grant was requested for
    cancelled,  \* deliveries a cancellation was requested for
    heard,      \* deliveries whose waiting sender was told of the admission
    replies,    \* answers to the cancellation a sender waits for
    records,    \* admission records, in the order of their reservation
    owner,      \* the receiver's protocol owner of this peer
    handling    \* grant requests between two sections of their handler

admissionVars == <<outbound, opened, outcome, asked, cancelled, heard, replies,
                   records, owner, handling>>
senderVars == <<outbound, opened, outcome, asked, cancelled, heard, replies>>
receiverVars == <<records, owner, handling>>

Statuses == {"Reserved", "BodyReceived", "Admitted", "Rejected", "Cancelled",
             "Retired", "Unknown", "Indeterminate"}

NoMark == [sequence |-> -1, status |-> "Unknown"]
\* `first` says that no owner of this peer ended before it.
NewOwner ==
    [bound |-> TRUE, first |-> TRUE, attempts |-> {}, grants |-> {},
     active |-> [c \in Channels |-> -1],
     marks |-> [c \in Channels |-> NoMark], order |-> << >>, floor |-> 0]

AdmissionInit ==
    /\ outbound = [s \in Slots |-> [channel |-> 0, next |-> 0, pc |-> "idle"]]
    /\ opened = 0
    /\ outcome = [id \in Ids |-> "unknown"]
    /\ asked = {} /\ cancelled = {} /\ heard = {} /\ replies = {}
    /\ records = << >>
    /\ owner = NewOwner
    /\ handling = {}

(***************************************************************************)
(* Records (RelayAdmissionRecord).  The choice (AdmissionChoice) and what  *)
(* came of the body are one state here; it is decided once.                *)
(***************************************************************************)
IdOf(r) == [channel |-> records[r].channel, sequence |-> records[r].sequence]
Unadmitted(r) == records[r].state \in {"reserved", "reading", "received"}
AdmittedRecord(r) == records[r].state = "admitted"

Status(r) ==
    CASE records[r].state \in {"reserved", "reading"} -> "Reserved"
      [] records[r].state = "received" -> "BodyReceived"
      [] records[r].state = "admitted" -> "Admitted"
      [] records[r].state = "rejected" -> "Rejected"
      [] records[r].state = "cancelled" -> "Cancelled"

\* RelayAdmissionRecord::cancel, of the undecided ones among these.
CancelledRecords(rs) ==
    [r \in DOMAIN records |->
       IF r \in rs /\ Unadmitted(r) THEN [records[r] EXCEPT !.state = "cancelled"] ELSE records[r]]
\* The status `cancel` returns.
StatusAfterCancel(r) == IF Unadmitted(r) THEN "Cancelled" ELSE Status(r)

(***************************************************************************)
(* The channel watermarks of an owner o.                                   *)
(***************************************************************************)
AttemptsOn(o, c) == {r \in o.attempts : records[r].channel = c}
HoldsAttempt(o, c) == AttemptsOn(o, c) # {}
AttemptAt(o, id) == {r \in o.attempts : IdOf(r) = id}

\* RelayPeerProtocol::forgotten
Forgotten(o, c) == o.marks[c] = NoMark /\ c <= o.floor /\ ~HoldsAttempt(o, c)

\* The channels a watermark is retained of; the order lists each once.
Retained(o) == {c \in DOMAIN o.marks : o.marks[c] # NoMark}
Without(order, c) ==
    IF \E i \in DOMAIN order : order[i] = c
    THEN LET k == CHOOSE i \in DOMAIN order : order[i] = c
         IN  [i \in 1 .. (Len(order) - 1) |-> IF i < k THEN order[i] ELSE order[i + 1]]
    ELSE order

Touched(o, c) == [o EXCEPT !.order = Append(Without(@, c), c)]

Forget(o, c) ==
    [o EXCEPT !.marks = [@ EXCEPT ![c] = NoMark],
              !.order = Without(@, c),
              !.floor = IF @ >= c THEN @ ELSE c]

\* RelayChannelWatermarks::forget_least_recent, of the channels without an attempt.
LeastRecent(o, c) ==
    \E i \in DOMAIN o.order :
      /\ o.order[i] = c /\ ~HoldsAttempt(o, c)
      /\ \A j \in 1 .. (i - 1) : HoldsAttempt(o, o.order[j])
HasIdle(o) == \E c \in DOMAIN o.marks : LeastRecent(o, c)
ForgetLeastRecent(o) ==
    IF HasIdle(o) THEN Forget(o, CHOOSE c \in DOMAIN o.marks : LeastRecent(o, c)) ELSE o

RoomFor(o, c) ==
    IF o.marks[c] = NoMark /\ Cardinality(Retained(o)) >= WatermarkCapacity
    THEN ForgetLeastRecent(o) ELSE o

\* RelayChannelWatermarks::record
Record(o, id, status) ==
    IF id.sequence < o.marks[id.channel].sequence THEN o
    ELSE Touched([RoomFor(o, id.channel) EXCEPT !.marks =
                    [@ EXCEPT ![id.channel] = [sequence |-> id.sequence, status |-> status]]],
                 id.channel)

(***************************************************************************)
(* RelayPeerProtocol                                                       *)
(***************************************************************************)
\* retired_status, and the owner after its consultation.
RetiredStatus(o, id) ==
    LET mark == o.marks[id.channel] IN
    IF mark = NoMark THEN IF Forgotten(o, id.channel) THEN "Retired" ELSE "None"
    ELSE IF id.sequence < mark.sequence THEN "Retired"
    ELSE IF id.sequence = mark.sequence THEN mark.status ELSE "None"
Consulted(o, c) == IF o.marks[c] = NoMark THEN o ELSE Touched(o, c)

CanFollow(o, id) ==
    IF o.marks[id.channel] = NoMark
    THEN id.sequence = 0 /\ ~Forgotten(o, id.channel)
    ELSE id.sequence = o.marks[id.channel].sequence + 1

\* retire
Retire(o, r, status) ==
    IF r \notin o.attempts THEN o
    ELSE [Record(o, IdOf(r), status) EXCEPT
            !.attempts = @ \ {r}, !.grants = @ \ {r},
            !.active = IF @[records[r].channel] = records[r].sequence
                       THEN [@ EXCEPT ![records[r].channel] = -1] ELSE @]

\* The fault of retiring a predecessor that is not resolved.
RetirePredecessor(o, id) ==
    LET before == {r \in AttemptsOn(o, id.channel) : records[r].sequence = id.sequence - 1}
    IN  IF before = {} THEN o ELSE LET r == CHOOSE r \in before : TRUE IN Retire(o, r, Status(r))

\* retire_resolved_predecessor
RetireResolvedPredecessor(o, id) ==
    LET before == {r \in AttemptsOn(o, id.channel) :
                     records[r].sequence = id.sequence - 1 /\ ~Unadmitted(r)}
    IN  IF before = {} THEN o ELSE LET r == CHOOSE r \in before : TRUE IN Retire(o, r, Status(r))

\* channel_busy: it also frees a channel whose attempt is decided.
ActiveAttempt(o, c) == {r \in AttemptsOn(o, c) : records[r].sequence = o.active[c]}
ChannelBusy(o, c) == \E r \in ActiveAttempt(o, c) : Unadmitted(r)
Freed(o, c) == [o EXCEPT !.active = [@ EXCEPT ![c] = -1]]

(***************************************************************************)
(* The handler of a grant request.                                         *)
(***************************************************************************)
Handle(id, step) == [id |-> id, step |-> step]
Advance(h, step) == (handling \ {h}) \cup {Handle(h.id, step)}

\* Whether a sender is at this delivery; what reaches it otherwise is dropped.
Current(s) == [channel |-> outbound[s].channel, sequence |-> outbound[s].next - 1]
Awaited(id, pc) == \E s \in Slots : outbound[s].pc = pc /\ Current(s) = id

\* The request arrives; a peer that is not a member is answered at once.
GrantArrives(id) ==
    /\ id \in asked /\ owner.bound /\ Cardinality(handling) < MaxHandling
    /\ handling' = handling \cup {Handle(id, "retired")}
    /\ UNCHANGED <<senderVars, records, owner>>

\* A reply that says Admitted settles the delivery at the sender; every other
\* one but SendBody is an error it retries on.
Heard(id, status) ==
    IF status = "Admitted" /\ Awaited(id, "sending") THEN heard \cup {id} ELSE heard

GrantRetired(h) ==
    LET status == RetiredStatus(owner, h.id) IN
    /\ h \in handling /\ h.step = "retired"
    /\ owner' = Consulted(owner, h.id.channel)
    /\ handling' = IF status = "None" THEN Advance(h, "existing") ELSE handling \ {h}
    /\ heard' = Heard(h.id, status)
    /\ UNCHANGED <<outbound, opened, outcome, asked, cancelled, replies, records>>

\* The attempt is there: its state is the answer.
AnswerExisting(h, r) ==
    /\ handling' = handling \ {h}
    /\ heard' = Heard(h.id, Status(r))

GrantExisting(h) ==
    /\ h \in handling /\ h.step = "existing"
    /\ IF AttemptAt(owner, h.id) = {}
       THEN handling' = Advance(h, "position") /\ UNCHANGED heard
       ELSE \E r \in AttemptAt(owner, h.id) : AnswerExisting(h, r)
    /\ UNCHANGED <<outbound, opened, outcome, asked, cancelled, replies, records, owner>>

GrantPosition(h) ==
    LET freed == RetireResolvedPredecessor(Freed(owner, h.id.channel), h.id)
    IN
    /\ h \in handling /\ h.step = "position"
    /\ IF ChannelBusy(owner, h.id.channel)
       THEN handling' = handling \ {h} /\ UNCHANGED owner
       ELSE /\ owner' = freed
            /\ handling' = IF CanFollow(freed, h.id) THEN Advance(h, "register")
                                                     ELSE handling \ {h}
    /\ UNCHANGED <<senderVars, records>>

\* Memory, queue and terminal permits are taken first, and may be refused.
GrantRefused(h) ==
    /\ h \in handling /\ h.step = "register"
    /\ handling' = handling \ {h}
    /\ UNCHANGED <<senderVars, records, owner>>

\* RelayPeerOwner::register, which decides everything again.
GrantRegister(h) ==
    LET id == h.id
        freed == RetireResolvedPredecessor(owner, id)
        fresh == Len(records) + 1
        mayReserve == /\ CanFollow(freed, id)
                      /\ freed.active[id.channel] = -1
                      /\ Cardinality(freed.attempts) < AttemptCapacity
                      /\ Len(records) < MaxRecords
    IN
    /\ h \in handling /\ h.step = "register"
    /\ IF AttemptAt(owner, id) # {}
       THEN /\ \E r \in AttemptAt(owner, id) : AnswerExisting(h, r)
            /\ UNCHANGED <<owner, records>>
       ELSE /\ handling' = handling \ {h}
            /\ IF RetiredStatus(owner, id) # "None"
               THEN /\ owner' = Consulted(owner, id.channel)
                    /\ heard' = Heard(id, RetiredStatus(owner, id))
                    /\ UNCHANGED records
               ELSE /\ UNCHANGED heard
                    /\ IF mayReserve
                       THEN /\ records' = Append(records,
                                 [channel |-> id.channel, sequence |-> id.sequence,
                                  state |-> "reserved"])
                            /\ owner' = [freed EXCEPT
                                 !.active = [@ EXCEPT ![id.channel] = id.sequence],
                                 !.attempts = @ \cup {fresh}, !.grants = @ \cup {fresh}]
                       ELSE owner' = freed /\ UNCHANGED records
    /\ UNCHANGED <<outbound, opened, outcome, asked, cancelled, replies>>

(***************************************************************************)
(* The body, the runtime's decision and its announcement.                  *)
(***************************************************************************)
\* claim_grant: the grant is used once.
BodyArrives(r) ==
    /\ r \in owner.grants
    /\ owner' = [owner EXCEPT !.grants = @ \ {r}]
    /\ records' = IF Unadmitted(r) THEN [records EXCEPT ![r].state = "reading"] ELSE records
    /\ UNCHANGED <<senderVars, handling>>

\* mark_body_received and the ingress queue.
BodyReceived(r) ==
    /\ records[r].state = "reading"
    /\ records' = [records EXCEPT ![r].state = "received"]
    /\ UNCHANGED <<senderVars, owner, handling>>

\* A body that ends early, a queue that is full, and the runtime's refusal.
Reject(r) ==
    /\ records[r].state \in {"reading", "received"}
    /\ records' = [records EXCEPT ![r].state = "rejected"]
    /\ UNCHANGED <<senderVars, owner, handling>>

\* RelayAdmission::admit by the runtime, which holds the record whatever became
\* of its owner.
Admit(r) ==
    /\ records[r].state = "received"
    /\ records' = [records EXCEPT ![r].state = "admitted"]
    /\ UNCHANGED <<senderVars, owner, handling>>

\* The outcome is sent to the sender.
Announce(r) ==
    /\ AdmittedRecord(r)
    /\ heard' = Heard(IdOf(r), "Admitted")
    /\ UNCHANGED <<outbound, opened, outcome, asked, cancelled, replies, receiverVars>>

\* A decided attempt is retired once an answer that says so was delivered: its
\* announcement, the reply to a repeated grant or to a cancellation.
RetireRecord(r) ==
    /\ r \in owner.attempts /\ ~Unadmitted(r)
    /\ owner' = Retire(owner, r, Status(r))
    /\ UNCHANGED <<senderVars, records, handling>>

(***************************************************************************)
(* Cancellation, expiry and the sweep.                                     *)
(***************************************************************************)
Reply(id, status) ==
    IF Awaited(id, "resolving") THEN replies \cup {[id |-> id, status |-> status]} ELSE replies

\* The fault of answering for an attempt that is not there without a mark.
CancelAbsentForgets(id) ==
    LET freed == RetireResolvedPredecessor(owner, id) IN
    /\ owner' = freed
    /\ replies' = IF freed.active[id.channel] = -1 /\ CanFollow(freed, id)
                  THEN Reply(id, "Cancelled") ELSE replies

\* control, for an attempt that is not there: its position is fenced if it is
\* the next one.
CancelAbsent(id) ==
    LET freed == RetireResolvedPredecessor(owner, id) IN
    IF freed.active[id.channel] = -1 /\ CanFollow(freed, id)
    THEN /\ owner' = Record(freed, id, "Cancelled")
         /\ replies' = Reply(id, "Cancelled")
    ELSE owner' = freed /\ UNCHANGED replies

ControlCancel(id) ==
    /\ id \in cancelled
    /\ IF ~owner.bound
       THEN /\ replies' = Reply(id, "Indeterminate")
            /\ UNCHANGED <<records, owner>>
       ELSE IF AttemptAt(owner, id) # {}
       THEN \E r \in AttemptAt(owner, id) :
              /\ records' = CancelledRecords({r})
              /\ owner' = IF Unadmitted(r) THEN [owner EXCEPT !.grants = @ \ {r}] ELSE owner
              /\ replies' = Reply(id, StatusAfterCancel(r))
       ELSE /\ UNCHANGED records
            /\ IF RetiredStatus(owner, id) # "None"
               THEN /\ replies' = Reply(id, RetiredStatus(owner, id))
                    /\ owner' = Consulted(owner, id.channel)
               ELSE CancelAbsent(id)
    /\ UNCHANGED <<outbound, opened, outcome, asked, cancelled, heard, handling>>

\* expire_grant, for a grant no body claimed, and the sweep, for an attempt
\* without progress for the retention.
ExpireAttempt(r) ==
    /\ r \in owner.attempts
    /\ records' = CancelledRecords({r})
    /\ owner' = Retire(owner, r, StatusAfterCancel(r))
    /\ UNCHANGED <<senderVars, handling>>

\* RelayChannelWatermarks::expire: the least recent of those not in use.
ExpireWatermark ==
    /\ HasIdle(owner)
    /\ owner' = ForgetLeastRecent(owner)
    /\ UNCHANGED <<senderVars, records, handling>>

\* retire_departed_relay_owners: the owner ends with everything it knew, while
\* the sender's process goes on.  A connection bound afterwards has a new owner.
Depart ==
    /\ MayDepart /\ owner.bound
    /\ records' = CancelledRecords(owner.attempts)
    /\ owner' = [NewOwner EXCEPT !.bound = FALSE, !.first = FALSE]
    /\ handling' = {}
    /\ UNCHANGED senderVars

Rejoin ==
    /\ ~owner.bound
    /\ owner' = [owner EXCEPT !.bound = TRUE]
    /\ UNCHANGED <<senderVars, records, handling>>

(***************************************************************************)
(* The sender.                                                             *)
(***************************************************************************)
Concluded(s, what) == [outcome EXCEPT ![Current(s)] = what]

\* RelayOutboundSequence::opened_at: a new incarnation, above every earlier one.
Open(s) ==
    /\ outbound[s].pc = "idle" /\ opened < MaxChannel
    /\ opened' = opened + 1
    /\ outbound' = [outbound EXCEPT ![s] = [channel |-> opened + 1, next |-> 0, pc |-> "idle"]]
    /\ UNCHANGED <<outcome, asked, cancelled, heard, replies, receiverVars>>

\* next_delivery, and the grant's first request.
StartDelivery(s) ==
    LET id == [channel |-> outbound[s].channel, sequence |-> outbound[s].next] IN
    /\ outbound[s].pc = "idle" /\ outbound[s].channel # 0 /\ outbound[s].next <= MaxSequence
    /\ outbound' = [outbound EXCEPT ![s] = [channel |-> id.channel, next |-> id.sequence + 1,
                                          pc |-> "sending"]]
    /\ asked' = asked \cup {id}
    /\ UNCHANGED <<opened, outcome, cancelled, heard, replies, receiverVars>>

HearAdmitted(s) ==
    /\ outbound[s].pc = "sending" /\ Current(s) \in heard
    /\ outcome' = Concluded(s, "admitted")
    /\ outbound' = [outbound EXCEPT ![s].pc = "idle"]
    /\ heard' = heard \ {Current(s)}
    /\ UNCHANGED <<opened, asked, cancelled, replies, receiverVars>>

\* Sending or waiting failed: the delivery is cancelled, and the answer awaited.
GiveUp(s) ==
    /\ outbound[s].pc = "sending"
    /\ outbound' = [outbound EXCEPT ![s].pc = "resolving"]
    /\ cancelled' = cancelled \cup {Current(s)}
    /\ heard' = heard \ {Current(s)}
    /\ UNCHANGED <<opened, outcome, asked, replies, receiverVars>>

\* The future was dropped: its guard cancels in the background, and the next
\* delivery does not wait for it.
Abandon(s) ==
    /\ outbound[s].pc \in {"sending", "resolving"}
    /\ outbound' = [outbound EXCEPT ![s].pc = "idle"]
    /\ cancelled' = cancelled \cup {Current(s)}
    /\ heard' = heard \ {Current(s)}
    /\ replies' = {reply \in replies : reply.id # Current(s)}
    /\ UNCHANGED <<opened, outcome, asked, receiverVars>>

\* resolve_failed_relay_admission.  A reply of Retired or Indeterminate, or none
\* in time, leaves the outcome unknown, and the channel is reopened.
Resolved(s) ==
    /\ outbound[s].pc = "resolving"
    /\ replies' = {reply \in replies : reply.id # Current(s)}
    /\ UNCHANGED <<opened, asked, cancelled, heard, receiverVars>>

LearnOutcome(s) ==
    /\ \E reply \in replies :
         /\ reply.id = Current(s)
         /\ \/ reply.status = "Admitted" /\ outcome' = Concluded(s, "admitted")
            \/ reply.status \in {"Rejected", "Cancelled"} /\ outcome' = Concluded(s, "failed")
    /\ outbound' = [outbound EXCEPT ![s].pc = "idle"]
    /\ Resolved(s)

LearnNothing(s) ==
    /\ outbound' = [outbound EXCEPT ![s] = [channel |-> 0, next |-> 0, pc |-> "idle"]]
    /\ Resolved(s)
    /\ UNCHANGED outcome

Sender(s) ==
    \/ Open(s) \/ StartDelivery(s) \/ HearAdmitted(s) \/ GiveUp(s) \/ Abandon(s)
    \/ LearnOutcome(s) \/ LearnNothing(s)
Grant(h) ==
    GrantRetired(h) \/ GrantExisting(h) \/ GrantPosition(h) \/ GrantRefused(h) \/ GrantRegister(h)
Work(r) ==
    \/ BodyArrives(r) \/ BodyReceived(r) \/ Reject(r) \/ Admit(r) \/ Announce(r)
    \/ RetireRecord(r) \/ ExpireAttempt(r)

AdmissionNext ==
    \/ \E s \in Slots : Sender(s)
    \/ \E id \in Ids : GrantArrives(id) \/ ControlCancel(id)
    \/ \E h \in handling : Grant(h)
    \/ \E r \in DOMAIN records : Work(r)
    \/ ExpireWatermark \/ Depart \/ Rejoin

AdmissionSpec == AdmissionInit /\ [][AdmissionNext]_admissionVars

-----------------------------------------------------------------------------
AdmissionTypeOK ==
    /\ \A s \in Slots : outbound[s].pc \in {"idle", "sending", "resolving"}
    /\ \A id \in DOMAIN outcome : outcome[id] \in {"unknown", "admitted", "failed"}
    /\ asked \cup cancelled \cup heard \subseteq DOMAIN outcome
    /\ owner.attempts \subseteq DOMAIN records /\ owner.grants \subseteq owner.attempts
    /\ \A c \in DOMAIN owner.marks : owner.marks[c].status \in Statuses
    /\ Retained(owner) = {owner.order[i] : i \in DOMAIN owner.order}
    /\ \A i, j \in DOMAIN owner.order : owner.order[i] = owner.order[j] => i = j

AdmittedRecords(id) == {r \in DOMAIN records : IdOf(r) = id /\ AdmittedRecord(r)}

\* A channel's deliveries are decided one after another: what a record leaves
\* undecided never meets a later record of its channel, although the runtime
\* holds records whose owner retired, expired or ended them (channel_busy,
\* retire_resolved_predecessor, end_inbound).
OneUndecided ==
    \A r, q \in DOMAIN records :
      records[r].channel = records[q].channel /\ r < q => ~Unadmitted(r)

\* And in the order of their positions (can_follow, record_watermark).
ChannelOrder ==
    \A r, q \in DOMAIN records :
      records[r].channel = records[q].channel /\ r < q
        => records[r].sequence < records[q].sequence

\* A delivery is admitted at most once, although its grant is requested again
\* after its attempt was retired and its channel forgotten
\* (RelayPeerProtocol::forgotten, RelayPeerOwner::register).
AdmittedOnce == \A id \in DOMAIN outcome : \A r, q \in AdmittedRecords(id) : r = q

\* The owner keeps to its capacities, for which it must always find a watermark
\* to forget (forget_least_recent).
WithinCapacities ==
    /\ Cardinality(owner.attempts) <= AttemptCapacity
    /\ Cardinality(Retained(owner)) <= WatermarkCapacity

\* A channel's deliveries are decided one after another, and while no owner of the peer
\* ended, in the order of their positions and each admitted at most once, although grants
\* are requested again after attempts were retired and channels forgotten.  All within
\* the owner's capacities, for which it must always find a watermark to forget
\* (RelayPeerOwner::register, retire_resolved_predecessor, can_follow, forgotten,
\* forget_least_recent).
AdmittedOnceInOrder ==
    /\ AdmissionTypeOK /\ WithinCapacities /\ OneUndecided
    /\ owner.first => ChannelOrder /\ AdmittedOnce

\* What a sender is told is final while no owner of the peer ended: a delivery it
\* takes for failed is never admitted, although the grant it sent may still be on its
\* way, and one it takes for admitted was (control, record_watermark, retired_status).
SendersToldTheTruth ==
    owner.first =>
      \A id \in DOMAIN outcome :
        /\ outcome[id] = "failed" => AdmittedRecords(id) = {}
        /\ outcome[id] = "admitted" => AdmittedRecords(id) # {}
=============================================================================
