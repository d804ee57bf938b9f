----------------------------- MODULE RuntimeAck -----------------------------
(***************************************************************************)
(* One tracked acknowledgement root (`AckState`) and the tasks that hold   *)
(* its shares. Each step is one atomic operation of the source: the loops  *)
(* around compare_exchange_weak retry until they apply to the value they   *)
(* read, so each is one step on the current value.                         *)
(*                                                                         *)
(* A share belongs to one task at a time and `holder` is what that task is *)
(* doing. A task may attach shares for receivers, park its share with an   *)
(* AckParkGuard, report that it is alive, acknowledge, refuse or drop its  *)
(* share, or all its handles. Local tasks drop their guard before they     *)
(* acknowledge; a registered remote share (`Remote`) is resolved while its *)
(* guard is held, and the guard drops afterwards.                          *)
(*                                                                         *)
(* `outstanding` and `handoff` are what this root contributes to one       *)
(* AckRootTracker; a root with several trackers changes each alike.        *)
(***************************************************************************)
EXTENDS Integers, FiniteSets

CONSTANTS
  Share,        \* the shares of the root that may ever exist
  First,        \* the share the root starts with
  Remote,       \* shares resolved by RemoteDispatchRegistry::resolve_ack
  MaxProgress,  \* bound on progress reports that tasks start
  None

ASSUME AckAssumption ==
  /\ IsFiniteSet(Share) /\ First \in Share /\ Remote \subseteq Share
  /\ MaxProgress \in Nat
  /\ None \notin Nat /\ None \notin {"acked", "refused", "dropped", "Ack", "NoAck"}
  /\ None \notin [handoff : BOOLEAN]

VARIABLES
  release,      \* when the trackers of the resolved root stop counting it
  pending,      \* shares not resolved; zero is terminal
  active,       \* the handoff word: active shares, or None once complete
  outstanding, handoff,
  progress,     \* the last sequence drawn from alive_counter
  status,       \* the progress the completion observes
  holder,       \* what the task that owns a share is doing
  completion,   \* the owner of the root
  dropped       \* whether the root's state was dropped

tracker == <<outstanding, handoff>>
words == <<pending, active>>
reports == <<progress, status>>
owner == <<completion, dropped, release>>
vars == <<words, tracker, reports, holder, owner>>

-----------------------------------------------------------------------------

\* pc: the next atomic step; guard: an AckParkGuard holds the handle; fate: how the
\* share was settled; receivers: shares being attached; seen: what a progress report
\* carries; held: whether a confirmed root had active shares as it resolved.
Task(pc) == [pc |-> pc, guard |-> FALSE, fate |-> None, receivers |-> {},
             seen |-> None, held |-> FALSE]
Absent == Task("absent")
Ready == Task("ready")

Init ==
  /\ release \in {"AtResolution", "AfterConfirmation"}
  /\ pending = 1
  /\ active = 1
  /\ outstanding = 1
  /\ handoff = 1
  /\ progress = 0
  /\ status = [sequence |-> 0, parked |-> FALSE]
  /\ holder = [s \in Share |-> IF s = First THEN Ready ELSE Absent]
  /\ completion = [pc |-> "waiting", outcome |-> None, confirmation |-> None]
  /\ dropped = FALSE

-----------------------------------------------------------------------------

Owns(s) == holder[s].pc = "ready" /\ holder[s].fate = None
Gone(s) == holder[s].pc = "absent" \/
           (holder[s].pc = "ready" /\ holder[s].fate # None /\ ~holder[s].guard)
IsResolved == pending = 0
Budget == progress < MaxProgress

Goto(s, pc) == holder' = [holder EXCEPT ![s].pc = pc]

\* The operation ends; the receivers of an attachment hold their handles.
Returned(s) ==
  [r \in Share |-> IF r \in holder[s].receivers THEN Ready
                   ELSE IF r = s THEN [holder[s] EXCEPT !.pc = "ready", !.receivers = {},
                                                       !.seen = None, !.held = FALSE]
                   ELSE holder[r]]
Return(s) == holder' = Returned(s)

\* The shares a publication adds: those of the receivers, or the one unparked.
Published(s) == IF holder[s].receivers = {} THEN 1 ELSE Cardinality(holder[s].receivers)

-----------------------------------------------------------------------------
(* Attaching and unparking: a tracker count is reserved, then the shares   *)
(* are published.                                                          *)

\* clone_attached_for_receivers
Attach(s, receivers) ==
  /\ Owns(s)
  /\ ~holder[s].guard
  /\ receivers # {}
  /\ \A r \in receivers : holder[r].pc = "absent"
  /\ \A p \in Share : holder[p].receivers \cap receivers = {}
  /\ handoff' = handoff + 1
  /\ holder' = [holder EXCEPT ![s].pc = "reserve", ![s].receivers = receivers]
  /\ UNCHANGED <<words, outstanding, reports, owner>>

\* Plausible fault: one share is reserved for all receivers.
ReserveOneShare(s) ==
  /\ holder[s].pc = "reserve"
  /\ \/ /\ IsResolved
        /\ Goto(s, "release")
        /\ UNCHANGED pending
     \/ /\ ~IsResolved
        /\ pending' = pending + 1
        /\ Goto(s, "publish")
  /\ UNCHANGED <<active, tracker, reports, owner>>

\* reserve_pending_shares
ReservePendingShares(s) ==
  /\ holder[s].pc = "reserve"
  /\ \/ /\ IsResolved
        /\ Goto(s, "release")
        /\ UNCHANGED pending
     \/ /\ ~IsResolved
        /\ pending' = pending + Published(s)
        /\ Goto(s, "publish")
  /\ UNCHANGED <<active, tracker, reports, owner>>

\* The guard drops, once its holder is done waiting or its share is settled.
Unpark(s) ==
  /\ holder[s].pc = "ready"
  /\ holder[s].guard
  /\ handoff' = handoff + 1
  /\ holder' = [holder EXCEPT ![s].pc = "publish", ![s].guard = FALSE]
  /\ UNCHANGED <<words, outstanding, reports, owner>>

\* Plausible fault: the reservation drops also when the shares made the root active.
PublishReleasing(s) ==
  /\ holder[s].pc = "publish"
  /\ active' = IF active = None THEN None ELSE active + Published(s)
  /\ Goto(s, "release")
  /\ UNCHANGED <<pending, tracker, reports, owner>>

\* Plausible fault: the reservation is retained also when the shares joined.
PublishRetaining(s) ==
  /\ holder[s].pc = "publish"
  /\ active' = IF active = None THEN None ELSE active + Published(s)
  /\ Goto(s, IF active = None THEN "release" ELSE "sequence")
  /\ UNCHANGED <<pending, tracker, reports, owner>>

\* publish_handoff_shares
PublishShares(s) ==
  /\ holder[s].pc = "publish"
  /\ \/ /\ active = None
        /\ Goto(s, "release")
        /\ UNCHANGED active
     \/ /\ active # None
        /\ active' = active + Published(s)
        /\ Goto(s, IF active = 0 THEN "sequence" ELSE "release")
  /\ UNCHANGED <<pending, tracker, reports, owner>>

\* The reservation drops.
ReleaseReservation(s) ==
  /\ holder[s].pc = "release"
  /\ handoff' = handoff - 1
  /\ Return(s)
  /\ UNCHANGED <<words, outstanding, reports, owner>>

-----------------------------------------------------------------------------
(* Parking.                                                                *)

\* park_share
Park(s) ==
  /\ Owns(s)
  /\ ~holder[s].guard
  /\ Budget
  /\ ~IsResolved
  /\ Goto(s, "park")
  /\ UNCHANGED <<words, tracker, reports, owner>>

\* remove_share, for a share that parks and for one that was acknowledged. The guard
\* keeps the handle when a share was removed.
RemoveShare(s) ==
  /\ holder[s].pc \in {"park", "remove"}
  /\ \/ /\ active \in {None, 0}
        /\ Return(s)
        /\ UNCHANGED active
     \/ /\ active \notin {None, 0}
        /\ active' = active - 1
        /\ holder' = [holder EXCEPT ![s].pc = IF active = 1 THEN "idle" ELSE "ready",
                                    ![s].guard = @ \/ holder[s].pc = "park"]
  /\ UNCHANGED <<pending, tracker, reports, owner>>

\* The last active share left: the tracker count is released.
ReleaseIdle(s) ==
  /\ holder[s].pc = "idle"
  /\ handoff' = handoff - 1
  /\ Goto(s, "sequence")
  /\ UNCHANGED <<words, outstanding, reports, owner>>

-----------------------------------------------------------------------------
(* Progress.                                                               *)

AckAlive(s) ==
  /\ Owns(s)
  /\ Budget
  /\ ~IsResolved
  /\ Goto(s, "sequence")
  /\ UNCHANGED <<words, tracker, reports, owner>>

\* publish_progress: a sequence is drawn, the two words are read, the report is sent.
DrawSequence(s) ==
  /\ holder[s].pc = "sequence"
  /\ progress' = progress + 1
  /\ holder' = [holder EXCEPT ![s].pc = "observe",
                  ![s].seen = [sequence |-> progress + 1, parked |-> FALSE]]
  /\ UNCHANGED <<words, tracker, status, owner>>

ObservePending(s) ==
  /\ holder[s].pc = "observe"
  /\ holder' = [holder EXCEPT ![s].pc = "observeActive",
                  ![s].seen = [@ EXCEPT !.parked = ~IsResolved]]
  /\ UNCHANGED <<words, tracker, reports, owner>>

ObserveActive(s) ==
  /\ holder[s].pc = "observeActive"
  /\ holder' = [holder EXCEPT ![s].pc = "send",
                  ![s].seen = [@ EXCEPT !.parked = holder[s].seen.parked /\ active = 0]]
  /\ UNCHANGED <<words, tracker, reports, owner>>

\* Plausible fault: the report sent last is the one that stays.
SendAnyProgress(s) ==
  /\ holder[s].pc = "send"
  /\ status' = holder[s].seen
  /\ Return(s)
  /\ UNCHANGED <<words, tracker, progress, owner>>

SendProgress(s) ==
  /\ holder[s].pc = "send"
  /\ status' = IF holder[s].seen.sequence > status.sequence THEN holder[s].seen ELSE status
  /\ Return(s)
  /\ UNCHANGED <<words, tracker, progress, owner>>

-----------------------------------------------------------------------------
(* Resolution.                                                             *)

\* A share is settled by its task: a local one after its guard dropped.
Settles(s) == Owns(s) /\ (holder[s].guard => s \in Remote)

\* Plausible fault: the answer for a parked share is taken for one of the root.
AckSuccessOfRoot(s) ==
  /\ Settles(s)
  /\ pending' = IF IsResolved \/ holder[s].guard THEN 0 ELSE pending - 1
  /\ holder' = [holder EXCEPT ![s].fate = "acked",
                  ![s].pc = CASE pending = 0 -> "ready"
                              [] pending = 1 \/ holder[s].guard -> "complete"
                              [] OTHER       -> "remove"]
  /\ UNCHANGED <<active, tracker, reports, owner>>

\* ack_success
AckSuccess(s) ==
  /\ Settles(s)
  /\ pending' = IF IsResolved THEN 0 ELSE pending - 1
  /\ holder' = [holder EXCEPT ![s].fate = "acked",
                  ![s].pc = CASE pending = 0 -> "ready"
                              [] pending = 1 -> "complete"
                              [] OTHER       -> "remove"]
  /\ UNCHANGED <<active, tracker, reports, owner>>

\* no_ack
NoAck(s) ==
  /\ Settles(s)
  /\ pending' = 0
  /\ holder' = [holder EXCEPT ![s].fate = "refused",
                  ![s].pc = IF IsResolved THEN "ready" ELSE "complete"]
  /\ UNCHANGED <<active, tracker, reports, owner>>

\* A task drops its handle unsettled; its guard, if it has one, drops after.
DropHandle(s) ==
  /\ Owns(s)
  /\ holder' = [holder EXCEPT ![s].fate = "dropped"]
  /\ UNCHANGED <<words, tracker, reports, owner>>

\* resolve_tracked closes the handoff word.
Complete(s) ==
  /\ holder[s].pc = "complete"
  /\ active' = None
  /\ holder' = [holder EXCEPT
       ![s].held = active \notin {None, 0},
       ![s].pc = IF release = "AfterConfirmation" THEN "deliver"
                 ELSE IF active \notin {None, 0} THEN "untrack" ELSE "unroot"]
  /\ UNCHANGED <<pending, tracker, reports, owner>>

ReleaseHandoff(s) ==
  /\ holder[s].pc = "untrack"
  /\ handoff' = handoff - 1
  /\ Goto(s, "unroot")
  /\ UNCHANGED <<words, outstanding, reports, owner>>

ReleaseRoot(s) ==
  /\ holder[s].pc = "unroot"
  /\ outstanding' = outstanding - 1
  /\ IF release = "AtResolution" THEN Goto(s, "deliver") ELSE Return(s)
  /\ UNCHANGED <<words, handoff, reports, owner>>

\* finish_completion. A completion that dropped receives nothing; what a confirmed
\* root handed it is released here.
FinishCompletion(s) ==
  /\ holder[s].pc = "deliver"
  /\ \/ /\ completion.pc = "waiting"
        /\ completion' = [completion EXCEPT
             !.outcome = IF holder[s].fate = "acked" THEN "Ack" ELSE "NoAck",
             !.confirmation = IF release = "AfterConfirmation"
                              THEN [handoff |-> holder[s].held] ELSE None]
        /\ Return(s)
     \/ /\ completion.pc # "waiting"
        /\ release = "AfterConfirmation"
        /\ Goto(s, IF holder[s].held THEN "untrack" ELSE "unroot")
        /\ UNCHANGED completion
     \/ /\ completion.pc # "waiting"
        /\ release = "AtResolution"
        /\ Return(s)
        /\ UNCHANGED completion
  /\ UNCHANGED <<words, tracker, reports, dropped, release>>

-----------------------------------------------------------------------------
(* The owner of the root, and the end of its state.                        *)

DropCompletion ==
  LET confirmation == completion.confirmation
  IN  /\ completion.pc = "waiting"
      /\ completion' = [completion EXCEPT
           !.pc = IF confirmation = None THEN "dropped"
                  ELSE IF confirmation.handoff THEN "untrack" ELSE "unroot"]
      /\ UNCHANGED <<words, tracker, reports, holder, dropped, release>>

\* AckConfirmation drops: the handoff count first, then the root's.
ConfirmHandoff ==
  /\ completion.pc = "untrack"
  /\ handoff' = handoff - 1
  /\ completion' = [completion EXCEPT !.pc = "unroot"]
  /\ UNCHANGED <<words, outstanding, reports, holder, dropped, release>>

ConfirmRoot ==
  /\ completion.pc = "unroot"
  /\ outstanding' = outstanding - 1
  /\ completion' = [completion EXCEPT !.pc = "dropped", !.confirmation = None]
  /\ UNCHANGED <<words, handoff, reports, holder, dropped, release>>

\* The last handle is gone and the state drops, unresolved or not. The sender drops
\* with it, which an unresolved root's completion reads as a refusal.
DropAckState ==
  /\ ~dropped
  /\ \A s \in Share : Gone(s)
  /\ dropped' = TRUE
  /\ outstanding' = IF IsResolved THEN outstanding ELSE outstanding - 1
  /\ handoff' = IF ~IsResolved /\ active \notin {None, 0} THEN handoff - 1 ELSE handoff
  /\ completion' = [completion EXCEPT
       !.outcome = IF @ = None /\ completion.pc = "waiting" THEN "NoAck" ELSE @]
  /\ UNCHANGED <<words, reports, holder, release>>

-----------------------------------------------------------------------------

Works(s) ==
  \/ ReservePendingShares(s) \/ PublishShares(s) \/ ReleaseReservation(s)
  \/ RemoveShare(s) \/ ReleaseIdle(s)
  \/ DrawSequence(s) \/ ObservePending(s) \/ ObserveActive(s) \/ SendProgress(s)
  \/ Complete(s) \/ ReleaseHandoff(s) \/ ReleaseRoot(s) \/ FinishCompletion(s)

Starts(s) ==
  \/ \E receivers \in SUBSET Share : Attach(s, receivers)
  \/ Unpark(s) \/ Park(s) \/ AckAlive(s)
  \/ AckSuccess(s) \/ NoAck(s) \/ DropHandle(s)

Next ==
  \/ \E s \in Share : Works(s) \/ Starts(s)
  \/ DropCompletion \/ ConfirmHandoff \/ ConfirmRoot \/ DropAckState

Spec == Init /\ [][Next]_vars

-----------------------------------------------------------------------------
(* Properties.                                                             *)

\* The task owns a share that is published and not parked.
Active(s) ==
  /\ holder[s].pc # "absent"
  /\ ~holder[s].guard
  /\ holder[s].fate = None
  /\ ~(holder[s].pc = "publish" /\ holder[s].receivers = {})

\* Between operations: some share that is not parked was not settled. A handle that was
\* dropped unsettled leaves its share active.
Working ==
  \E s \in Share : /\ holder[s].pc # "absent"
                   /\ ~holder[s].guard
                   /\ holder[s].fate \in {None, "dropped"}

\* No task is inside an operation.
Quiet ==
  /\ \A s \in Share : holder[s].pc = "ready" => ~holder[s].guard \/ holder[s].fate = None
  /\ \A s \in Share : holder[s].pc \in {"absent", "ready"}
  /\ completion.pc \in {"waiting", "dropped"}

TypeOK ==
  /\ pending \in Nat
  /\ active \in Nat \cup {None}
  /\ outstanding \in {0, 1}
  /\ handoff \in Nat

\* The tracker never lets an ownership handoff miss active work: while the root is not
\* resolved and some task owns an active share, the handoff count is positive, through
\* every interleaving of attachments, parks, unparks and acknowledgements.
HandoffSeesActiveWork ==
  ~IsResolved /\ (\E s \in Share : Active(s)) => handoff > 0

\* A task removes an active share only while it owns one, as remove_share asserts: none
\* takes the share another task still works on.
RemovesOwnShare ==
  \A s \in Share : holder[s].pc \in {"park", "remove"} => active # 0

\* Between operations nothing is counted twice or left behind: the tracker counts the
\* root while it is unresolved or unconfirmed, and waits for it exactly when it has an
\* active share or had one as it resolved unconfirmed.
CountsSettle ==
  Quiet =>
    LET confirmed == completion.confirmation # None
        counted   == (~IsResolved /\ ~dropped) \/ confirmed
    IN  /\ outstanding = (IF counted THEN 1 ELSE 0)
        /\ handoff = (IF \/ ~IsResolved /\ ~dropped /\ Working
                         \/ confirmed /\ completion.confirmation.handoff
                      THEN 1 ELSE 0)

\* A root is acknowledged only when every task that ever owned a share of it
\* acknowledged its own: attachments that race the last acknowledgement, drops and
\* refusals cannot be lost.
AckMeansAll ==
  completion.outcome = "Ack" =>
    \A s \in Share : holder[s].pc # "absent" => holder[s].fate = "acked"

\* Between operations the progress the completion observes says whether every share
\* is parked: a report drawn early and sent late does not cover a later one.
ProgressSettles ==
  Quiet /\ ~IsResolved /\ ~dropped => (status.parked <=> ~Working)

\* A confirmed root stays counted until its owner drops the completion, so a drain
\* waits for the confirmation of the outcome outside the tree.
ConfirmedStaysCounted ==
  release = "AfterConfirmation" /\ completion.pc = "waiting" /\ ~dropped =>
    outstanding = 1
=============================================================================
