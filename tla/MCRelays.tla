------------------------------ MODULE MCRelays ------------------------------
(***************************************************************************)
(* The way of a batch into a relay and out of it: the dispatch gate and    *)
(* the fan-out.  The two share no state.  `part` is what a behaviour       *)
(* follows, with its bounds; the other rests in its initial state.         *)
(***************************************************************************)
EXTENDS RelayDispatchGate, RelayFanout, TLC

CONSTANT SolePublisher

VARIABLE part

\* The constants have a consumer leave while two publishers want its only place.

\* Consumers leave while a publisher that holds a place of one waits for the other.
Parting == INSTANCE RelayFanout WITH Publishers <- SolePublisher, Consumers <- Fences
\* The capacity changes, and publishers that wait are aborted.
Resizing ==
    INSTANCE RelayFanout WITH
      Capacities <- {1, 2}, MaxChanges <- 1, MayLeave <- FALSE, MayAbort <- TRUE

relayVars == <<part, vars, fanoutVars>>

RelayInit ==
    /\ part \in {"gate", "leaving", "parting", "resizing"}
    /\ Init
    /\ CASE part = "parting" -> Parting!FanoutInit
         [] part = "resizing" -> Resizing!FanoutInit
         [] OTHER -> FanoutInit

RelayNext ==
    \/ part = "gate" /\ Next /\ UNCHANGED <<part, fanoutVars>>
    \/ part = "leaving" /\ FanoutNext /\ UNCHANGED <<part, vars>>
    \/ part = "parting" /\ Parting!FanoutNext /\ UNCHANGED <<part, vars>>
    \/ part = "resizing" /\ Resizing!FanoutNext /\ UNCHANGED <<part, vars>>

RelaySpec == RelayInit /\ [][RelayNext]_relayVars

\* Nothing tells two dispatches, fences or publishers apart, nor two consumers but by
\* the order in which they register, which is chosen.  The values that name dispatches
\* name publishers, and those of fences name consumers.
Symmetry == Permutations(Dispatches) \cup Permutations(Fences)

-----------------------------------------------------------------------------
\* Backpressure delays a batch and never drops it: a consumer gets the batches of each
\* publisher in the order they were published and without a gap, up to the last that was
\* published (broadcast, deliver_each).  While the capacity is not changed, no race of
\* publishers admits more than it (admit_from); and the admission count of a consumer is
\* what was delivered and not taken, and what publishers hold reserved, on any path of a
\* consumer that leaves (RelayConsumerQueue::admitted).  The last is claimed where no
\* publisher is aborted: one that is keeps what it reserved.
BatchesKept ==
    /\ part = "leaving" => /\ FanoutTypeOK /\ AdmittedExact
                           /\ WithinCapacity /\ NoGaps
    /\ part = "parting" => /\ Parting!FanoutTypeOK /\ Parting!AdmittedExact
                           /\ Parting!WithinCapacity /\ Parting!NoGaps
    /\ part = "resizing" => Resizing!FanoutTypeOK /\ Resizing!WithinCapacity /\ Resizing!NoGaps
=============================================================================
