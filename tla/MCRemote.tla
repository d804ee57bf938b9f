------------------------------ MODULE MCRemote ------------------------------
(***************************************************************************)
(* Deliveries to another node: the admission by the receiver's protocol    *)
(* owner, and the sender's correlations with the receiver's watches.  The  *)
(* latter make one choice of what the former decides, and they share no    *)
(* state.  `part` is what a behaviour follows, with its bounds; the other  *)
(* rests in its initial state.  Two deliveries share a position of each    *)
(* side in "restart", until it runs out of identities, and the sender      *)
(* restarts.                                                               *)
(***************************************************************************)
EXTENDS RelayAdmission, RemoteDelivery, TLC

CONSTANTS Single, Pair   \* deliveries and rows

VARIABLE part

\* More channels than the receiver retains watermarks of.
Floor == INSTANCE RelayAdmission WITH MaxChannel <- 3, MaxSequence <- 0, MaxRecords <- 2,
                                      MaxHandling <- 1
\* The receiver takes the sender for gone and forgets what it knew of it.
Departure == INSTANCE RelayAdmission WITH MaxRecords <- 2, MaxHandling <- 1, MayDepart <- TRUE
\* The registry is shut down under a delivery of two rows.
Stop ==
    INSTANCE RemoteDelivery WITH Deliveries <- Single, Rows <- Pair, MaxGeneration <- 2,
                                 MaxRuns <- 1, MayStop <- TRUE

remoteVars == <<part, admissionVars, vars>>

RemoteInit ==
    /\ part \in {"order", "floor", "departure", "restart", "stop"}
    /\ IF part = "floor" THEN Floor!AdmissionInit
       ELSE IF part = "departure" THEN Departure!AdmissionInit ELSE AdmissionInit
    /\ IF part = "stop" THEN Stop!Init ELSE Init

RemoteNext ==
    \/ part = "order" /\ AdmissionNext /\ UNCHANGED <<part, vars>>
    \/ part = "floor" /\ Floor!AdmissionNext /\ UNCHANGED <<part, vars>>
    \/ part = "departure" /\ Departure!AdmissionNext /\ UNCHANGED <<part, vars>>
    \/ part = "restart" /\ Next /\ UNCHANGED <<part, admissionVars>>
    \/ part = "stop" /\ Stop!Next /\ UNCHANGED <<part, admissionVars>>

RemoteSpec == RemoteInit /\ [][RemoteNext]_remoteVars

\* Nothing tells two deliveries apart, nor two rows.
Symmetry == Permutations(Pair)
=============================================================================
