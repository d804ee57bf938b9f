---------------------------- MODULE MCQuiescence ----------------------------
(***************************************************************************)
(* Coming to rest: the holds that keep an entity closed on every node      *)
(* while it is changed, and the observation that a domain of one node has  *)
(* drained.  A drain is one poll of a hold, and the two share no state     *)
(* here.  `part` is what a behaviour follows, with its bounds; the other   *)
(* rests in its initial state.                                             *)
(***************************************************************************)
EXTENDS EntityGates, LocalDrain, TLC

CONSTANTS proc, keeper,  \* a processor, and a task that keeps state
          m1, m2         \* messages

VARIABLE part

\* A node's runtime stops instead.
Stops == INSTANCE EntityGates WITH MaxTimeouts <- 0, MaxStops <- 1

\* Two messages pass both tasks, and one waits for the state the other writes.
MCPath == [m \in {m1, m2} |-> <<proc, keeper>>]
MCNeeds == (m1 :> {}) @@ (m2 :> {m1})
\* A message comes back to the processor, and one waits for a state that never comes.
Loop ==
    INSTANCE LocalDrain WITH
      Path <- (m1 :> <<proc, keeper, proc>>) @@ (m2 :> <<keeper>>),
      Needs <- (m1 :> {}) @@ (m2 :> {m2}), Tracked <- {}, Generated <- {}, Parked <- {m2}
\* A message is generated, and one that has an acknowledgement root waits for it.
Source ==
    INSTANCE LocalDrain WITH
      Path <- (m1 :> <<keeper>>) @@ (m2 :> <<proc>>), Needs <- (m1 :> {}) @@ (m2 :> {m1}),
      Tracked <- {m2}, Generated <- {m1}, Parked <- {m2}

quietVars == <<part, vars, drainVars>>

QuietInit ==
    /\ part \in {"timeouts", "stops", "waiting", "loop", "source"}
    /\ Init
    /\ CASE part = "loop" -> Loop!DrainInit
         [] part = "source" -> Source!DrainInit
         [] OTHER -> DrainInit

QuietNext ==
    \/ part = "timeouts" /\ Next /\ UNCHANGED <<part, drainVars>>
    \/ part = "stops" /\ Stops!Next /\ UNCHANGED <<part, drainVars>>
    \/ part = "waiting" /\ DrainNext /\ UNCHANGED <<part, vars>>
    \/ part = "loop" /\ Loop!DrainNext /\ UNCHANGED <<part, vars>>
    \/ part = "source" /\ Source!DrainNext /\ UNCHANGED <<part, vars>>

QuietSpec == QuietInit /\ [][QuietNext]_quietVars

\* Nothing tells two nodes apart.
NodeSymmetry == Permutations(Nodes)
=============================================================================
