---------------------------- MODULE MCRuntimeAck ----------------------------
(***************************************************************************)
(* What an ownership handoff waits for: a root of up to three shares of    *)
(* local tasks, and a root of two of which one is a registered remote      *)
(* share, which is resolved while its guard is held.  The two share no     *)
(* state.  `part` is the one a behaviour follows, and the other rests in   *)
(* its initial state.                                                      *)
(***************************************************************************)
EXTENDS RuntimeAck, TLC

CONSTANTS s1, s2, s3, owned, registered

VARIABLES part, until, unresolved, unparked, roots, waits, drawn, observed, tasks, waiter, ended

MCShare == {s1, s2, s3}

Registered ==
    INSTANCE RuntimeAck WITH
      Share <- {owned, registered}, First <- owned, Remote <- {registered},
      release <- until, pending <- unresolved, active <- unparked, outstanding <- roots,
      handoff <- waits, progress <- drawn, status <- observed, holder <- tasks,
      completion <- waiter, dropped <- ended

registeredVars == <<until, unresolved, unparked, roots, waits, drawn, observed, tasks, waiter, ended>>
ackVars == <<part, vars, registeredVars>>

AckInit ==
    /\ part \in {"local", "registered"}
    /\ Init
    /\ Registered!Init /\ until = release

AckNext ==
    \/ part = "local" /\ Next /\ UNCHANGED <<part, registeredVars>>
    \/ part = "registered" /\ Registered!Next /\ UNCHANGED <<part, vars>>

AckSpec == AckInit /\ [][AckNext]_ackVars

\* The two shares that are attached are alike.
Symmetry == Permutations({s2, s3})

-----------------------------------------------------------------------------
\* A root with a remote share is acknowledged only when every task that ever owned a
\* share of it acknowledged its own, although that share may be resolved while it is
\* parked; and it is counted until its confirmation is dropped
\* (RemoteDispatchRegistry::resolve_ack, AckParkGuard::drop).
RegisteredMeansAll == Registered!AckMeansAll /\ Registered!ConfirmedStaysCounted
=============================================================================
