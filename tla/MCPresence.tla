----------------------------- MODULE MCPresence -----------------------------
(***************************************************************************)
(* What a branched entity keeps for its keys: the branches it holds and    *)
(* what observers are shown of them, and the allowances of rate limits,    *)
(* whose keys expire and are evicted as well.  The two share no state.     *)
(* `part` is what a behaviour follows, with its bounds; the other rests in *)
(* its initial state.                                                      *)
(***************************************************************************)
EXTENDS BranchPresence, TLC

CONSTANTS Predecessor, Successor,   \* owners of the smaller instances
          ManyKeys, Unit

VARIABLES
    part,
    shown, stage, tenure, loaded, current, held, members, time,
    clock, epoch, store, visits, recent, used, restarts

\* Two owners, whose branches expire and are evicted.
Handover ==
    INSTANCE BranchPresence WITH
      Owners <- {Predecessor, Successor}, MaxTime <- 1,
      published <- shown, step <- stage, lifetime <- tenure, seen <- loaded, fresh <- current,
      entries <- held, membership <- members, now <- time
\* An owner of more keys than its capacity, and a longer time.
Expiry ==
    INSTANCE BranchPresence WITH
      Owners <- {Successor}, Keys <- ManyKeys, Capacity <- 3, MaxIdle <- 2, MaxTime <- 6,
      published <- shown, step <- stage, lifetime <- tenure, seen <- loaded, fresh <- current,
      entries <- held, membership <- members, now <- time

\* A direct clause of two payloads each 3 units, rounded up to one each 2 units; and a
\* keyed one of one each 3 units, that keeps two of three keys.  The values that name
\* owners name the keys, so that one symmetry serves both.
MCClauses ==
    << [keyed |-> FALSE, count |-> 2, period |-> 3, burst |-> 3, ttl |-> 0, maxKeys |-> 0],
       [keyed |-> TRUE, count |-> 1, period |-> 3, burst |-> 2, ttl |-> 5, maxKeys |-> 2] >>
Rate ==
    INSTANCE RateLimit WITH Clauses <- MCClauses, Keys <- Owners, MaxNanos <- 12,
                            MaxVisits <- 3, MaxCost <- 2, MaxTime <- 6, MaxElapse <- 2,
                            MaxRestarts <- 1, now <- clock

rateVars == <<clock, epoch, store, visits, recent, used, restarts>>
smallVars == <<shown, stage, tenure, loaded, current, held, members, time>>
keyVars == <<part, presenceVars, smallVars, rateVars>>

KeyInit ==
    /\ part \in {"owners", "handover", "expiry", "rate"}
    /\ PresenceInit
    /\ IF part = "expiry" THEN Expiry!PresenceInit ELSE Handover!PresenceInit
    /\ Rate!Init

KeyNext ==
    \/ part = "owners" /\ PresenceNext /\ UNCHANGED <<part, smallVars, rateVars>>
    \/ part = "handover" /\ Handover!PresenceNext /\ UNCHANGED <<part, presenceVars, rateVars>>
    \/ part = "expiry" /\ Expiry!PresenceNext /\ UNCHANGED <<part, presenceVars, rateVars>>
    \/ part = "rate" /\ Rate!Next /\ UNCHANGED <<part, presenceVars, smallVars>>

KeySpec == KeyInit /\ [][KeyNext]_keyVars

\* Nothing tells owners apart, nor keys.
Symmetry == Permutations(Owners)

-----------------------------------------------------------------------------
\* Between its steps, what the current owner published is the membership it keeps, which
\* names the instances it holds, also while branches are evicted and expire
\* (OwnedBranches::admit, expire and drop).  At any time a sweep would release every
\* branch that was idle long enough, and no other (OwnedBranches::expire): the order of
\* use is the order of time.
BranchesExact ==
    /\ part = "owners" => PresenceTypeOK /\ MembershipExact
    /\ part = "handover" => /\ Handover!PresenceTypeOK /\ Handover!OneOwner
                            /\ Handover!PublishedExact /\ Handover!MembershipExact
    /\ part = "expiry" => Expiry!PresenceTypeOK /\ Expiry!MembershipExact /\ Expiry!ExpiresIdle

\* The limiter admits what a token bucket for every clause and key would, across
\* refusals, expiry, eviction and restarts (admit_at, KeyedStore, from_generation).  A
\* payload that is told to wait is admitted at the deadline it was given, if nothing else
\* was admitted, and at no time before unless one of its keys is forgotten first (the
\* deadline of admit_at is the latest over the clauses).  And what a limiter captures is a
\* state it accepts, whenever it is installed again (generation and from_utc against
\* Generation::prepare).
ImplementsBuckets ==
    /\ Rate!ImplementsBuckets
    /\ [](part = "rate" => Rate!TypeOK /\ Rate!WaitExact /\ Rate!RestoresOwn)
=============================================================================
