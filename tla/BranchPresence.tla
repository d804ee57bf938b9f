--------------------------- MODULE BranchPresence ---------------------------
(***************************************************************************)
(* The branch membership that the owner task of a relay publishes for its  *)
(* observers (crates/branch-instances/src/membership.rs), and the registry *)
(* of branch instances it is kept equal to (registry.rs).                  *)
(*                                                                         *)
(* An owner claims the presence, changes its instances and replaces the    *)
(* published value with a compare-and-swap; a successor claims it while    *)
(* the owner is still ending.  A swap succeeds if the value was not        *)
(* replaced since it was loaded, which `fresh` remembers for each owner.   *)
(***************************************************************************)
EXTENDS Naturals, Sequences, FiniteSets, SequencesExt

CONSTANTS Owners, Keys, Capacity, MaxIdle,
          MaxTime   \* bound of the domain clock

ASSUME PresenceAssumption ==
    /\ Capacity \in Nat \ {0} /\ {MaxIdle, MaxTime} \subseteq Nat
    /\ IsFiniteSet(Owners)

VARIABLES published,    \* the value observers read
          step,         \* owner -> where it is
          lifetime,     \* owner -> the lifetime it claimed, 0 before
          seen, fresh,  \* owner -> the lifetime it loaded, and whether that value is still there
          entries,      \* owner -> its instances, least recently used first
          membership,   \* owner -> the membership it keeps beside them
          now

presence == <<published, step, lifetime, seen, fresh>>
branches == <<entries, membership>>
presenceVars == <<presence, branches, now>>

Empty == [unbranched |-> FALSE, branches |-> {}]
Memberships == [unbranched : BOOLEAN, branches : SUBSET Keys]
KeysOf(s) == {s[i].key : i \in DOMAIN s}

PresenceInit ==
    /\ published = [owner |-> 0, members |-> Empty]
    /\ step = [o \in Owners |-> "new"] /\ lifetime = [o \in Owners |-> 0]
    /\ seen = [o \in Owners |-> 0] /\ fresh = [o \in Owners |-> FALSE]
    /\ entries = [o \in Owners |-> <<>>] /\ membership = [o \in Owners |-> Empty]
    /\ now = 0

OwnerSteps == {"new", "claim", "idle", "load", "swap", "leave", "clear", "gone"}

\* The types; a value that was not replaced since it was loaded has the lifetime that was loaded.
PresenceTypeOK ==
    /\ published \in [owner : Nat, members : Memberships]
    /\ step \in [Owners -> OwnerSteps] /\ lifetime \in [Owners -> Nat]
    /\ seen \in [Owners -> Nat] /\ fresh \in [Owners -> BOOLEAN]
    /\ \A o \in Owners : fresh[o] => seen[o] = published.owner
    /\ entries \in [Owners -> Seq([key : Keys, at : Nat])]
    /\ membership \in [Owners -> Memberships]
    /\ now \in Nat

(***************************************************************************)
(* BranchPresence: load and replace.                                       *)
(***************************************************************************)
Loads(o) == seen' = [seen EXCEPT ![o] = published.owner] /\ fresh' = [fresh EXCEPT ![o] = TRUE]
Replaces(value) == published' = value /\ fresh' = [q \in Owners |-> FALSE] /\ UNCHANGED seen
GoesTo(o, s) == step' = [step EXCEPT ![o] = s]

\* BranchPresence::claim.
ClaimLoad(o) ==
    /\ step[o] = "new" /\ GoesTo(o, "claim") /\ Loads(o)
    /\ UNCHANGED <<published, lifetime, branches, now>>
ClaimSwap(o) ==
    /\ step[o] = "claim"
    /\ \/ /\ fresh[o] /\ GoesTo(o, "idle")
          /\ lifetime' = [lifetime EXCEPT ![o] = seen[o] + 1]
          /\ Replaces([owner |-> seen[o] + 1, members |-> Empty])
       \/ /\ ~fresh[o] /\ Loads(o) /\ UNCHANGED <<published, step, lifetime>>
    /\ UNCHANGED <<branches, now>>

\* BranchPresence::publish; an owner that ends publishes once more.
Publishing == {"load", "leave"}
Swapping == {"swap", "clear"}
After(s) == IF s \in {"load", "swap"} THEN "idle" ELSE "gone"
Value(o) == [owner |-> lifetime[o], members |-> IF step[o] = "clear" THEN Empty ELSE membership[o]]
PublishLoad(o) ==
    /\ step[o] \in Publishing /\ Loads(o)
    /\ GoesTo(o, IF published.owner # lifetime[o] THEN After(step[o])
               ELSE IF step[o] = "load" THEN "swap" ELSE "clear")
    /\ UNCHANGED <<published, lifetime, branches, now>>
\* The fault of a publication that stores its value without comparing.
PublishStores(o) ==
    /\ step[o] \in Swapping /\ GoesTo(o, After(step[o])) /\ Replaces(Value(o))
    /\ UNCHANGED <<lifetime, branches, now>>
PublishSwap(o) ==
    /\ step[o] \in Swapping
    /\ \/ /\ fresh[o] /\ GoesTo(o, After(step[o])) /\ Replaces(Value(o))
       \/ /\ ~fresh[o] /\ GoesTo(o, IF step[o] = "swap" THEN "load" ELSE "leave")
          /\ UNCHANGED <<published, seen, fresh>>
    /\ UNCHANGED <<lifetime, branches, now>>

(***************************************************************************)
(* OwnedBranches and the registry of its instances.                        *)
(***************************************************************************)
\* BranchInstanceRegistry::evict_lru_to_capacity, and how many entries expire.
Kept(s) == IF Len(s) > Capacity THEN SubSeq(s, Len(s) - Capacity + 1, Len(s)) ELSE s
ExpiredCount(s) ==
    Cardinality({i \in DOMAIN s : \A j \in 1..i : now >= s[j].at + MaxIdle})
\* The fault of a refresh that leaves the branch where it is.
TouchedInPlace(s, k) ==
    IF k \in KeysOf(s)
    THEN [i \in DOMAIN s |-> IF s[i].key = k THEN [key |-> k, at |-> now] ELSE s[i]]
    ELSE Append(s, [key |-> k, at |-> now])
\* touch and get_or_try_create_with: the branch is the last one.
Touched(s, k) == Append(SelectSeq(s, LAMBDA e : e.key # k), [key |-> k, at |-> now])

Changes(o, s, members) ==
    /\ entries' = [entries EXCEPT ![o] = s] /\ membership' = [membership EXCEPT ![o] = members]
    /\ GoesTo(o, IF membership'[o] = membership[o] THEN "idle" ELSE "load")
    /\ UNCHANGED <<published, lifetime, seen, fresh, now>>
AdmitBranch(o, k) ==
    LET s == Touched(entries[o], k)
        released == KeysOf(s) \ KeysOf(Kept(s))
    IN /\ step[o] = "idle"
       /\ Changes(o, Kept(s), [membership[o] EXCEPT !.branches = (@ \cup {k}) \ released])
AdmitUnbranched(o) ==
    /\ step[o] = "idle" /\ Changes(o, entries[o], [membership[o] EXCEPT !.unbranched = TRUE])
\* OwnedBranches::expire.
Expire(o) ==
    LET s == entries[o]
        n == ExpiredCount(s)
    IN /\ step[o] = "idle"
       /\ Changes(o, SubSeq(s, n + 1, Len(s)),
                  [membership[o] EXCEPT !.branches = @ \ KeysOf(SubSeq(s, 1, n))])
\* The fault of an owner that ends without clearing what it published.
DropSilently(o) ==
    /\ step[o] = "idle" /\ GoesTo(o, "gone")
    /\ UNCHANGED <<published, lifetime, seen, fresh, branches, now>>
\* OwnedBranches::drop.
Drop(o) ==
    /\ step[o] = "idle" /\ GoesTo(o, IF membership[o] = Empty THEN "gone" ELSE "leave")
    /\ UNCHANGED <<published, lifetime, seen, fresh, branches, now>>

\* The domain time, which never decreases for the clock an owner binds.
Tick == now < MaxTime /\ now' = now + 1 /\ UNCHANGED <<presence, branches>>

PresenceNext ==
    \/ \E o \in Owners :
         \/ ClaimLoad(o) \/ ClaimSwap(o) \/ PublishLoad(o) \/ PublishSwap(o)
         \/ \E k \in Keys : AdmitBranch(o, k)
         \/ AdmitUnbranched(o) \/ Expire(o) \/ Drop(o)
    \/ Tick
PresenceSpec == PresenceInit /\ [][PresenceNext]_presenceVars

-----------------------------------------------------------------------------
Claimed(o) == lifetime[o] # 0
CurrentOwner(o) == Claimed(o) /\ lifetime[o] = published.owner

\* Each owner has a lifetime of its own, and the latest is the published one: a predecessor
\* that is still ending never replaces what its successor published (BranchPresence::publish).
OneOwner ==
    /\ \A o, q \in Owners : Claimed(o) /\ lifetime[o] = lifetime[q] => o = q
    /\ \A o \in Owners : lifetime[o] <= published.owner
    /\ published.owner # 0 => \E o \in Owners : CurrentOwner(o)

\* Between its steps, what the current owner published is the membership it keeps; once it is
\* gone, nothing is published (OwnedBranches::admit, expire and drop).
PublishedExact ==
    \A o \in Owners : CurrentOwner(o) =>
      /\ step[o] = "idle" => published.members = membership[o]
      /\ step[o] = "gone" => published.members = Empty

\* The membership names the instances that the owner holds, within its capacity.
MembershipExact ==
    \A o \in Owners :
      /\ membership[o].branches = KeysOf(entries[o])
      /\ Len(entries[o]) = Cardinality(KeysOf(entries[o])) /\ Len(entries[o]) <= Capacity

\* At any time a sweep would release every branch that was idle long enough, and no other
\* (OwnedBranches::expire): the order of use is the order of time.
ExpiresIdle ==
    \A o \in Owners :
      LET s == entries[o]
      IN KeysOf(SubSeq(s, 1, ExpiredCount(s)))
           = {s[i].key : i \in {j \in DOMAIN s : now >= s[j].at + MaxIdle}}
=============================================================================
