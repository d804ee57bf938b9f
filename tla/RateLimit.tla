----------------------------- MODULE RateLimit -----------------------------
(***************************************************************************)
(* The allowances of one execution unit (src/crates/rate-limit/src).  A    *)
(* clause keeps a horizon, for each key when it is keyed: the time at      *)
(* which what was admitted so far is replenished, as an offset to the      *)
(* limiter's epoch.  A payload is charged to every clause in turn and      *)
(* refunded when one of them refuses it.  The state is captured and        *)
(* installed again on another clock.                                       *)
(*                                                                         *)
(* Offsets are unsigned and MaxNanos is their largest value.  An admission *)
(* borrows the limiter exclusively, so the shards of a keyed store do not  *)
(* show: the model has one.  A clause that is not keyed charges one key.   *)
(***************************************************************************)
EXTENDS Naturals, Sequences, FiniteSets

CONSTANTS Clauses,   \* sequence of [keyed, count, period, burst, ttl, maxKeys]
          Keys, Unit,     \* keys of keyed clauses, and the one of the others
          MaxNanos,       \* largest offset
          MaxVisits,      \* largest ordinal of a visit, which is never given
          MaxCost, MaxTime, MaxElapse, MaxRestarts

VARIABLES now,     \* the node's clock
          epoch,   \* the limiter's epoch on that clock
          store,   \* clause -> retained key -> [horizon, seen, ordinal]
          visits,  \* clause -> next ordinal
          recent, used, \* what was admitted: order and time of each key's last use
          restarts

vars == <<now, epoch, store, visits, recent, used, restarts>>

Clause == DOMAIN Clauses
AllKeys == Keys \cup {Unit}
KeysOf(c) == IF Clauses[c].keyed THEN Keys ELSE {Unit}
Charges == {charge \in [Clause -> [key : AllKeys, cost : 1..MaxCost]] :
              \A c \in Clause : charge[c].key \in KeysOf(c)}

(***************************************************************************)
(* Quota::new.                                                             *)
(***************************************************************************)
\* Rounded up, it never admits faster than the rate.
Interval(c) == (Clauses[c].period + Clauses[c].count - 1) \div Clauses[c].count
Horizon(c) == Interval(c) * Clauses[c].burst
Accepted(c) ==
    /\ Clauses[c].count > 0 /\ Clauses[c].period >= Clauses[c].count /\ Clauses[c].burst > 0
    /\ Horizon(c) <= MaxNanos \div 2
    /\ Clauses[c].keyed => Clauses[c].ttl \in 1..MaxNanos

Fresh == [horizon |-> 0, seen |-> 0, ordinal |-> 0]
\* A limiter starts with the clauses Quota::new accepts.
Init ==
    /\ \A c \in Clause : Accepted(c)
    /\ now = 0 /\ epoch = 0
    /\ store = [c \in Clause |-> IF Clauses[c].keyed THEN [k \in {} |-> Fresh]
                                 ELSE [k \in {Unit} |-> Fresh]]
    /\ visits = [c \in Clause |-> 0]
    /\ recent = [c \in Clause |-> <<>>] /\ used = [c \in Clause |-> [k \in AllKeys |-> 0]]
    /\ restarts = 0

TypeOK ==
    /\ now \in 0..MaxTime /\ epoch \in 0..now
    /\ \A c \in Clause :
         /\ DOMAIN store[c] \subseteq KeysOf(c) /\ visits[c] \in 0..MaxVisits
         /\ Clauses[c].keyed => Cardinality(DOMAIN store[c]) <= Clauses[c].maxKeys
         /\ \A k \in DOMAIN store[c] :
              /\ store[c][k].horizon \in 0..MaxNanos /\ store[c][k].seen \in 0..(now - epoch)
              /\ store[c][k].ordinal \in 0..MaxVisits

(***************************************************************************)
(* Admission, at the offset t.                                             *)
(***************************************************************************)
Over(a, b) == IF a > b THEN a - b ELSE 0

\* KeyedStore::expire.
Expired(c, t) ==
    IF ~Clauses[c].keyed THEN store[c]
    ELSE [k \in {j \in DOMAIN store[c] : t - store[c][j].seen < Clauses[c].ttl} |-> store[c][k]]

\* validate: the charge may reach one burst beyond the offset.
InRange(t) == \A c \in Clause : t + Horizon(c) <= MaxNanos
Never(charge) == \E c \in Clause : charge[c].cost > Clauses[c].burst
Exhausted == {c \in Clause : Clauses[c].keyed /\ visits[c] = MaxVisits}

\* RelativeStore and GCRA: what the key still owes, and the wait until the cost fits.
Owes(c, k, t) == IF k \in DOMAIN Expired(c, t) THEN Over(Expired(c, t)[k].horizon, t) ELSE 0
Wait(c, charge, t) ==
    Over(Owes(c, charge[c].key, t) + charge[c].cost * Interval(c), Horizon(c))
Waits(charge, t) ==
    LET waits == {Wait(c, charge, t) : c \in Clause} IN CHOOSE w \in waits : \A v \in waits : v <= w

Outcome(charge, t) ==
    IF ~InRange(t) THEN "range" ELSE IF Never(charge) THEN "never"
    ELSE IF Exhausted # {} THEN "visits" ELSE IF Waits(charge, t) > 0 THEN "wait" ELSE "admitted"

\* The key that makes room: the one whose last visit is oldest.
Victims(c, t, key) ==
    LET kept == Expired(c, t)
    IN IF Clauses[c].keyed /\ key \notin DOMAIN kept
          /\ Cardinality(DOMAIN kept) >= Clauses[c].maxKeys
       THEN {k \in DOMAIN kept : \A j \in DOMAIN kept : kept[k].ordinal <= kept[j].ordinal}
       ELSE {}

\* KeyLease::commit, and the horizon of a cell that is charged.
Charged(c, charge, t) ==
    LET kept == Expired(c, t)
        key == charge[c].key
        entry == [horizon |-> t + Owes(c, key, t) + charge[c].cost * Interval(c),
                  seen |-> t, ordinal |-> visits[c]]
    IN [k \in (DOMAIN kept \ Victims(c, t, key)) \cup {key} |-> IF k = key THEN entry ELSE kept[k]]

Visit == visits' = [c \in Clause |-> IF Clauses[c].keyed THEN visits[c] + 1 ELSE visits[c]]

\* admit_at: every clause is charged, or none is.
Admit(charge) ==
    LET t == now - epoch
    IN /\ Outcome(charge, t) = "admitted"
       /\ store' = [c \in Clause |-> Charged(c, charge, t)]
       /\ Visit
       /\ recent' = [c \in Clause |->
                       Append(SelectSeq(recent[c], LAMBDA k : k # charge[c].key), charge[c].key)]
       /\ used' = [c \in Clause |-> [used[c] EXCEPT ![charge[c].key] = now]]
       /\ UNCHANGED <<now, epoch, restarts>>
\* The fault of a refusal that keeps what clauses before the refusing one charged.
RefuseKeepsCharges(charge) ==
    LET t == now - epoch
    IN /\ Outcome(charge, t) = "wait"
       /\ store' = [c \in Clause |-> IF Wait(c, charge, t) = 0 THEN Charged(c, charge, t)
                                     ELSE Expired(c, t)]
       /\ Visit /\ UNCHANGED <<now, epoch, recent, used, restarts>>
\* A payload that has to wait leaves every cell as it was; keys may have expired.
Refuse(charge) ==
    LET t == now - epoch
    IN /\ Outcome(charge, t) = "wait"
       /\ store' = [c \in Clause |-> Expired(c, t)]
       /\ Visit /\ UNCHANGED <<now, epoch, recent, used, restarts>>

\* next_ordinal runs out: the clauses before it were visited and are refunded.
RunOut(charge) ==
    LET t == now - epoch
    IN /\ Outcome(charge, t) = "visits"
       /\ \E first \in Exhausted :
            /\ \A c \in Exhausted : first <= c
            /\ store' = [c \in Clause |-> IF c <= first THEN Expired(c, t) ELSE store[c]]
            /\ visits' = [c \in Clause |->
                            IF c < first /\ Clauses[c].keyed THEN visits[c] + 1 ELSE visits[c]]
       /\ UNCHANGED <<now, epoch, recent, used, restarts>>

\* key_statistics.
Count ==
    /\ store' = [c \in Clause |-> Expired(c, now - epoch)]
    /\ UNCHANGED <<now, epoch, visits, recent, used, restarts>>

Tick ==
    /\ now < MaxTime /\ now' = now + 1
    /\ UNCHANGED <<epoch, store, visits, recent, used, restarts>>

(***************************************************************************)
(* The state as it is captured, and installed again after d of UTC.        *)
(***************************************************************************)
\* Limiter::generation: what is still in debt.
Retained(c) ==
    LET t == now - epoch
        entry(k) == store[c][k]
    IN {[key |-> k, remaining |-> entry(k).horizon - t, age |-> t - entry(k).seen,
         ordinal |-> entry(k).ordinal] :
          k \in {j \in DOMAIN store[c] :
                   /\ entry(j).horizon > t
                   /\ Clauses[c].keyed => t - entry(j).seen < Clauses[c].ttl}}

\* to_utc, and from_utc later.
Captured(c, d) ==
    {[g EXCEPT !.remaining = @ - d, !.age = @ + d] :
       g \in {h \in Retained(c) :
                /\ h.remaining > d
                /\ Clauses[c].keyed => h.age + d < Clauses[c].ttl}}

\* Generation::prepare.
Prepared(c, kept) ==
    /\ \A g \in kept : g.remaining \in 1..Horizon(c)
    /\ Clauses[c].keyed =>
         /\ Cardinality(kept) <= Clauses[c].maxKeys
         /\ \A g \in kept : /\ g.age + g.remaining <= Horizon(c) /\ g.age < Clauses[c].ttl
                            /\ g.ordinal < MaxVisits
         /\ \A g, h \in kept : g # h => /\ g.key # h.key /\ g.ordinal # h.ordinal
                                        /\ g.ordinal < h.ordinal => g.age >= h.age

Greatest(s) == CHOOSE x \in s : \A y \in s : y <= x
MaximumAge(d) ==
    Greatest({0} \cup UNION {{g.age : g \in Captured(c, d)} : c \in {e \in Clause : Clauses[e].keyed}})

\* KeyedStore::restore, and the horizon of a direct cell, at the offset of the restart.
Restored(c, kept, offset) ==
    IF Clauses[c].keyed
    THEN [k \in {g.key : g \in kept} |->
            LET g == CHOOSE h \in kept : h.key = k
            IN [horizon |-> offset + g.remaining, seen |-> offset - g.age, ordinal |-> g.ordinal]]
    ELSE [k \in {Unit} |->
            [Fresh EXCEPT !.horizon = offset + Greatest({0} \cup {g.remaining : g \in kept})]]

\* from_generation: the epoch lies before every retained use.
Restart(d) ==
    LET offset == MaximumAge(d)
    IN /\ restarts < MaxRestarts /\ restarts' = restarts + 1
       /\ now + d <= MaxTime /\ now' = now + d
       /\ \A c \in Clause : Prepared(c, Captured(c, d))
       /\ epoch' = now + d - offset
       /\ store' = [c \in Clause |-> Restored(c, Captured(c, d), offset)]
       /\ visits' = [c \in Clause |->
                       IF Clauses[c].keyed /\ Captured(c, d) # {}
                       THEN Greatest({g.ordinal : g \in Captured(c, d)}) + 1 ELSE 0]
       /\ UNCHANGED <<recent, used>>

Next ==
    \/ \E charge \in Charges : Admit(charge) \/ Refuse(charge) \/ RunOut(charge)
    \/ Count \/ Tick \/ \E d \in 0..MaxElapse : Restart(d)
Spec == Init /\ [][Next]_vars

-----------------------------------------------------------------------------
\* The limiter admits what a token bucket for every clause and key would, across
\* refusals, expiry, eviction and restarts (admit_at, KeyedStore, from_generation).
Level == [c \in Clause |-> [k \in AllKeys |->
            Horizon(c) - (IF k \in DOMAIN store[c] THEN Over(store[c][k].horizon, now - epoch)
                          ELSE 0)]]
Buckets == INSTANCE TokenBuckets WITH
             level <- Level, Keys <- AllKeys,
             Clauses <- [c \in Clause |-> [keyed |-> Clauses[c].keyed, burst |-> Clauses[c].burst,
                                        interval |-> Interval(c), ttl |-> Clauses[c].ttl,
                                        maxKeys |-> Clauses[c].maxKeys]]
ImplementsBuckets == Buckets!Promise

\* A payload that is told to wait is admitted at the deadline it was given, if nothing
\* else was admitted, and at no time before unless one of its keys is forgotten first
\* (the deadline of admit_at is the latest over the clauses).
WaitExact ==
    LET t == now - epoch
        forgets(charge, v) ==
          \E c \in Clause : charge[c].key \in DOMAIN store[c] \ DOMAIN Expired(c, t + v)
    IN \A charge \in Charges :
         Outcome(charge, t) = "wait" =>
           \A v \in 0..Waits(charge, t) :
             /\ v = Waits(charge, t) => Outcome(charge, t + v) \in {"admitted", "range"}
             /\ v < Waits(charge, t) /\ Outcome(charge, t + v) = "admitted" => forgets(charge, v)

\* What a limiter captures is a state it accepts, whenever it is installed again
\* (generation and from_utc against Generation::prepare).
RestoresOwn == \A d \in 0..MaxElapse : \A c \in Clause : Prepared(c, Captured(c, d))
=============================================================================
