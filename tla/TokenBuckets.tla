---------------------------- MODULE TokenBuckets ----------------------------
(***************************************************************************)
(* What the allowances of one execution unit promise: every clause, and in *)
(* a keyed clause every key, is a bucket that fills by one for each unit   *)
(* of time up to its size.  A payload is admitted when every clause has    *)
(* what it costs, and takes it from all of them or from none.  A keyed     *)
(* clause may forget a key that was idle for its TTL, or once as many      *)
(* other keys as it keeps were used later; a forgotten key is full.        *)
(***************************************************************************)
EXTENDS Naturals, Sequences, FiniteSets

CONSTANTS Clauses, Keys, MaxCost, MaxElapse

VARIABLES level,  \* clause -> key -> content of its bucket
          recent, \* clause -> keys in the order of their last admitted use
          used,   \* clause -> key -> when that was
          now

Clause == DOMAIN Clauses
Size(c) == Clauses[c].burst * Clauses[c].interval
Price(c, cost) == cost * Clauses[c].interval
Smaller(a, b) == IF a < b THEN a ELSE b

Start ==
    /\ level = [c \in Clause |-> [k \in Keys |-> Size(c)]]
    /\ recent = [c \in Clause |-> <<>>]
    /\ used = [c \in Clause |-> [k \in Keys |-> 0]]
    /\ now = 0

\* Keys that were used after k.
Later(c, k) ==
    {recent[c][i] : i \in {j \in DOMAIN recent[c] : \E p \in 1..(j - 1) : recent[c][p] = k}}
Forgettable ==
    {b \in Clause \X Keys :
       /\ Clauses[b[1]].keyed
       /\ \/ now - used[b[1]][b[2]] >= Clauses[b[1]].ttl
          \/ Cardinality(Later(b[1], b[2])) >= Clauses[b[1]].maxKeys}
LevelOf(c, k, forgotten) == IF <<c, k>> \in forgotten THEN Size(c) ELSE level[c][k]

\* Time passes, and keys are forgotten.
Passes ==
    \E d \in 0..MaxElapse :
      /\ now' = now + d /\ UNCHANGED <<recent, used>>
      /\ \E forgotten \in SUBSET Forgettable' :
           level' = [c \in Clause |-> [k \in Keys |->
                       Smaller(Size(c), LevelOf(c, k, forgotten) + d)]]

\* A payload that costs charge[c].cost in the bucket of charge[c].key, for each clause c.
Takes(charge) ==
    /\ now' = now
    /\ recent' = [c \in Clause |->
                    Append(SelectSeq(recent[c], LAMBDA k : k # charge[c].key), charge[c].key)]
    /\ used' = [c \in Clause |-> [used[c] EXCEPT ![charge[c].key] = now]]
    /\ \E forgotten \in SUBSET (Forgettable \cup Forgettable') :
         /\ \A c \in Clause : LevelOf(c, charge[c].key, forgotten) >= Price(c, charge[c].cost)
         /\ level' = [c \in Clause |-> [k \in Keys |->
                        LevelOf(c, k, forgotten)
                          - (IF k = charge[c].key THEN Price(c, charge[c].cost) ELSE 0)]]

Acts == Passes \/ \E charge \in [Clause -> [key : Keys, cost : 1..MaxCost]] : Takes(charge)
Promise == Start /\ [][Acts]_<<level, recent, used, now>>
=============================================================================
