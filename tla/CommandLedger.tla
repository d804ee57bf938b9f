--------------------------- MODULE CommandLedger ---------------------------
(***************************************************************************)
(* What the retained history of persistent session commands promises to a  *)
(* client that retries one command under one execution reference,          *)
(* whatever the clocks of the leaders that serve it read.                  *)
(*                                                                         *)
(*   - a reference moves one way only: unseen, then applying for one       *)
(*     request, then done with one result, then gone;                      *)
(*   - a reference that is gone is never applied again;                    *)
(*   - an applying reference is never forgotten before it has a result;    *)
(*   - one step admits at most one reference and finishes at most one,     *)
(*     while any number of unseen or done references may lapse.            *)
(***************************************************************************)
EXTENDS Naturals

CONSTANTS Reference, Request, Result

VARIABLE ledger

Unseen == [stage |-> "unseen"]
Applying(request) == [stage |-> "applying", request |-> request]
Done(request, result) ==
  [stage |-> "done", request |-> request, result |-> result]
Gone == [stage |-> "gone"]

Init == ledger = [r \in Reference |-> Unseen]

\* Whether a reference may leave the ledger in this step: it has no result that
\* a run still has to record.
MayLapse(r) == ledger[r] = Unseen \/ ledger[r].stage = "done"

\* Every reference but `except` keeps its place or lapses.
OthersKeepOrLapse(except) ==
  \A r \in Reference \ except :
    \/ ledger'[r] = ledger[r]
    \/ MayLapse(r) /\ ledger'[r] = Gone

LedgerShape == ledger' = [r \in Reference |-> ledger'[r]]

Admit(r, request) ==
  /\ ledger[r] = Unseen
  /\ LedgerShape
  /\ ledger'[r] = Applying(request)
  /\ OthersKeepOrLapse({r})

Finish(r, request, result) ==
  /\ ledger[r] = Applying(request)
  /\ LedgerShape
  /\ ledger'[r] = Done(request, result)
  /\ OthersKeepOrLapse({r})

Lapse ==
  /\ LedgerShape
  /\ OthersKeepOrLapse({})

Next ==
  \/ \E r \in Reference, request \in Request : Admit(r, request)
  \/ \E r \in Reference, request \in Request, result \in Result :
       Finish(r, request, result)
  \/ Lapse

Spec == Init /\ [][Next]_ledger
=============================================================================
