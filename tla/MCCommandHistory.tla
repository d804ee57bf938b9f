-------------------------- MODULE MCCommandHistory --------------------------
(* The command history of three references of different ages, under leaders  *)
(* whose clocks jump both ways.                                            *)
EXTENDS CommandHistory, TLC

CONSTANTS r1, r2, r3, q1, q2

MCReference == {r1, r2, r3}
MCRequest == {q1, q2}
MCIssuedAt == (r1 :> 1) @@ (r2 :> 3) @@ (r3 :> 2)
MCTimestamp == 0..5
=============================================================================
