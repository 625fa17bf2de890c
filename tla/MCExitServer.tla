---------------------------- MODULE MCExitServer ----------------------------
(* ExitServer on a small instance: one envelope twice, on two connections,  *)
(* another on a third, and room for one of them in the replay cache.       *)
EXTENDS ExitServer, TLC

CONSTANTS r1, r2, r3, k1, k2

MCRequests == {r1, r2, r3}
MCReplayKeys == {k1, k2}
MCKeyOf == (r1 :> k1) @@ (r2 :> k1) @@ (r3 :> k2)
=============================================================================
