---------------------------- MODULE MCRelayServer ----------------------------
(* RelayServer on a small instance: three requests for two permits, two of  *)
(* them the same envelope sent twice by a tenant, the third of another one. *)
EXTENDS RelayServer, TLC

CONSTANTS r1, r2, r3, t1, t2, i1

MCRequests == {r1, r2, r3}
MCTenants == {t1, t2}
MCRequestIds == {i1}
MCKeyOf == (r1 :> <<t1, i1>>) @@ (r2 :> <<t1, i1>>) @@ (r3 :> <<t2, i1>>)
=============================================================================
