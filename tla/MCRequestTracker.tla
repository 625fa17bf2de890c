-------------------------- MODULE MCRequestTracker --------------------------
(* RequestTracker on a small instance.  Two tenants with three request ids  *)
(* each, a limit of three entries and two per tenant: either limit can be   *)
(* the one that refuses a request that is no duplicate.  The TTL is short   *)
(* enough to pass twice within the horizon.                                *)
EXTENDS RequestTracker, TLC

CONSTANTS t1, t2, i1, i2, i3

MCTenants == {t1, t2}
MCRequestIds == {i1, i2, i3}
\* Tenants are interchangeable, and so are request ids.
Symmetry == Permutations(MCTenants) \cup Permutations(MCRequestIds)
=============================================================================
