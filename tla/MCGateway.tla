------------------------------ MODULE MCGateway ------------------------------
(* Gateway on a small instance: one envelope is brought twice, by one        *)
(* tenant or by two.  Neither tenants nor attempts differ otherwise.        *)
EXTENDS Gateway, TLC

CONSTANTS a1, a2, t1, t2, e1

MCAttempts == {a1, a2}
MCTenants == {t1, t2}
MCEnvelopes == {e1}
MCEnvelopeOf == [a \in MCAttempts |-> e1]

Alike == Permutations(MCAttempts) \cup Permutations(MCTenants)
=============================================================================
