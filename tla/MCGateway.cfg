\* Windows of two and three, a provider that may take one, and one in transit: the other
\* deadlines are three.  The clock stops at five, and so does the system.
SPECIFICATION Spec
CONSTANTS
  a1 = a1
  a2 = a2
  t1 = t1
  t2 = t2
  e1 = e1
  Attempts <- MCAttempts
  Tenants <- MCTenants
  Envelopes <- MCEnvelopes
  EnvelopeOf <- MCEnvelopeOf
  relayTimeoutMs = 3
  exitTimeoutMs = 3
  providerTimeoutMs = 1
  requestTtlMs = 2
  replayTtlMs = 3
  MaxDelay = 1
  MaxTime = 5
  MaxRestarts = 1
SYMMETRY Alike
CHECK_DEADLOCK FALSE
INVARIANTS
  CalledAgainOnlyWhenForgotten
  InnermostDeadlineFirst
