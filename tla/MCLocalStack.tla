----------------------------- MODULE MCLocalStack -----------------------------
(* LocalStack with two stacks, and with a stack and a keygen of each kind.    *)
EXTENDS LocalStack, TLC

CONSTANTS p1, p2, p3

MCProcesses == {p1, p2, p3}
MCKinds ==
  {p1 :> "stack" @@ p2 :> "stack" @@ p3 :> "none",
   p1 :> "stack" @@ p2 :> "keygen" @@ p3 :> "force"}
MCServices == {"exit", "sidecar"}
=============================================================================
