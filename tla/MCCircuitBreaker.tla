-------------------------- MODULE MCCircuitBreaker --------------------------
(* Two deployments behind one failure domain.                              *)
EXTENDS CircuitBreaker

CONSTANTS d1, d2, shared

TwoDeployments == {d1, d2}
SharedCapacity == [d \in Deployments |-> shared]
=============================================================================
