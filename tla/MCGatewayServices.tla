-------------------------- MODULE MCGatewayServices --------------------------
(***************************************************************************)
(* GatewayServices for TLC: callers and names can be exchanged in every    *)
(* state; users too, whose roles are all combinations at the start.        *)
(***************************************************************************)
EXTENDS GatewayServices

CONSTANTS p1, p2, u1, u2, n1, n2, x1, k1, v1

Symmetry == Permutations({p1, p2}) \cup Permutations({u1, u2}) \cup Permutations({n1, n2})
=============================================================================
