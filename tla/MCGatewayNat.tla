---------------------------- MODULE MCGatewayNat ----------------------------
(* One router, two gateway ports one after the other, a port of an          *)
(* instance, two requests at a time and two mappings at a time; MaxOps      *)
(* requests on the gateway are begun, port and subnet requests are free.    *)
EXTENDS GatewayNat, FiniteSets, TLC

CONSTANTS p1, g1, g2, x1, x2, t1, t2, q1, q2, n1, n2, MaxOps

VARIABLE begun

MCPorts    == {p1}
MCGwPorts  == {g1, g2}
MCOwners   == MCPorts \cup MCGwPorts
MCExt      == {x1, x2}
MCTargets  == {t1, t2}
MCRequests == {q1, q2}
MCNats     == {n1, n2}
MCPools    == {{<<1, 2>>}, {<<2, 2>>}}

Symmetry == Permutations(MCNats) \cup Permutations(MCGwPorts)
            \cup Permutations(MCExt) \cup Permutations(MCTargets)
            \cup Permutations(MCRequests)

Begins == Cardinality({q \in Requests : req[q] = NoReq /\ req'[q] # NoReq})
MCInit == GInit /\ begun = 0
MCNext == Next /\ begun' = begun + Begins /\ begun' <= MaxOps
MCSpec == MCInit /\ [][MCNext]_<<vars, begun>>
=============================================================================
