------------------------------ MODULE MCEeCore -------------------------------
EXTENDS EeCore, TLC
Lo(size, s, g, even, odd) == [size |-> size, s |-> s, g |-> g, info |-> (0 :> even @@ 1 :> odd)]
V(pfn, d) == [pfn |-> pfn, v |-> TRUE, d |-> d]
MCLoPairs == {Lo(1, FALSE, TRUE, V(0, TRUE), V(1, FALSE)), Lo(1, FALSE, FALSE, V(4, TRUE), V(5, TRUE))}
MCVectors == ("refill" :> 4 @@ "interrupt" :> 4 @@ "common" :> 5)
MCFirstLo == Lo(1, FALSE, TRUE, V(0, TRUE), V(1, FALSE))
MCControl == [kinds |-> {"plain", "branch", "trap", "eret", "enable"}, time_to_ticks |-> 19]
MCMmu == [kinds |-> {"memory", "tlb", "context", "eret"}, time_to_ticks |-> 1]
MCPrograms == {MCControl, MCMmu}
=============================================================================
