------------------------- MODULE MCDiscoverSession --------------------------
(* Two adapters: each lists the other, or one lists two and one nobody. *)
EXTENDS DiscoverSession

CONSTANTS s1, s2

Adapters == {s1, s2}

SmallNetworks == {[s \in Adapters |-> 1], [s \in Adapters |-> IF s = s1 THEN 2 ELSE 0]}

FastAndSlow == {1, 3}
=============================================================================
