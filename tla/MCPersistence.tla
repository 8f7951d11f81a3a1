---- MODULE MCPersistence ----
(* Persistence with two objects on one file and one on another. *)
EXTENDS Persistence, TLC
CONSTANTS a1, a2, b1, pa, pb
MCStores == {a1, a2, b1}
MCPaths == {pa, pb}
MCPathOf == (a1 :> pa) @@ (a2 :> pa) @@ (b1 :> pb)
Symmetry == Permutations(Ids) \cup Permutations(Texts) \cup Permutations({a1, a2})
====
