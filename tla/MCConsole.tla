----------------------------- MODULE MCConsole -----------------------------
(* Console for TLC: addresses of links are alike, and so are those of bundles. *)
EXTENDS Console, TLC

Symmetry == Permutations(LinkMem) \cup Permutations(BundMem)

InMemory(mem) == {x \in mem : w.mem[x] # Freed}

(* Two small worlds in one: two links, as a template and its child are, and one bundle; *)
(* or two bundles, as those are that name the same link, and one link.                  *)
OneBundle == Cardinality(InMemory(BundMem)) <= 1 /\ \A b \in InMemory(BundMem) : ~w.mem[b].robbed

OneLink == Cardinality(InMemory(LinkMem)) <= 1 /\ w.gChildren = 0

OneOfAKind == OneBundle \/ OneLink

=============================================================================
