-------------------------- MODULE MCSemanticLayer --------------------------
(* An instance of SemanticLayer for TLC: a scope with up to four concepts   *)
(* in a chain, a ring or a fork, and a concept of another scope.            *)
EXTENDS SemanticLayer

CONSTANTS a, b, c, d, foreign, m

MCScopeOf == [x \in Concepts |-> IF x = foreign THEN "other" ELSE "scope"]
MCGraphs  == {{<<b, a>>, <<b, c>>, <<d, c>>}, {<<a, b>>, <<b, c>>, <<c, a>>}}
MCClaims  == {[rank |-> 1, sources |-> {m}], [rank |-> 2, sources |-> {}]}
MCSeeds   == {{a}, {d, foreign}}

MCSymmetry == Permutations(Summarizers)
=============================================================================
