--------------------------- MODULE MCRuleCompound ---------------------------
EXTENDS RuleCompound, TLC
CONSTANTS n1, n2, g, ad, us, h1, h2
MCMembers == (n1 :> {n1}) @@ (n2 :> {n2}) @@ (g :> {n1, n2})
NodeSymmetry == Permutations({n1, n2})
Symmetry == Permutations({n1, n2}) \union Permutations({h1, h2})
=============================================================================
