--------------------------- MODULE MCOAuthGrants ---------------------------
EXTENDS OAuthGrants, TLC
Symmetry == Permutations(Pairs)
=============================================================================
