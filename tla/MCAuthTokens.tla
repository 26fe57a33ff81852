---- MODULE MCAuthTokens ----
EXTENDS AuthTokens, TLC

\* Token pairs and requests are told apart only by what happens to them.
Symmetry == Permutations(Tokens) \cup Permutations(Requests)
====
