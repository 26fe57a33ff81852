---- MODULE MCRateLimiter ----
EXTENDS RateLimiter, TLC

Symmetry == Permutations(Requests \ Skipping) \cup Permutations(Suffixes)
====
