-------------------------- MODULE MCClaimPipeline --------------------------
\* ClaimPipeline for TLC: companies that create nothing are interchangeable.
EXTENDS ClaimPipeline, TLC

CompanySymmetry == Permutations(Companies)
=============================================================================
