---------------------------- MODULE MCOnboarding ----------------------------
EXTENDS Onboarding, TLC

\* Requests and names are interchangeable in every safety property.
Symmetry == Permutations(Requests) \cup Permutations(Names)
=============================================================================
