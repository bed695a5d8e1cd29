----------------------------- MODULE MCUserAdmin -----------------------------
EXTENDS UserAdmin, TLC

\* Users and requests are interchangeable in every safety property.
Symmetry == Permutations(Users) \cup Permutations(Requests)
=============================================================================
