----------------------------- MODULE MCSessions -----------------------------
EXTENDS Sessions, TLC

\* Tenants, users and requests are interchangeable in every safety property.
Symmetry == Permutations(Orgs) \cup Permutations(Users) \cup Permutations(Requests)
=============================================================================
