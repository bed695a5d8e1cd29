----------------------------- MODULE MCProjects -----------------------------
EXTENDS Projects, TLC

\* Tenants, names, existing projects and requests are interchangeable.
Symmetry ==
  Permutations(Orgs) \cup Permutations(Names) \cup Permutations(Existing)
    \cup Permutations(Requests)
=============================================================================
