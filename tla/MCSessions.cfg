SPECIFICATION Spec
CONSTANTS
  None = None
  Orgs = {o1}
  Users = {u1}
  Requests = {r1, r2, r3}
  RefreshTTL = 2
SYMMETRY Symmetry
INVARIANTS
  AnsweredMeansRetired
  ReuseIsDenied
  LinksAreHonest
  AuthorityLapses
  TrailMatchesEffects
CHECK_DEADLOCK FALSE
