SPECIFICATION Spec
CONSTANTS
  Conns = {c1, c2}
  Quota = 2
  Days = 1
  MaxTime = 3
  MaxTotal = 3
INVARIANT EndedIsSaved
PROPERTY SavedNeverGoesBack
SYMMETRY Symmetry
