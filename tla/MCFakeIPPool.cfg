SPECIFICATION PoolSpec
CONSTANTS
  Domains = {d1, d2, d3, d4}
  Apps = {a1, a2}
  Limit = 3
  Size = 6
  TTL = 1
INVARIANTS PoolConsistent RightName
SYMMETRY Symmetry
