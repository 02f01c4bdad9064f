SPECIFICATION Spec
CONSTANTS
  Passwords = {p1, p2}
  Rotations = {r1, r2}
  Handshakes = {h1, h2}
  MaxSelf = 2
  MaxIssued = 2
INVARIANTS AckedSurvives PinnedIsOnDisk RenewedIsShown
SYMMETRY Symmetry
CHECK_DEADLOCK FALSE
