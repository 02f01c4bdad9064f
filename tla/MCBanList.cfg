SPECIFICATION Spec
CONSTANTS
  IPs = {i1, i2}
  Tunnels = {t1}
  Admins = {a1, a2}
  Threshold = 2
  BanDuration = 2
  BanWindow = 0
  PruneAt = 1
  MaxTime = 3
INVARIANTS OffMeansEmpty SwitchPersists
PROPERTIES BanStands BanEarned ImplementsPolicy
SYMMETRY Symmetry
