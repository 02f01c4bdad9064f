SPECIFICATION Spec
CONSTANTS
  Threads = {t1, t2}
  Hosts = {a, b}
  Whitelist = {b}
  Filtered = {a6}
  Server = s
  ServerMixed = S
  Asked = {a6}
  Upstreams = 2
  RouteTTL = 2
  RouteMax = 1
  RelayTTL = 1
  RelayMax = 0
  LookupTime = 1
  None = None
SYMMETRY Symmetry
INVARIANTS RouteJustified AnswerFits CachesBounded RingBroken
CHECK_DEADLOCK FALSE
