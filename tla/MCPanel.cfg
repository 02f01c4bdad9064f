SPECIFICATION Spec
CONSTANTS
  Machines <- MCMachines
  Threads = {t1, t2}
  Pids = {c1, c2}
  Passwords = {p1, p2}
  NoPass = NoPass
  None = None
SYMMETRY Symmetry
VIEW View
INVARIANTS ProxyGivenBack ClientIsReachable ClientHasPassword
CHECK_DEADLOCK FALSE
