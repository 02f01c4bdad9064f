SPECIFICATION FairSpec
CONSTANTS
  Hosts = {h1, h2}
  Dns = Dns
  None = None
  MaxData = 2
INVARIANTS Agreement InStep
PROPERTY DialEnds
