SPECIFICATION FairSpec
CONSTANTS
  Conns = {c1, c2, c3}
  MaxConns = 2
INVARIANTS ActiveIsExact RemoteIsOwned
PROPERTIES HandshakeEnds RemoteEndReleases
