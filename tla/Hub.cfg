\* Two agents of one cluster and three connections: an old connection that
\* ends late, the one that replaced it, and a third.  One delay is enough,
\* since nothing but the delay depends on backoff.
SPECIFICATION FairSpec
CONSTANTS
  c = c
  Agents = {a, b}
  Clusters = {c}
  ClusterOf <- OneCluster
  Rejected = {}
  None = None
  Conns = {k1, k2, k3}
  BaseBackoff = 5
  MaxBackoff = 5
INVARIANTS
  TypeOK
  NoDeadTunnel
  NewestServes
  FlagOffWhenGone
PROPERTIES
  OpenIsKept
  KeepsDirectory
  ComesOnline
