\* One agent that reconnects and one that is refused, with the code's delays.
SPECIFICATION Spec
CONSTANTS
  c = c
  Agents = {a, b}
  Clusters = {c}
  ClusterOf <- OneCluster
  Rejected = {b}
  None = None
  Conns = {k1, k2}
  BaseBackoff = 5
  MaxBackoff = 60
PROPERTY
  BackoffResets
