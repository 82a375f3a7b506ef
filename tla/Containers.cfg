SPECIFICATION FairSpec
CONSTANTS
  Chars = {"a", "b", "/", "*"}
  Star = "*"
  Requests = {r1}
  e1 = e1
  e2 = e2
  c1 = c1
  c2 = c2
  n1 = n1
  Empty = Empty
  Default = Default
  EnvIds = {e1, e2}
  Clusters = {c1, c2}
  Names <- MCNames
  Envs <- MCEnvs
  Joins <- MCJoins
  Claims <- MCClaims
  GroupsOf <- MCGroupsOf
  PatternsOf <- MCPatternsOf
  All = All
  None = None
INVARIANTS
  TypeOK
  CallsStayInGrant
  AuditedBeforeRun
  OkMeansAccepted
  ListingComplete
  AccessFromGroups
  CallsInTurn
PROPERTIES
  OkIsFinal
  RequestsAnswered
