\* The namespace b of cluster a and the swarm a-b share an id.
SPECIFICATION FairSpec
CONSTANTS
  Words <- MCWords
  Clusters <- MCClusters
  TypesOf <- MCTypes
  Namespaces <- MCNamespaces
  ShortIds <- MCShortIds
  Yaml <- NoEntries
  Legacy <- NoEntries
  Posted <- Nothing
  None = None
PROPERTY
  NamespacesFound
