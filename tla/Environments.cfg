SPECIFICATION FairSpec
CONSTANTS
  Words <- MCWords
  Clusters <- MCClusters
  TypesOf <- MCTypes
  Namespaces <- MCNamespaces
  ShortIds <- MCShortIds
  Yaml <- MCYaml
  Legacy <- NoEntries
  Posted <- MCPosted
  None = None
INVARIANTS
  TypeOK
  Remembered
  AddedIsKnown
PROPERTIES
  ManualKept
  KeepsInventory
  Converges
