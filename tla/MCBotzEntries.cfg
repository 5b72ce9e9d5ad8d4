CONSTANTS
  Hosts = {"h1"}
  Jobs = {"j1", "j2"}
  Clusters = {"c1", "c2"}
  Servs = {"s1", "s2"}
  Filesystems = {"f1"}
  Paths <- MCPaths
  AllocMayFail = TRUE
SPECIFICATION Spec
INVARIANT OnlyLastingEntries
INVARIANT CacheTransparent
INVARIANT DotDotReturns
