CONSTANTS
  U = U
  V = V
  NoNode = NoNode
  h1 = h1
  h2 = h2
  i0 = i0
  i1 = i1
  j1 = j1
  c0 = c0
  c1 = c1
  s1 = s1
  s2 = s2
  f1 = f1
  f2 = f2
  l1 = l1
  l2 = l2
  n1 = n1
  n2 = n2
  Hosts = {h1, h2}
  Jobs = {i0, i1, j1}
  Clusters = {c0, c1}
  Servs = {s1, s2}
  Filesystems = {f1}
  FsOf <- MCFsOf
  IdleJob <- MCIdleJob
  ClusOf <- MCClusOf
  Lnets = {l1, l2}
  Nids = {n1, n2}
  LnetOf <- MCLnetOf
  LnetFile <- MCLnetFile
  NidName <- MCNidName
  Deltas = {1}
  MaxSum = 2
  AllocMayFail = FALSE
  NONE = NONE
  ann = ann
  Owners = {NONE, ann}
  OwnerOf <- MCOwnerOf
  AnyOwner = AnyOwner
SPECIFICATION FairSpec
INVARIANT TreeConsistent
INVARIANT NoJobForgotten
INVARIANT NothingDangles
INVARIANT TopComplete
INVARIANT TrafficConserved
PROPERTY ListedStays
PROPERTY ImplementsLedger
PROPERTY EmptyJobReclaimed
