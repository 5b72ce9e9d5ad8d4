CONSTANTS
  h1 = h1
  h2 = h2
  i0 = i0
  j0 = j0
  i1 = i1
  iN = iN
  c0 = c0
  c1 = c1
  NONE = NONE
  s1 = s1
  s2 = s2
  f1 = f1
  f2 = f2
  NoJob = NoJob
  Freed = Freed
  Hosts = {h1, h2}
  Jobs = {i0, j0, i1, iN}
  Clusters = {c0, c1, NONE}
  Servs = {s1, s2}
  Filesystems = {f1, f2}
  ClusOf <- MCClusOf
  FsOf <- MCFsOf
  Bucket <- MCBucket
  Statuses <- MCStatuses
  Periodic = {c0, c1}
  GetMayFail = TRUE
SPECIFICATION Spec
INVARIANT FreedOnlyIfUnlisted
INVARIANT KeepsListedJobs
INVARIANT FsShowsLastReply
INVARIANT OneWatchedPerChain
