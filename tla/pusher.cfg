SPECIFICATION Spec
CONSTANTS
  w1 = w1  w2 = w2  r1 = r1  r2 = r2  v1 = v1  latest = latest
  d1 = d1  d2 = d2  s1 = s1  None = None
  Workers = {w1, w2}
  Requests <- Mixed
  Sources = {s1}
  Repos = {r1}
  Tags = {v1, latest}
  Latest = latest
  Digests = {d1, d2}
  Selected <- Same
  ArchRepo <- SameRepo
  Children <- D2OfD1
  DryRun = FALSE
  DryPull = FALSE
  PullByDigest = TRUE
  MirrorPlatforms = FALSE
  AllowRepush = FALSE
  Cooldown = 1
  Attempts = 2
  Ecr = TRUE
  Deadlines = TRUE
  MaxTime = 1
INVARIANTS TypeOK NoLeakedMark MutualExclusion CooldownHonoured ResultStillTrue
PROPERTIES NoOverwrite
SYMMETRY Swap
