SPECIFICATION Spec
CONSTANTS
  w1 = w1  w2 = w2  r1 = r1  r2 = r2  v1 = v1  latest = latest
  d1 = d1  d2 = d2  s1 = s1  None = None
  Workers = {w1, w2}
  Requests <- ArchRequests
  Sources = {s1}
  Repos = {r1, r2}
  Tags = {v1, latest}
  Latest = latest
  Digests = {d1, d2}
  Selected <- Same
  ArchRepo <- ToR2
  Children <- NoChildren
  DryRun = FALSE
  DryPull = FALSE
  PullByDigest = FALSE
  MirrorPlatforms = FALSE
  AllowRepush = FALSE
  Cooldown = 1
  Attempts = 1
  Ecr = TRUE
  Deadlines = TRUE
  MaxTime = 1
INVARIANTS NoLeakedMark MutualExclusion CooldownHonoured
PROPERTIES NoOverwrite
SYMMETRY SwapAll
