SPECIFICATION Spec
CONSTANTS
  Instances = {i1, i2}
  None = None
  Bad = Bad
  Configurations <- FileOnly
  ArchOrder <- Architectures
  Kinds = {"pods", "deployments"}
  MaxCrashes = 0
  LowerCase <- Lowered
  Dotted = {"docker.io", "index.docker.io", "ghcr.io", "eu.corp.io", "Docker.io", "EU.corp.io"}
  Unusual = {"!"}
  Matching <- Matches
  Digest <- Hash
  MaxRepoName = 8
INVARIANTS FileSettingsUsed
