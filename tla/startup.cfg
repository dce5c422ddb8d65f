SPECIFICATION Spec
CONSTANTS
  Instances = {i1, i2}
  None = None
  Bad = Bad
  Configurations <- AllConfigurations
  ArchOrder <- Architectures
  Kinds = {"pods", "deployments"}
  MaxCrashes = 2
  LowerCase <- Lowered
  Dotted = {"docker.io", "index.docker.io", "ghcr.io", "eu.corp.io", "Docker.io", "EU.corp.io"}
  Unusual = {"!"}
  Matching <- Matches
  Digest <- Hash
  MaxRepoName = 8
INVARIANTS SoundSettings AnswersReady ExcludedNeverMirrored WorkloadsSeparate RepositoriesClean CredentialStable LabelNamesRegistry
PROPERTIES Arrives
