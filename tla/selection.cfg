SPECIFICATION SkipSpec
CONSTANTS
  prod = prod  kube = kube  prodAny = prodAny
  web = web  webRs = webRs  webPod = webPod  sync = sync  syncJob = syncJob  syncPod = syncPod  dns = dns
  Namespaces = {prod, kube}
  Star = Star
  Patterns = {prodAny}
  Matches <- PatternMatches
  Skipped = {kube}
  Refs = {web, webRs, webPod, sync, syncJob, syncPod, dns}
  Objects = {webRs, webPod, syncJob, syncPod, dns}
  KindOf <- Kind
  NamespaceOf <- Namespace
  NameOf <- Name
  OwnerOf <- Owner
  None = None
  Watched = {"Deployment", "CronJob", "Job", "Pod"}
  SkipNames <- Lists
INVARIANTS OnlySelected ScopesAgree UncoveredNotLost
PROPERTIES SkippedOnlyWhileUnknown
