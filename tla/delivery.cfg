SPECIFICATION DeliverySpec
CONSTANTS
  Callers = {c1, c2}
  Others = {c2}
  Repos = {r1}
  None = None
  CreateRepo = TRUE
  HasPolicy = TRUE
  Tags = {v1}
  Parts = {amd64, arm64}
  Content <- TagContent
  Timeout = 2
  Attempts = 3
  Backoff = 1
  MaxExpiries = 2
INVARIANTS PolicyOnOwnOnly PolicyUnlessInterrupted
PROPERTIES NoReadAfterTimeout Delivered
