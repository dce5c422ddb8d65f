SPECIFICATION Spec
CONSTANTS
  app = app  tool = tool  onAmd = onAmd  onArm = onArm
  Pods = {onAmd, onArm}
  Images = {app, tool}
  None = None
  Pinned = {tool}
  Latest = {tool}
  Editable = {onAmd}
  NodeOf <- Nodes
  Source <- SourceImages
  Configurations <- AllConfigurations
INVARIANTS TagsTruthful
PROPERTIES NodeServed ListedPlatformsMirrored
