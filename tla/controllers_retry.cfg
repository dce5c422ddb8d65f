SPECIFICATION Spec
CONSTANTS
  dep = dep  pod = pod  i1 = i1  i2 = i2  None = None
  Handlers = {h1}
  Workers = {w1, w2}
  Objects = {dep, pod}
  Images = {i1, i2}
  Pods = {pod}
  Watched = {dep, pod}
  Initial <- Shared
  CooldownOn = TRUE
  MaxEdits = 0
  MaxForce = 0
INVARIANTS NoImageForgotten
PROPERTIES EventuallyMirrored
