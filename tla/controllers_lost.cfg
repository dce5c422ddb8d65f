SPECIFICATION Spec
CONSTANTS
  dep = dep  pod = pod  i1 = i1  i2 = i2  None = None
  Handlers = {h1}
  Workers = {w1, w2}
  Objects = {dep, pod}
  Images = {i1}
  Pods = {pod}
  Watched = {dep, pod}
  Initial <- OneImage
  CooldownOn = TRUE
  MaxEdits = 1
  MaxForce = 0
PROPERTIES EventuallyMirrored
