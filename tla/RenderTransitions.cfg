SPECIFICATION Spec
CONSTANTS
  r1 = r1
  r2 = r2
  video = video
  Proc = {p1, p2}
  Plan = {r1, r2}
  Project = {video}
  projectOf <- MCProjectOf
PROPERTY InvalidTransitionsFailClosed
