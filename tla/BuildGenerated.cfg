SPECIFICATION Spec
CONSTANTS
  lib = lib
  util = util
  app = app
  fl = fl
  fu = fu
  fa = fa
  gen = gen
  mid = mid
  spec = spec
  Artifacts = {lib, util, app}
  Files = {fl, fu, fa, gen, mid, spec}
  Configs <- GeneratingProjects
  MaxClock = 2
  PartialSteps = TRUE
  Kills = TRUE
  None = None
INVARIANT GeneratedIsCompiled
