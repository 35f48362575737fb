SPECIFICATION FairSpec
CONSTANTS
  lib = lib
  util = util
  app = app
  fl = fl
  fu = fu
  fa = fa
  gen = gen
  mid = mid
  spec = spec
  Artifacts = {lib, util, app}
  Files = {fl, fu, fa, gen, mid, spec}
  Configs <- AllProjects
  MaxClock = 2
  PartialSteps = TRUE
  Kills = TRUE
  None = None
INVARIANTS TypeOK DepsFirst OrderIsComplete BuildIsCurrent StepsAreCurrent TestsAreCurrent
PROPERTY CommandsEnd
