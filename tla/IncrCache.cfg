SPECIFICATION Spec
CONSTANTS
  Sources = {a, b}
  SrcVersions = {v1, v2}
  Including = {v2}
  HdrVersions = {h1}
  Flags = {f1, f2}
  Opts = {o1}
  NoHdr = NoHdr
  NoObj = NoObj
  Truncated = Truncated
  Modes <- AllModes
  StartsFail = TRUE
  EditsInBuild = FALSE
  Crashes = FALSE
SYMMETRY SourceSymmetry
INVARIANTS CacheIsSound SkippedHasSourceAndFlags
