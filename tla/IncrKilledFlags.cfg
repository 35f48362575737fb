SPECIFICATION Spec
CONSTANTS
  Sources = {a}
  SrcVersions = {v1}
  Including = {v1}
  HdrVersions = {h1}
  Flags = {f1, f2}
  Opts = {o1}
  NoHdr = NoHdr
  NoObj = NoObj
  Truncated = Truncated
  Modes <- NoCacheModes
  StartsFail = TRUE
  EditsInBuild = FALSE
  Crashes = TRUE
INVARIANT ChangedCommandCompiles
