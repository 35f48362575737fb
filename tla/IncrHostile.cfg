SPECIFICATION FairSpec
CONSTANTS
  Sources = {a}
  SrcVersions = {v1, v2}
  Including = {v2}
  HdrVersions = {h1}
  Flags = {f1}
  Opts = {o1}
  NoHdr = NoHdr
  NoObj = NoObj
  Truncated = Truncated
  Modes <- CacheModes
  StartsFail = TRUE
  EditsInBuild = TRUE
  Crashes = TRUE
INVARIANT NothingToDo
PROPERTY BuildEnds
