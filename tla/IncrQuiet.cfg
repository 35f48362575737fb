SPECIFICATION Spec
CONSTANTS
  Sources = {a, b}
  SrcVersions = {v1, v2}
  Including = {v2}
  HdrVersions = {h1, h2}
  Flags = {f1, f2}
  Opts = {o1}
  NoHdr = NoHdr
  NoObj = NoObj
  Truncated = Truncated
  Modes <- NoCacheModes
  StartsFail = FALSE
  EditsInBuild = FALSE
  Crashes = FALSE
SYMMETRY SourceSymmetry
INVARIANTS TypeOK SkippedIsFresh NothingToDo
PROPERTY ImplementsIdeal
