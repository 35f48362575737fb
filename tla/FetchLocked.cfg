SPECIFICATION Spec
CONSTANTS
  a = a
  b = b
  Pkgs = {a, b}
  Commits = {1, 2}
  Tags = {1}
  Latest = Latest
  Declares <- DeclaresAB
  Discovered <- DiscoveredAB
  Listed <- ListedAB
  Targets <- TargetsAB
  NoDep = NoDep
  Missing = Missing
  Partial = Partial
  NoEntry = NoEntry
  Unknown = Unknown
  Crashes = {}
INVARIANT LockedCanBeFetched
