-------------------------- MODULE MCIncrementalBuild --------------------------
(* IncrementalBuild for TLC: contents named by what they are, and the       *)
(* options builds are run with.                                             *)
EXTENDS IncrementalBuild, TLC

SourceSymmetry == Permutations(Sources)

NoCacheModes == [cache : {FALSE}, serial : BOOLEAN]
CacheModes == [cache : {TRUE}, serial : BOOLEAN]
AllModes == [cache : BOOLEAN, serial : BOOLEAN]

==============================================================================
