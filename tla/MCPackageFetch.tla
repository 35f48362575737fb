--------------------------- MODULE MCPackageFetch ---------------------------
EXTENDS PackageFetch, TLC

CONSTANTS a, b

Asks(va, vb) == a :> va @@ b :> vb
Nothing == Asks(NoDep, NoDep)

\* Two packages that depend on each other.  The second commit of a calls a method
\* of an artifact before its b:dep; a commit of b names its dependency in
\* SharpDeps.lua, the other in its config.spkg.
DeclaresAB == a :> (1 :> Asks(NoDep, 1) @@ 2 :> Asks(NoDep, Latest))
              @@ b :> (1 :> Nothing @@ 2 :> Asks(Latest, NoDep))
DiscoveredAB == [DeclaresAB EXCEPT ![a][2] = Nothing]
ListedAB == [p \in Pkgs |-> [c \in Commits |-> IF p = b /\ c = 1 THEN Asks(1, NoDep) ELSE Nothing]]

\* The tag of a stays on commit 1; that of b is moved.
TargetsAB == a :> (1 :> {1} @@ Latest :> {1, 2}) @@ b :> (1 :> {1, 2} @@ Latest :> {2})
=============================================================================
