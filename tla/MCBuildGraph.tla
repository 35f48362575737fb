----------------------------- MODULE MCBuildGraph -----------------------------
(* Small projects: graphs of links between two libraries and a program.        *)
EXTENDS BuildGraph, SequencesExt

CONSTANTS lib, util, app, fl, fu, fa, gen, mid, spec

Lists(S) == {SetToSeq(T) : T \in SUBSET S}

\* Cycles of one, two and three artifacts included.
Graphs ==
    {lib :> l @@ util :> u @@ app :> a :
        l \in Lists({util, app}), u \in Lists({lib, util}), a \in Lists({lib, util})}
Layered == {d \in Graphs : d[util] = <<>> /\ app \notin Range(d[lib])}

\* `gen` is generated from `mid`, that from `spec`; it belongs to the library `util`.
GenSteps == <<[ins |-> {spec}, outs |-> {mid}], [ins |-> {mid}, outs |-> {gen}]>>

\* Everything declared by config.spkg itself.
Project(d, t, inst, tst, st) ==
    [type    |-> (lib :> "staticlib" @@ util :> t @@ app :> "exe"),
     sources |-> (lib :> {fl} @@ util :> (IF st = <<>> THEN {fu} ELSE {fu, gen})
                  @@ app :> {fa}),
     deps    |-> d, own |-> Artifacts, packaged |-> <<>>, install |-> inst, tests |-> tst, steps |-> st]

HeaderOnly(p) == [p EXCEPT !.sources[lib] = {}]

\* The library `util` comes with a package, which installs it.
Packaged(p) ==
    [p EXCEPT !.own = {lib, app}, !.packaged = <<util>>, !.install = <<app, lib>>]

Chain == lib :> <<util>> @@ util :> <<>> @@ app :> <<lib>>

\* A program that links generated code and is a test as well; one that is a test,
\* and that a library on a cycle links.
Pair == lib :> <<>> @@ util :> <<>> @@ app :> <<util>>
FromSteps == Project(Pair, "staticlib", <<app, util>>, <<app>>, GenSteps)
LinkedTest ==
    Project(lib :> <<app, util>> @@ util :> <<lib>> @@ app :> <<>>, "staticlib",
            <<util, app, lib>>, <<app>>, <<>>)

\* One step with two outputs, as in the README, of which a failing step may write one.
TwoOutputs == [FromSteps EXCEPT !.steps = <<[ins |-> {spec}, outs |-> {mid, gen}]>>]

\* The program is installed before the libraries, is a test, or is both.
AllProjects ==
    {Project(d, "staticlib", <<app, lib, util>>, <<>>, <<>>) : d \in Graphs}
    \cup {Project(d, "sharedlib", <<util, lib>>, <<app>>, <<>>) :
            d \in {g \in Graphs : app \notin Range(g[lib]) \cup Range(g[util])}}
    \cup {Project(d, "staticlib", <<app, lib, util>>, <<app>>, <<>>) : d \in Layered}
    \cup {Packaged(Project(d, "staticlib", <<>>, <<app>>, <<>>)) :
            d \in {g \in Layered : g[lib] = <<util>>}}
    \cup {HeaderOnly(Project(d, "staticlib", <<app, lib, util>>, <<>>, <<>>)) :
            d \in {g \in Layered : g[lib] = <<>>}}
    \cup {LinkedTest, HeaderOnly(FromSteps), HeaderOnly(TwoOutputs)}

\* The program links a library, that links one with a generated source.
GeneratingProjects ==
    {Project(Chain, "staticlib", <<app, lib, util>>, <<>>, st) : st \in {<<>>, GenSteps}}
=============================================================================
