------------------------------ MODULE BuildGraph ------------------------------
(***************************************************************************)
(* The build graph and the commands that walk it: `spkg build`, `spkg run` *)
(* and `spkg test` (spkg_build.lua: build_graph_from_ctx, topo_sort,       *)
(* execute_custom_steps, _do_build, link_artifact, run_first_artifact,     *)
(* execute_tests; native.c: custom_needs_run, custom_exec).                *)
(*                                                                         *)
(* A source file is the time of its last write, 0 while it does not exist; *)
(* an object is the time of the source it was compiled from, a product the *)
(* times of all the sources linked into it.  How one artifact's tasks are  *)
(* compiled, in parallel and incrementally, is the business of the modules *)
(* ParallelCompile and IncrementalBuild: here it is one step.              *)
(***************************************************************************)
EXTENDS Integers, Sequences, FiniteSets, Functions, FiniteSetsExt

CONSTANTS Artifacts,    \* the names of the artifacts
          Files,        \* sources, and the inputs and outputs of custom steps
          Configs,      \* what config.spkg may declare
          MaxClock,     \* bound on the time of the user's edits, besides the steps' runs
          PartialSteps, \* may a failing custom step leave some outputs written?
          Kills,        \* may a command be killed?
          None          \* a product that does not exist, or is unusable

Types == {"exe", "staticlib", "sharedlib"}

\* What config.spkg and the configs of the packages declare in the context: the
\* artifacts that config.spkg declares itself are `own`, the rest come with the
\* packages, which install `packaged`.  A name is declared once (add_executable and
\* its siblings return the artifact that has it); install drops repetitions,
\* add_test does not.  The tests are those of config.spkg.
Config == [type     : [Artifacts -> Types],
           sources  : [Artifacts -> SUBSET Files],
           deps     : [Artifacts -> Seq(Artifacts)],
           own      : SUBSET Artifacts,
           install  : Seq(Artifacts),
           packaged : Seq(Artifacts),
           tests    : Seq(Artifacts),
           steps    : Seq([ins : SUBSET Files, outs : SUBSET Files])]

ASSUME ConfigsAssumption ==
    /\ Configs \subseteq Config
    /\ \A c \in Configs :
        /\ IsInjective(c.install \o c.packaged)
        /\ Range(c.install) \cup Range(c.tests) \subseteq c.own
        /\ \A t \in Range(c.tests) : c.type[t] = "exe"
        /\ \A a, b \in Artifacts :
                a # b => c.sources[a] \cap c.sources[b] = {}
ASSUME BoundsAssumption == MaxClock \in Nat /\ {PartialSteps, Kills} \subseteq BOOLEAN
ASSUME NoneAssumption == None \notin [Files -> Nat]

VARIABLES
    config,     \* the member of Configs this project declares
    file,       \* time of the last write of each file
    clock,      \* the latest time
    object,     \* per source file, the time of the version it was compiled from
    product,    \* per artifact, the source times inside its output, or None
    command, pc, ok,
    list,       \* all_artifacts
    degree,     \* in_degree
    queue, head, \* Kahn's queue; what was popped from it is the build order
    todo,       \* the rest of reverse_deps of the artifact popped last
    tasks,      \* the compile tasks: the sources found when the graph was built
    at,         \* position in the loop over steps or artifacts
    settled     \* history: no edit since a complete build succeeded

sortVars == <<list, degree, queue, head, todo>>
loopVars == <<tasks, at>>
diskVars == <<file, clock, object, product>>
vars == <<config, file, clock, object, product, command, pc, ok, list, degree,
          queue, head, todo, tasks, at, settled>>

-----------------------------------------------------------------------------
(* Operators on the declarations.                                        *)

Generated == UNION {config.steps[i].outs : i \in DOMAIN config.steps}
Written == (UNION Range(config.sources)
                \cup UNION {config.steps[i].ins : i \in DOMAIN config.steps}) \ Generated

\* A dependency between two artifacts of the list: position of the dependent in
\* the list, position in its link_deps.
EdgesOf(l) ==
    {e \in UNION {{i} \X DOMAIN config.deps[l[i]] : i \in DOMAIN l} :
        config.deps[l[e[1]]][e[2]] \in Range(l)}
Edges   == EdgesOf(list)
From(e) == config.deps[list[e[1]]][e[2]]
To(e)   == list[e[1]]
Before(e, f) == e[1] < f[1] \/ (e[1] = f[1] /\ e[2] < f[2])

\* collect_transitive_deps: the least set that holds an artifact's own dependencies
\* and those of every static library in it.  One that is not declared is passed over
\* in silence, with all that is behind it.
LinkedIn(declared, a) ==
    {d \in Artifacts : \A S \in SUBSET Artifacts :
        (/\ Range(config.deps[a]) \cap declared \subseteq S
         /\ \A s \in S : config.type[s] = "staticlib"
                            => Range(config.deps[s]) \cap declared \subseteq S) => d \in S}

\* execute_tests does not load the packages' configs (load_dep_configs), _do_build does.
Declared  == IF command = "test" THEN config.own ELSE Artifacts
Linked(a) == LinkedIn(Declared, a)
StaticDeps(a) == {d \in Linked(a) : config.type[d] = "staticlib"}
OtherDeps(a)  == Linked(a) \ StaticDeps(a)

\* The sources whose objects end up in the product of an artifact.
AllSources(a) ==
    config.sources[a] \cup
        IF config.type[a] = "staticlib" THEN {}
        ELSE UNION {config.sources[d] : d \in StaticDeps(a)}

\* What links an artifact of a package has other include flags, and is linked to
\* something else, in a test than in a build.
Reflagged(a) == LinkedIn(Artifacts, a) # LinkedIn(config.own, a)

-----------------------------------------------------------------------------
\* Each command is a process of its own: it starts with nothing but the files.
Idle ==
    /\ command = "none" /\ pc = "idle" /\ ok = FALSE
    /\ list = <<>> /\ degree = [a \in Artifacts |-> 0]
    /\ queue = <<>> /\ head = 1 /\ todo = {}
    /\ tasks = [a \in Artifacts |-> {}] /\ at = 1
Exit ==
    /\ command' = "none" /\ pc' = "idle" /\ ok' = FALSE
    /\ list' = <<>> /\ degree' = [a \in Artifacts |-> 0]
    /\ queue' = <<>> /\ head' = 1 /\ todo' = {}
    /\ tasks' = [a \in Artifacts |-> {}] /\ at' = 1

Init ==
    /\ config \in Configs
    /\ file = [f \in Files |-> IF f \in Generated THEN 0 ELSE 1]
    /\ clock = 1
    /\ object = [f \in Files |-> 0]
    /\ product = [a \in Artifacts |-> None]
    /\ Idle
    /\ settled = FALSE

\* The bound on the edits leaves each step a run of its own; one that fails may have
\* written something until each step could have run once more.
LastEdit == MaxClock + Len(config.steps)

\* Between two commands the user changes a source or the input of a step.
Edit ==
    /\ pc = "idle" /\ clock < LastEdit
    /\ \E f \in Written : file' = [file EXCEPT ![f] = clock + 1]
    /\ clock' = clock + 1
    /\ settled' = FALSE
    /\ UNCHANGED <<config, object, product, command, pc, ok, sortVars, loopVars>>

Start ==
    /\ pc = "idle"
    /\ command' \in {"build", "run", "test"}
    /\ pc' = "config"
    /\ UNCHANGED <<config, diskVars, ok, sortVars, loopVars, settled>>

\* The command returns `result` to its caller.
Finish(result) ==
    pc' = "done" /\ ok' = result

Return ==
    /\ pc = "done" /\ Exit
    /\ UNCHANGED <<config, diskVars, settled>>

\* config.spkg raises an error, or a dependency cannot be fetched or loaded.
ConfigFails ==
    /\ pc = "config"
    /\ Finish(FALSE)
    /\ UNCHANGED <<config, diskVars, command, sortVars, loopVars, settled>>

NoTests ==
    /\ pc = "config" /\ command = "test" /\ config.tests = <<>>
    /\ Finish(TRUE)
    /\ UNCHANGED <<config, diskVars, command, sortVars, loopVars, settled>>

-----------------------------------------------------------------------------
(* build_graph_from_ctx: topo_sort, then the compile tasks.              *)

Installed == config.install \o config.packaged
AllArtifacts ==
    IF command = "test" THEN config.install \o config.tests ELSE Installed

MutSortStart ==
    /\ pc = "config" /\ (command = "test" => config.tests # <<>>)
    /\ pc' = "seed" /\ at' = 1
    /\ LET l == AllArtifacts IN
        /\ list' = l   \* whether X has dependencies, and not how many
        /\ degree' = [a \in Artifacts |->
                        IF \E e \in EdgesOf(l) : l[e[1]] = a THEN 1 ELSE 0]
    /\ queue' = <<>> /\ head' = 1 /\ todo' = {}
    /\ UNCHANGED <<config, diskVars, command, ok, tasks, settled>>

\* in_degree[X]: how many dependencies X has within the list.
SortStart ==
    /\ pc = "config" /\ (command = "test" => config.tests # <<>>)
    /\ pc' = "seed" /\ at' = 1
    /\ LET l == AllArtifacts IN
        /\ list' = l
        /\ degree' = [a \in Artifacts |->
                        Cardinality({e \in EdgesOf(l) : l[e[1]] = a})]
    /\ queue' = <<>> /\ head' = 1 /\ todo' = {}
    /\ UNCHANGED <<config, diskVars, command, ok, tasks, settled>>

MutSeed ==   \* off by one
    /\ pc = "seed" /\ at <= Len(list)
    /\ queue' = IF degree[list[at]] <= 1 THEN Append(queue, list[at]) ELSE queue
    /\ at' = at + 1
    /\ UNCHANGED <<config, diskVars, command, pc, ok, list, degree, head, todo,
                   tasks, settled>>

\* The queue starts with the artifacts that depend on nothing listed.
Seed ==
    /\ pc = "seed" /\ at <= Len(list)
    /\ queue' = IF degree[list[at]] = 0 THEN Append(queue, list[at]) ELSE queue
    /\ at' = at + 1
    /\ UNCHANGED <<config, diskVars, command, pc, ok, list, degree, head, todo,
                   tasks, settled>>

Seeded ==
    /\ pc = "seed" /\ at > Len(list)
    /\ pc' = "sort"
    /\ UNCHANGED <<config, diskVars, command, ok, sortVars, loopVars, settled>>

Pop ==
    /\ pc = "sort" /\ todo = {} /\ head <= Len(queue)
    /\ todo' = {e \in Edges : From(e) = queue[head]}
    /\ head' = head + 1
    /\ UNCHANGED <<config, diskVars, command, pc, ok, list, degree, queue,
                   loopVars, settled>>

MutDecrement ==   \* the queue is looked at after the loop over the dependents
    /\ pc = "sort"
    /\ \E e \in todo :
        /\ \A f \in todo \ {e} : Before(e, f)
        /\ todo' = todo \ {e}
        /\ degree' = [degree EXCEPT ![To(e)] = @ - 1]
        /\ queue' = IF todo' = {} /\ degree'[To(e)] = 0
                    THEN Append(queue, To(e)) ELSE queue
    /\ UNCHANGED <<config, diskVars, command, pc, ok, list, head, loopVars, settled>>

\* The next of the popped artifact's dependents, in the order of reverse_deps.
Decrement ==
    /\ pc = "sort"
    /\ \E e \in todo :
        /\ \A f \in todo \ {e} : Before(e, f)
        /\ todo' = todo \ {e}
        /\ degree' = [degree EXCEPT ![To(e)] = @ - 1]
        /\ queue' = IF degree'[To(e)] = 0 THEN Append(queue, To(e)) ELSE queue
    /\ UNCHANGED <<config, diskVars, command, pc, ok, list, head, loopVars, settled>>

\* Only the sources that exist now become compile tasks (resolve_files).
Resolve ==
    /\ pc = "sort" /\ todo = {} /\ head > Len(queue)
    /\ tasks' = [a \in Artifacts |-> IF a \in Range(queue)
                    THEN {f \in config.sources[a] : file[f] # 0} ELSE {}]
    /\ at' = 1
    /\ pc' = IF command = "test" THEN "compile" ELSE "custom"
    /\ UNCHANGED <<config, diskVars, command, ok, sortVars, settled>>

-----------------------------------------------------------------------------
(* execute_custom_steps: in the order of their declaration.              *)

AtStep == pc = "custom" /\ at <= Len(config.steps)
Step == config.steps[at]

MutNeedsRun == Step.outs = {} \/ \E o \in Step.outs : file[o] = 0  \* inputs forgotten

\* custom_needs_run.  A missing input has time 0: it never makes a step run.
NeedsRun ==
    \/ Step.outs = {}
    \/ \E o \in Step.outs : file[o] = 0
    \/ \E i \in Step.ins : file[i] > Max({file[o] : o \in Step.outs})

Write(outs) ==
    /\ file' = [f \in Files |-> IF f \in outs THEN clock + 1 ELSE file[f]]
    /\ clock' = IF outs = {} THEN clock ELSE clock + 1

\* What a custom step that does not succeed has written.
PartialWrite ==
    \E outs \in (IF PartialSteps THEN SUBSET Step.outs ELSE {{}}) :
        (outs # {} => clock < LastEdit + Len(config.steps)) /\ Write(outs)

MutSkipStep ==   \* does not go on to the next step
    /\ AtStep /\ ~NeedsRun
    /\ UNCHANGED <<config, diskVars, command, pc, ok, at, sortVars, tasks, settled>>

SkipStep ==
    /\ AtStep /\ ~NeedsRun
    /\ at' = at + 1
    /\ UNCHANGED <<config, diskVars, command, pc, ok, sortVars, tasks, settled>>

\* Its exit code is 0, which is taken to mean that it has written its outputs.
RunStep ==
    /\ AtStep /\ NeedsRun
    /\ Write(Step.outs)
    /\ at' = at + 1
    /\ UNCHANGED <<config, object, product, command, pc, ok, sortVars, tasks, settled>>

StepFails ==
    /\ AtStep /\ NeedsRun
    /\ PartialWrite
    /\ Finish(FALSE)
    /\ UNCHANGED <<config, object, product, command, sortVars, loopVars, settled>>

StepsDone ==
    /\ pc = "custom" /\ at > Len(config.steps)
    /\ pc' = "compile" /\ at' = 1
    /\ UNCHANGED <<config, diskVars, command, ok, sortVars, tasks, settled>>

-----------------------------------------------------------------------------
(* The loop over the artifacts: compile, link and, for a test, run.      *)

AtArtifact == at <= Len(queue)
Current == queue[at]
IsTest(a) == a \in Range(config.tests)

MutPending == {f \in tasks[Current] : object[f] = 0}   \* only what was never compiled
Pending == {f \in tasks[Current] : object[f] # file[f]}
Compiled(fs) == object' = [f \in Files |-> IF f \in fs THEN file[f] ELSE object[f]]

\* execute_tests passes over every artifact that is not a test.
PassOver ==
    /\ pc = "compile" /\ AtArtifact /\ command = "test" /\ ~IsTest(Current)
    /\ at' = at + 1
    /\ UNCHANGED <<config, diskVars, command, pc, ok, sortVars, tasks, settled>>

ToBuild == pc = "compile" /\ AtArtifact /\ (command = "test" => IsTest(Current))

Compile ==
    /\ ToBuild
    /\ Compiled(Pending)
    /\ pc' = "link"
    /\ UNCHANGED <<config, file, clock, product, command, ok, sortVars, loopVars, settled>>

\* What is compiled with other flags fails after everything that is pending, too.
CompileFails ==
    /\ ToBuild
    /\ \E fs \in SUBSET Pending :
            (fs # Pending \/ Reflagged(Current)) /\ Compiled(fs)
    /\ Finish(FALSE)
    /\ UNCHANGED <<config, file, clock, product, command, sortVars, loopVars, settled>>

AfterLink ==
    /\ pc' = IF command = "test" THEN "test" ELSE "compile"
    /\ at' = IF command = "test" THEN at ELSE at + 1

NoInputs(a) == tasks[a] = {} /\ OtherDeps(a) = {}

\* An archive takes its objects and the outputs that are not archives; the
\* compiler also needs every library it is told to link.
Linkable(a) ==
    \A d \in (IF config.type[a] = "staticlib" THEN OtherDeps(a) ELSE Linked(a)) :
        product[d] # None

\* The objects linked: an archive holds its own, the compiler also takes those in
\* the archives.
Output(a) ==
    [f \in Files |->
        IF f \in tasks[a] THEN object[f]
        ELSE IF f \in AllSources(a) \ config.sources[a]
             THEN product[CHOOSE d \in StaticDeps(a) : f \in config.sources[d]][f]
             ELSE 0]

MutLinkNothing ==   \* an output that exists is not linked again
    /\ pc = "link" /\ (NoInputs(Current) \/ product[Current] # None)
    /\ AfterLink
    /\ UNCHANGED <<config, diskVars, command, ok, sortVars, tasks, settled>>

LinkNothing ==
    /\ pc = "link" /\ NoInputs(Current)
    /\ AfterLink
    /\ UNCHANGED <<config, diskVars, command, ok, sortVars, tasks, settled>>

Link ==
    /\ pc = "link" /\ ~NoInputs(Current) /\ Linkable(Current)
    /\ product' = [product EXCEPT ![Current] = Output(Current)]
    /\ AfterLink
    /\ UNCHANGED <<config, file, clock, object, command, ok, sortVars, tasks, settled>>

\* The linker rejects the inputs; it may have removed or spoilt the old output.
LinkFails ==
    /\ pc = "link" /\ ~NoInputs(Current)
    /\ \E p \in {product[Current], None} :
            product' = [product EXCEPT ![Current] = p]
    /\ Finish(FALSE)
    /\ UNCHANGED <<config, file, clock, object, command, sortVars, loopVars, settled>>

RunTest ==
    /\ pc = "test" /\ product[Current] # None
    /\ pc' = "compile" /\ at' = at + 1
    /\ UNCHANGED <<config, diskVars, command, ok, sortVars, tasks, settled>>

\* The executable is missing, or exits with an error.
TestFails ==
    /\ pc = "test"
    /\ Finish(FALSE)
    /\ UNCHANGED <<config, diskVars, command, sortVars, loopVars, settled>>

AllResolved == \A i \in DOMAIN queue : tasks[queue[i]] = config.sources[queue[i]]

\* `spkg run` goes on to run_first_artifact, the others return true.
LoopDone ==
    /\ pc = "compile" /\ ~AtArtifact
    /\ IF command = "run" THEN pc' = "run" /\ ok' = ok ELSE Finish(TRUE)
    /\ settled' = (settled \/ (command # "test" /\ AllResolved))
    /\ UNCHANGED <<config, diskVars, command, sortVars, loopVars>>

Executables == {i \in DOMAIN queue : config.type[queue[i]] = "exe"}

RunFirst ==
    /\ pc = "run"
    /\ \/ /\ Executables # {} /\ product[queue[Min(Executables)]] # None
          /\ Finish(TRUE)
       \/ Finish(FALSE)     \* none to run, not found, or its exit code is not 0
    /\ UNCHANGED <<config, diskVars, command, sortVars, loopVars, settled>>

\* The command is killed; the tool it waits for may have done some of its work.
Kill ==
    /\ Kills /\ pc \notin {"idle", "done"}
    /\ Exit
    /\ \/ UNCHANGED diskVars
       \/ /\ AtStep /\ NeedsRun /\ PartialWrite
          /\ UNCHANGED <<object, product>>
       \/ /\ ToBuild
          /\ \E fs \in SUBSET Pending : Compiled(fs)
          /\ UNCHANGED <<file, clock, product>>
       \/ /\ pc = "link" /\ ~NoInputs(Current)
          /\ product' = [product EXCEPT ![Current] = None]
          /\ UNCHANGED <<file, clock, object>>
    /\ UNCHANGED <<config, settled>>

CommandStep ==
    \/ Return \/ ConfigFails \/ NoTests \/ SortStart \/ Seed \/ Seeded \/ Pop \/ Decrement \/ Resolve
    \/ SkipStep \/ RunStep \/ StepFails \/ StepsDone
    \/ PassOver \/ Compile \/ CompileFails \/ LinkNothing \/ Link \/ LinkFails
    \/ RunTest \/ TestFails \/ LoopDone \/ RunFirst

Next == Edit \/ Start \/ CommandStep \/ Kill

Spec == Init /\ [][Next]_vars

\* A command takes its next step as long as it has one: it waits for nothing but
\* the compilers, the custom steps, the linker and the tests, which all end.
FairSpec == Spec /\ WF_vars(CommandStep)
-----------------------------------------------------------------------------
(* Properties.                                                           *)

\* What `spkg test` lists twice, a test that is also installed, is not linked by
\* anything listed; otherwise topo_sort would count that link down twice.
ListedOnce(a) == \A i, j \in DOMAIN list : list[i] = a /\ list[j] = a => i = j
LinksListedOnce == \A e \in Edges : ListedOnce(From(e))

TypeOK ==
    /\ file \in [Files -> Nat] /\ clock \in Nat
    /\ object \in [Files -> Nat]
    /\ product \in [Artifacts -> [Files -> Nat] \cup {None}]
    /\ command \in {"none", "build", "run", "test"}
    /\ pc \in {"idle", "config", "seed", "sort", "custom", "compile", "link",
               "test", "run", "done"}
    /\ ok \in BOOLEAN /\ settled \in BOOLEAN
    /\ list \in Seq(Artifacts) /\ queue \in Seq(Artifacts)
    /\ degree \in [Artifacts -> IF LinksListedOnce THEN Nat ELSE Int]
    /\ head \in Nat \ {0} /\ at \in Nat \ {0}
    /\ todo \subseteq Edges
    /\ tasks \in [Artifacts -> SUBSET Files]

\* "Topological sort to ensure correct build order" (spkg_build.lua:584):
\* nothing enters the build order before everything it links has, whatever the
\* order of the declarations.
DepsFirst ==
    LinksListedOnce =>
        \A k \in DOMAIN queue : \A e \in Edges :
            To(e) = queue[k] => \E m \in 1 .. k - 1 : queue[m] = From(e)

Sorted == pc \in {"custom", "compile", "link", "test", "run"}

\* The artifacts of a list that are on a cycle of links, or link one that is:
\* whatever set of them links only within itself.
StuckIn(l) ==
    UNION {S \in SUBSET Range(l) : \A a \in S : Range(config.deps[a]) \cap S # {}}

\* The build order holds every listed artifact once, except those on a cycle and
\* those behind one: topo_sort drops these, and only these, in silence.
OrderIsComplete ==
    Sorted /\ LinksListedOnce =>
        /\ Range(queue) = Range(list) \ StuckIn(list)
        /\ IsInjective(list) => IsInjective(queue)

Succeeded(commands) == pc = "done" /\ ok /\ command \in commands

\* When a build succeeds, every product it linked holds the last version of every
\* source the graph has tasks for, the sources of the libraries it links included:
\* each was compiled and archived before it was linked.
BuildIsCurrent ==
    Succeeded({"build", "run"}) =>
        \A a \in Range(queue) : ~NoInputs(a) =>
            \A f \in AllSources(a) \cap UNION Range(tasks) :
                product[a] # None /\ product[a][f] = file[f]

\* No step uses what a later one writes.
StepsInOrder ==
    \A m, n \in DOMAIN config.steps :
        m < n => config.steps[m].ins \cap config.steps[n].outs = {}

\* The outputs of a step are only ever written together: there is one of them, or
\* no step that fails leaves some of them, and no other step writes any.
Together(n) ==
    \A o, p \in config.steps[n].outs :
        o # p => /\ ~PartialSteps
                 /\ \A m \in DOMAIN config.steps \ {n} : o \notin config.steps[m].outs

\* README.md:357-360, as far as custom_needs_run keeps it: when a build succeeds,
\* through chains of steps and whatever was edited, failed or was killed before,
\* every output of a custom step exists and every input is covered by an output that
\* is not older; where the outputs are only written together, by each of them.
StepsAreCurrent ==
    StepsInOrder /\ Succeeded({"build", "run"}) =>
        \A n \in DOMAIN config.steps :
            LET outs == config.steps[n].outs
            IN  /\ \A o \in outs : file[o] # 0
                /\ outs # {} => \A i \in config.steps[n].ins :
                        \E o \in outs : file[i] <= file[o]
                /\ Together(n) => \A i \in config.steps[n].ins :
                        \A o \in outs : file[i] <= file[o]

\* `spkg test` neither runs custom steps nor builds the libraries the tests link, and
\* does not know those of packages.  What it does promise: if a complete build
\* succeeded and nothing was edited since, then the tests it passes that link none
\* of a package's artifacts hold the current version of every source, whatever
\* commands failed or were killed in between.
TestsAreCurrent ==
    StepsInOrder /\ Succeeded({"test"}) /\ settled =>
        \A a \in Range(config.tests) \cap Range(queue) :
            ~Reflagged(a) /\ ~NoInputs(a) =>
                /\ product[a] # None
                /\ \A f \in AllSources(a) : product[a][f] = file[f]

\* README.md:352-354 adds the outputs of a custom step as sources, and
\* spkg_build.lua:2018 runs the steps "before artifact compilation": a build that
\* succeeds has compiled and linked every declared source that now exists.
GeneratedIsCompiled ==
    Succeeded({"build"}) =>
        \A a \in Range(queue) : \A f \in config.sources[a] :
            file[f] # 0 => product[a] # None /\ product[a][f] = file[f]

\* Every command ends.
CommandsEnd == pc # "idle" ~> pc = "idle"
=============================================================================
