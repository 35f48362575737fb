# spkg: TLA+ models, checks and proofs

spkg (`src/spkg`) is the build tool and package manager of the Sharp language: a
C program (`main.c`, `native.c`) that embeds Lua 5.4 and runs the scripts in
`src/spkg/scripts`, and a compile server (`node.c`, program `spkg-node`).  This
directory holds TLA+ models of its core, the TLC configurations that check them
on small instances and TLAPS proofs of what holds for all instances.

    tlc -config BuildOrder.cfg MCBuildGraph.tla    # model-check
    tlapm BuildGraph_proofs.tla                    # check the proofs

## The system

| Part | Source | State it keeps | What it does |
|---|---|---|---|
| Command line | `main.c`, `spkg_init.lua` | `_SPKG_*` globals | parses arguments, dispatches to `spkg_cmd_*` |
| Configuration | `spkg_build.lua` 121-434, 1387-1504 | artifacts, dependencies, custom steps, properties | runs `config.spkg` and those of the dependencies in one build context |
| Build graph | `spkg_build.lua` 440-692 | `build_graph` | expands sources, sorts artifacts topologically, makes compile tasks and link steps |
| Incremental compilation | `spkg_build.lua` 694-946, 1992-2066 | `build/**.o`, `.d`, `.o.fp` and their mtimes | decides what to compile, compiles, records |
| Object cache | `native.c` 1350-1622, `spkg_build.lua` 830-836 | `~/.spkg-cache/<key>/output.o` | restores and stores objects under a key made of their inputs |
| Parallel compilation | `spkg_build.lua` 1058-1160 | `pending`, `running`, `any_failed` | keeps `--jobs` compilers running |
| Asynchronous commands | `native.c` 756-1017 | 64 slots: pid, in_use, output file | `start_cmd`, `wait_task` |
| Linking | `spkg_build.lua` 948-1052 | `build/<artifact>/<output>` | archives or links the objects of each artifact, always |
| Distributed compilation | `spkg_build.lua` 1162-1933 | request and response files in /tmp, result list | sends tasks to nodes, retries, writes the returned objects |
| Compile server | `node.c` | `g_active`, one temporary directory per request | compiles what `POST /compile` brings |
| Dependencies | `spkg_fetch.lua`, `spkg_lock.lua` | `spkg_packages/`, the global clone store, `Sharp.lock` | clones, copies, locks, updates |
| Custom steps | `spkg_build.lua` 1939-1960, `native.c` 1629-1807 | outputs of the steps | runs commands whose inputs are newer than their outputs |
| Tests, run | `spkg_build.lua` 2072-2187 | | builds and executes artifacts |

The build process is one thread.  What runs beside it are the compilers (or curl
processes) it starts, the nodes, the developer's editor, other spkg processes
that share the cache, and whatever kills it.  So the hard behaviours are: the
compilers' exits against the polling loop; builds that fail or are killed
between two of the files they write; files edited while they are compiled; and
objects that arrive late, twice or not at all from nodes.

What makes each part correct:

- *asynchronous commands*: a slot belongs to one command at a time, and its result
  goes to whoever started it;
- *parallel compilation*: the bound of `--jobs`, completeness of success, nothing
  left behind on any return, an end;
- *incremental compilation*: what is skipped is what compiling now would give, and
  nothing is compiled twice for nothing;
- *object cache*: the same inputs give the same output;
- *build graph*: dependencies before dependents, nothing dropped but cycles;
- *linking, custom steps, tests*: a success is current, through libraries and
  chains of steps;
- *distributed compilation*: each task's object is the answer to that task's
  request, a task is given up only after every server, success means that every
  object has been written;
- *compile server*: a request leaves nothing behind, however it ends (an error, a
  time-out, a client that left); what is sent for an object is one, whole; no
  request fails because of another; every request comes to an end;
- *dependencies*: the lock file is true of what is installed, and is obeyed as far as a
  tag can be; what is declared is fetched and loaded.

## The modules

| Module | Models | State | Actions |
|---|---|---|---|
| `AsyncCommands` | `start_cmd`, `wait_task` and the children | `cmdOf` (in_use and what it runs), `child` | operators used as conjuncts by the two modules below |
| `ParallelCompile` | `compile_tasks_parallel`, `compile_task`, over `AsyncCommands` | `stage` of each task (which list it is in), `idOf` its handle, `anyFailed`, `fresh` (.o written), `fpSaved`, `stored` | one per loop body: serial, pre-filter, `start_next`, poll, drain; `CompilerExits` |
| `IncrementalBuild` | `needs_compile`, fingerprints, `.d`, cache, `_do_build`'s phases for one artifact | files by content, mtimes as two comparisons with the `.o`, cache | one per phase of a task; developer's edits, `Clean`, kills |
| `IdealBuild` | what a build promises | inputs, objects, success | edit, replace an object by the right one, report |
| `BuildGraph` | `build_graph_from_ctx`, `topo_sort`, `execute_custom_steps`, the loops of `_do_build`, `run_first_artifact`, `execute_tests` | file times; object = time of its source, product = times of the sources in it; Kahn's `degree`, `queue`, `todo` | one per loop body; failures; `Edit`, `Kill` |
| `DistributedCompile` | `execute_distributed`, `_distribute_parallel`, over `AsyncCommands` | healthy nodes, per task: attempts, response files, answer | health checks, submit, poll, retry, write; blocking posts |
| `CompileNode` | `node.c`: `ev_handler`, `compile_task`, the poll loop, signals | per connection: `conn`, `at`; per server: `life`, `active` (g_active), `handling`, `compiler`, `files` (those outside the request's directory apart) | `Refuse`, `FlagsTooLong`, `Begin`, `BeginFails`, `Respond`; compiler, time-out, orphan; `Exit`, `Crash` |
| `DistributedNodes` | the two together and the network between them | theirs | theirs, joined: a curl that ends reads a reply or leaves, `/health` is answered from the poll loop; `Arrive` |
| `PackageFetch` | `spkg_fetch.lua`, `spkg_lock.lua`, `load_dep_configs`, add, remove, clean, update | `lock`, `pkgs`, `refs` (where the remotes' branches and tags point to), `visited`, `todo` | one per step of fetching, loading and updating; developer, `Push` (moves of branches and tags), kills |

`MC*` modules give the constants values.  `*_proofs` modules hold the theorems, with
those about `BuildGraph` in two (`BuildGraph_proofs`: order and contents;
`BuildHistory_proofs`: custom steps, tests, termination).  `Ranks` holds what the proofs
of termination share.
Composition: `ParallelCompile` and `DistributedCompile` extend `AsyncCommands` and
take its operators into their actions, as the Lua code calls the native functions.
`DistributedNodes` joins `DistributedCompile` to `CompileNode`, and implements
`DistributedCompile` alone: that module lets a request end in any way, and is the
abstract specification of a build with servers of whatever kind (`CompositionRefines`
is the theorem).  `IncrementalBuild` implements `IdealBuild` (`Ideal == INSTANCE
IdealBuild WITH ...`).
The levels are stacked by what one assumes of the other: the single step `Compile` of
`BuildGraph` (every pending source is compiled, or the build fails with some of
them) is what `ParallelCompile` proves of its return (`SuccessIsComplete`) and
`IncrementalBuild` of what is skipped (`SkippedIsFresh`).

### The compile server

`spkg-node` is one thread.  `mg_mgr_poll` reads a request and calls `ev_handler`, which
compiles it to the end before it returns: the handler waits for the compiler in
`select` and `waitpid` for at most 120 seconds, kills the shell it started then,
and reads the compiler's pipe to its end.  So a handler is two steps of the model
(`Begin` up to the fork, `Respond` from the drained pipe to the clean-up) with the
compiler's own steps and the clock in between; what is inside such a step nobody
else can see.  A reply is put in a buffer and leaves when the thread polls again
(`Sends`).  A signal clears `g_running`, which the loop looks at between two polls:
`Exit` is that moment.  `Crash` may happen anywhere.

A client (curl 300 s, `http_post` 60 s, `http_get` 30 s) that leaves is not noticed: its
request stays in the queue or in the compiler ("abandoned", "zombie") and is worked
off for nobody.  Attempt `k` of task `t` is request `<<t, k>>`, so that an answer to an
earlier attempt can be told from the one asked for.  Requests of other builds
appear as the time a server takes; a node that runs another program answers
anything (`HearsStranger`), which keeps every behaviour `DistributedCompile` had alone.

Shared conventions.  A variable or action has the name of what it models in the code
where there is one.  The lists `pending` and `running` are sets: nothing asked here
depends on their order, and a set has every order.  File contents, flags, commands
and messages are model values.  A step of a model is the code between two points at
which another process can see or change what it touches.

## The runs

Each run explores every state of its instance.

| Run | Question | Instance |
|---|---|---|
| `Parallel` | Is the scheduler right about slots, failures, returns and its end? | 4 tasks, 3 slots, jobs 1, 2 and 4, with and without cache, starts that fail; 73,082 states |
| `IncrQuiet` | Is skipping exact, and does the build implement `IdealBuild`? | 2 sources of 2 contents, one of which includes the header; 2 headers, 2 flags; no cache |
| `IncrCache` | Does the cache hold what its keys say? | 2 sources of 2 contents, 1 header, 2 flags, with the cache on or off, starts that fail (`drain_running` stores in the cache even with `--no-cache`); 1,839,396 states, counting one of each pair that differs by exchanging the sources |
| `IncrHostile` | Edits during builds and kills anywhere: is nothing compiled for nothing, does every build end? | 1 source of 2 contents, cache |
| `BuildOrder` | Is the order right and complete, and a success current? | all 64 graphs of links among two libraries and a program; 16 with a shared library and a test, 8 with a program that is installed and a test, one where a library links that program, 4 with a header-only library, one with a source generated by a chain of two steps and one generated by a step of two outputs that may fail between them, both linked by a program that is a test; 4 where a library comes with a package; an edit at any time between commands, more where steps run, by the clock (`MaxClock` 2); failures and kills everywhere; 523,858 states |
| `DistributedBuild` | Are answers whole and credited rightly, is success complete, does every task that fails have a cause, is nothing left behind on either side, do the build and every request end? | 2 tasks, 2 slots, with and without curl, starts that fail; 6 lists of 0 to 3 nodes (one twice in two of them), one of which runs `CompileNode` with every failure, the others anything; one task includes a header from outside the directory of its source; 310,213 states |
| `FetchCommands` | Does the lock stay true and stable, are builds complete? | 2 packages that depend on each other, 2 commits, 1 tag, which is fixed in one and moves in the other; one commit whose declarations the search misses, one that lists its dependency in `SharpDeps.lua`; kills in builds and updates; 396,476 states |

Four slots more or larger graphs bring no new case to these models: a slot is told
from another only by who owns it, so three slots with four tasks have a full
table, reuse and an idle one; Kahn's loop is exercised by diamonds, chains and
cycles of one, two and three artifacts, and is proved for all graphs; two contents
tell "the present one" from "an old one", which is all that is ever compared.  One server
in full is enough because servers share nothing: what one does reaches another only
through the coordinator, which a node that answers anything drives harder; the
proofs cover any number.  Two tasks on one server make a queue, a retry on the server
that still works for the first attempt (the list that has it twice), and a late answer.
With requests handled one at a time, `MaxJobs` = 1 is the tightest count.  The
bounds are `MaxAsync` (64 in the code), `MaxTasks` and `MaxClock`; a bound on the clock
limits edits, not runs: it leaves every custom step time to run once more.

Five runs find the code at odds with its documentation; PROJECT.json quotes both:

| Run | What happens |
|---|---|
| `IncrCachedHeader` | a cache hit restores the `.o` and no `.d`; a header saved later is not seen |
| `IncrKilledFlags` | killed between `.o` and `.o.fp` with new flags; back to the old ones, the object passes for up to date |
| `IncrCacheRace` | a source saved while it compiles: the entry is stored under the new content's key |
| `FetchLocked` | an unversioned dependency is locked with tag `""`, and can then never be cloned again |
| `BuildGenerated` | sources are looked up before the custom steps generate them: a first build leaves them out and succeeds |

### Fairness

Weak fairness of spkg's own steps, because it is one thread that only ever waits for
children, and of every child's exit.  For a local compiler, a custom step, a linker
and git this is their own promise (spkg gives them no time limit), for curl it is
`--max-time 300`, for `http_post` and `http_get` their socket time-outs.  In
`DistributedNodes` a server's thread and its 120-second clock run as long as its
process does.  Nothing is assumed of the compilers a server starts, of one that outlived
its time-out, of the network, remotes, the developer or kills: `Termination` holds
with servers that hang for ever, and `RequestsEnd` (every request that reached a server
is answered or dropped) says where it hangs instead.
`BuildEnds`, `CommandsEnd` (twice) and the two `Termination` rest on this; `Parallel` and
`DistributedBuild` model one call that returns, so they stop, and their deadlock check
is off.  The other commands are models of a project's whole life and never stop.

## The proofs

All hold for any values of the constants that meet the modules' assumptions (the sets
may be infinite where they are not bounded by an assumption), from the safety
specification `Spec`.

`Ranks` is about termination.  A rank is four naturals compared as words are, and no
sequence of ranks goes down at every position (`NothingLowersForEver`, from the
well-foundedness of `<` on the naturals).  For each component a rank is defined from its
variables (part of the program, work not done, children alive, place in the pass) and its
steps are shown to lower it.  This is the half of each liveness property that needs no
fairness: whatever the system does, it cannot be busy for ever; that it does take its
steps is left to the runs.  Where the code polls, a pass over children that all run is the
one thing that may be repeated, and the theorems say so.  Work is counted in finite sets, so
the sets a constant gives must be finite (`IsFiniteSet(Sources)`, `IsFiniteSet(Pkgs)`
and `IsFiniteSet(Tags)`, `FiniteSystem`: a project has finitely many files, packages and servers).

- `ParallelCompile_proofs`.  The inductive invariant `IInv` adds to the properties
  which lists can be non-empty in which loop (`StagesOfLoop`), that the running list is
  within `--jobs` (`RunningBound`; `JobsBound` follows by the bijection of
  `SlotOwnership`), and two facts about objects: one without a fingerprint belongs to a
  compiler that was not reaped, and what finished is recorded unless something
  failed.  Without these, a success whose objects are not all there would not contradict
  anything.  A full table means as many running entries as slots, by the bijection of
  `SlotOwnership`, and where there is room those are fewer than `--jobs`:
  `SlotForEveryJob`.  Assumed: `~SigChldIgnored`, that spkg was not started with SIGCHLD
  ignored; the kernel would then reap the children itself, `waitpid` would fail, and the
  poll loop would not end (`WaitFails`, `native.c` 975).  `OnlyPassesRepeat` holds without
  it: all that the scheduler and the compilers do lowers the rank, save for another pass over
  compilers that run (`AnotherPass`).
- `IncrementalBuild_proofs`.  `UpToDateInv` gives `NothingToDo` with no assumption at
  all.  `FreshInv` (what each file on disk says of the object is true) gives
  `SkippedIsFresh` and the refinement of `IdealBuild`, under `Quiet`: no cache, edits
  between builds only, one value of `--optimize`, kills only if flags stay the
  same.  Each of the four rules out a behaviour the code has (see the
  violation runs and the hazards at lines 853, 901, 914 and 942 of `spkg_build.lua`).
  `CacheInv` gives `CacheIsSound` when nothing is edited during a build or killed;
  with `StampInv` on top of it (what an object's mtime and `.o.fp` say of its source
  and flags is true wherever the object came from) `SkippedHasSourceAndFlags`
  follows under the same two assumptions, cache and `--optimize` included.
  `BuildsAreFinite`: every step of a build takes a source further, and an edit made
  meanwhile takes none back, although it makes a source out of date again.
- `BuildGraph_proofs`.  `SortInv` is what makes `topo_sort` right: `in_degree` of an
  artifact is the number of its links that are not yet counted down (`Undone`: those on
  artifacts not yet popped, and the rest of the loop over `reverse_deps`), and no
  such link leads to a queued artifact.  Counting needs finite sets, so the edges are
  proved finite first.  It gives the sign of `in_degree` (`TypeCorrect`) and `DepsFirst`.
  All three need that nothing which is linked is listed twice (`LinksListedOnce`): the loop
  over `reverse_deps` runs once per occurrence, and would count a link down twice.  What is
  listed twice and not linked, a program that is installed and a test, does no harm.
  `OrderIsComplete` has two halves.  An artifact left out has a link left over, on one
  that was left out as well, so what is left out is stuck by definition.  For the other
  half, no artifact of a stuck set is ever queued: the one at the least position would
  have a link on another of the set, queued earlier (`DepsFirst`).  The least position
  takes the place of an induction over the queue.
  `GraphInv` says where artifacts, tasks and products come from, `LoopInv` that the part
  of the build order behind the loop is current.  The heart is `ArchiveIsEarlier`: the
  least set closed under the links of archives is within what was linked before,
  because each member was declared, so listed, so ordered.  `BuildIsCurrent`
  follows for every project, with edits, failures and kills in between.
- `BuildHistory_proofs`. `StepInv`: nothing is newer than the clock, the outputs of one
  step are of one age where they are only written together (`Together`), and the steps
  behind the loop are up to date; the rest of a build writes no source. It gives
  `StepsAreCurrent`, which claims of a step of several outputs what comparing with the
  newest of them can give. `SettledInv` carries what a build that succeeded has left
  over to the tests that follow, over failures and kills: while nothing was edited no
  step has anything to write, a source that is no task does not exist, and the archives
  hold the present sources. With what `TestInv` says of the loop of `spkg test`, and the
  closure argument of `ArchiveIsEarlier` for archives the tests link and do not build,
  it gives `TestsAreCurrent`, of the tests whose links are the same under `spkg build`
  and `spkg test` (`Reflagged` are the others: `execute_tests` does not load the
  packages' configs). Both assume `StepsInOrder`: no step reads what a later one writes.
  Each part is needed (see the deviations below). `ResolvedIsCompiled` finds the cause
  of the violation in `BuildGenerated`: if every source was there when the graph was
  built, `GeneratedIsCompiled` holds. `CommandsAreFinite` is the rank of build, run and
  test, for all declarations.

- `DistributedCompile_proofs`.  `IInv` has three parts.  `Core` pairs tasks and curls in each
  part of the program (`CurlOwnership`), says which response file an attempt reads
  (`AnswersAreTrue`), and what stages are possible where.  `Asking` says that `asked` is
  what the attempts so far name; `GivenUpOnlyAfterAll` then needs that the rotation
  `((t - 1 + attempt - 1) % #healthy) + 1` visits all of a list in as many attempts as
  it is long.  That is arithmetic alone (`AttemptsCover`), and so is its counterpart for
  blocking posts, which skip names tried before (`CandidatesCover`, `NamesCover`).
  `TInv` is the type with the bounds these need.  `CurlOwnership` and what rests on
  it assume `~SigChldIgnored`; `OnlyPassesRepeat` does not.  Its rank counts the attempts
  each task has left, of which there are as many as healthy servers, so retries lower it.
- `DistributedNodes_proofs`.  `CompositionRefines`: each step of the composition is one of
  `DistributedCompile` or leaves its variables alone, so all of the above holds with
  real servers (`CoordinatorHolds`).  `SystemInv` adds to `IInv` that a request that
  ended stays so (`Ended`), what a server's request, compiler, files and count are to
  each other (`NodeInv`: `AtRest` is its part for the poll loop; it excepts the headers
  that were named out of the request's directory, `Strays`), and the `Pairing` of each
  task with its connection: what a task has taken for its object was delivered on the
  connection of its last attempt, the earlier ones have failed for a cause, and
  later ones were never used.  It gives `AnswerIsWhole` and `FailureHasCause` for any
  numbers of tasks, nodes and servers.  `OnlyPollingRepeats`: the servers have a rank of
  their own (connections only go forward, a handler goes on, what is down stays down)
  that no step raises, and every step lowers the coordinator's or is a server's and lowers
  the servers', save for another pass over curls that run.

- `PackageFetch_proofs`. `FetchInv` says in which loop each command can be
  (`CommandOfLoop`), what is in hand there, and what the loops have behind them.
  `LockInv`: an entry about to be noted is true of the clone it was made from, and names
  a commit its version's tag has pointed to. `UpdateInv`: `update_deps` takes each
  package up once, so what it noted of one is not made untrue by a later round.
  `VisitInv`: in both loops, what the visited packages declare, as each loop reads it,
  is visited or still to come; `load_dep_configs`, whose `visited` starts empty again,
  stays within the set that fetching has visited, each of which is there, as long as the
  search finds what it follows (`Discoverable`). With nothing left to load that is
  `Closed`. They give `TypeOK`, `LockStaysTrue`, `LockIsStable` and `BuildIsComplete`
  for any packages, versions and declarations, circles included, over every sequence of
  commands, pushes, moves of tags and kills. The last two say what the code does and not
  what one might want: a commit follows its tag, and a package whose declaration was
  missed may be absent (see the deviations below). `CommandsAreFinite`: the work of a
  command is the packages it has not visited and the list in hand, and circles end
  because a visited package is not taken up again.

Every invariant and action property of the passing runs is a theorem.  Left to TLC are the
six liveness properties (`Termination` twice, `BuildEnds`, `RequestsEnd`, `CommandsEnd`
twice): fairness and ENABLED are out of the prover's reach.  The rank theorems prove
that where one of these fails, the steps it waits for cease at some point or, in the two
components that poll, are passes over children that do not exit; under the fairness above
the runs find neither on their instances.

## What is not modelled

- *Parts of the compile server*: a failing `waitpid`, a restart under the same address while a
  build runs (to the coordinator a server that stopped and one that answers anything),
  JSON and base64.
- *File contents in the distributed build*: which version of a source an object belongs
  to.  The local build has them (`IncrementalBuild`).
- *Disk operations that fail*: `write_file`'s result is ignored nearly everywhere, and
  the models let every write succeed.  Kills in the middle of writes are modelled.
- *Two spkg processes at once*, in one project or sharing a cache or /tmp.
- *Time*: mtimes are compared, never equal or set back.
- *Words*: the command line, flags, patterns, JSON, base64, hashes (two keys never
  collide), registry lookup, version strings.  Order of libraries on the linker's
  command line; members `ar rcs` leaves in an archive when a source is removed; names
  of outputs that collide; packages that declare an artifact under a name the project
  has.
- *Windows variants, vendored libraries, `spkg_resolve.lua`* (never called).

Nearly all C code of the repository is vendored (mbedtls, libgit2, Lua, mongoose);
the program itself is `node.c`, `native.c`, `main.c` and the Lua scripts, so the
share of all lines these models cover is small whatever they model.

Known deviations that no run states, most of them at their line in PROJECT.json's hazards:

- *Builds*: a build of more than 64 files with `--jobs` above 64 fails, the table of
  commands being full (`SlotForEveryJob` says that this is the only way to a full one);
  spkg started with SIGCHLD ignored polls for ever (`native.c` 975, against the comment
  at 959; `WaitFails`).
- *Distributed builds*: any build of more than 64 tasks fails (`wait_task(nil)` raises);
  `execute_distributed` uses `execute_custom_steps` before its declaration;
  `json_parse_string` cuts a string of an answer at 8191 bytes and the rest does not
  parse, so an object of more than some 6140 bytes fails on every node, one after the
  other; the object of the source text that was read is stored under the key of what is
  on disk later, with a `.d` that names the server's temporary files, so that header
  edits are not seen.
- *Compile server*: `json_get_cflags` does not leave its loop when the flags exceed its
  2048 bytes, and the server hangs; a time-out kills the shell, not the compiler under
  it, and the server waits for that one's end of the pipe without limit; a reply that
  waits in its buffer when a signal arrives is never sent; `--max-jobs`, "max concurrent
  compilations" (`src/README.md:758`), limits nothing, as requests are compiled one at a
  time (`AtRest`); headers are written under the names `#include` gives them, so
  `"../x.h"` lands outside the request's directory and stays in the server's /tmp
  (`node.c` 350; `Strays`).
- *Custom steps*: a step with several outputs that fails after some of them is not run
  again, because the newest output is the one compared, and neither is one of which
  another step writes a part: `src/README.md:359` says that an input newer than an
  output runs the step, `StepsAreCurrent` says what holds instead; steps run once, in
  the order of their declaration, so that one which reads what a later one writes is out
  of date after the build (`StepsInOrder` excludes it).
- *Artifacts and tests*: `spkg test` does not load the packages' configs, so links to
  their artifacts, with libraries and include flags, are dropped in silence
  (`Reflagged`); an artifact that is installed and a test is in the list twice, and if
  something links it, its dependents are counted down twice and may be built before
  others they link (`LinksListedOnce` excludes it); two unnamed tests share one name,
  and the second is never built (`spkg_build.lua` 363).
- *Dependencies*: where `Sharp.lock` has a version, its tag is cloned and not its
  commit: once the tag is moved, a build of a fresh checkout installs something else and
  overwrites the locked commit, against `src/README.md:435` (`LockIsStable` allows that
  and no more); the search for a package's dependencies runs its `config.spkg` on stubs
  that return `{}`, and ends in silence at the first method called on one: a `b:dep`
  after an `exe:add_source` is not fetched, and what is missing is then passed over,
  against `src/README.md:454` (`Discoverable` in `BuildIsComplete`); it also drops the
  `url` of a `b:dep`; what a package's `SharpDeps.lua` lists is fetched, but its
  configuration is not loaded; an interrupted clone passes for a cached package; `spkg
  update` drops the lock entries of indirect dependencies and, killed before its `mv`,
  leaves an entry that is not true (the exceptions in `LockStaysTrue` and
  `BuildIsComplete`); where `git rev-parse` fails, the locked commit is `"HEAD"`
  (`Unknown`).

No run is given to these, because each would restate the line that causes it: the
runs of kind violation are for those that take several steps of several parts to see.

## Plan

Done, in this order: `AsyncCommands` and `ParallelCompile`; `IncrementalBuild` and
`IdealBuild`; `DistributedCompile`; `PackageFetch`; `BuildGraph`; `CompileNode` and its
composition `DistributedNodes` in place of the arbitrary answers; with the proofs above.

Next, most important first:

1. Contents in the distributed build: the source read at collection, the object
   written at the end, the cache entry keyed at the end.
2. An abstract specification of a build (inputs, products, success) that `BuildGraph`
   implements, and one of the lock file for `PackageFetch`.
3. Linking in detail: order of libraries, stale members; two processes and one cache.
