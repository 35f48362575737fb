---------------------------- MODULE PackageFetch ----------------------------
(***************************************************************************)
(* The dependencies of a project: spkg_packages/, Sharp.lock and the       *)
(* commands that change them (spkg_fetch.lua, spkg_lock.lua, the dep       *)
(* commands of spkg_init.lua, load_dep_configs of spkg_build.lua).         *)
(*                                                                         *)
(* A build fetches every package its configuration names, directly or      *)
(* through other packages, and then loads their configurations; spkg       *)
(* update compares the locked commits with the remote heads; add, remove,  *)
(* clean and the developer change the inputs between two commands; the     *)
(* owners of the remotes push at any time, and may move tags.  spkg may be *)
(* killed.  The pending siblings of the recursive functions are one set,   *)
(* todo: nothing here depends on the order of the declarations.            *)
(*                                                                         *)
(* What a commit of a package declares is three things: what b:dep says    *)
(* when its config.spkg is loaded, what a run of that file in the sandbox  *)
(* of discover_deps_from_config_spkg gets to see of it (the stubs return   *)
(* {}, and the first error ends the run), and what SharpDeps.lua lists.    *)
(***************************************************************************)
CONSTANTS Pkgs,
          Commits,    \* of the remote repositories
          Tags,       \* the versions that name a tag
          Latest,     \* the version "*"
          Declares,   \* b:dep in a commit's config.spkg
          Discovered, \* what the sandbox sees of it
          Listed,     \* what load_deps_file returns of its SharpDeps.lua
          Targets,    \* where the branch or tag of a version points to in time
          NoDep,      \* marks a package that is not declared
          Missing,    \* no directory spkg_packages/<name>
          Partial,    \* a directory with .git in it, but no complete checkout
          NoEntry,    \* no entry in Sharp.lock
          Unknown,    \* no commit known, or none there
          Crashes     \* the commands in which spkg may be killed

Versions == Tags \cup {Latest}
Declarations == [Pkgs -> Versions \cup {NoDep}]
Commands == {"build", "update"}

ASSUME FetchAssumption ==
    /\ {Missing, Partial, Unknown} \cap Commits = {} /\ Missing # Partial
    /\ NoDep \notin Versions /\ Latest \notin Tags
    /\ {Declares, Discovered, Listed} \subseteq [Pkgs -> [Commits -> Declarations]]
    /\ Targets \in [Pkgs -> [Versions -> SUBSET (Commits \cup {Unknown})]]
    /\ Crashes \subseteq Commands

VARIABLES config,     \* [Pkgs -> Versions or NoDep]: b:dep in config.spkg
          refs,       \* where it points to now: the default branch for Latest
          lock,       \* [Pkgs -> Entries or NoEntry]: Sharp.lock
          pkgs,       \* [Pkgs -> Commits, Partial or Missing]: spkg_packages/
          cmd,        \* the command running
          pc,         \* where it is
          todo,       \* deps of the loops still to be visited: <<name, version>>
          visited,    \* visited
          current,    \* the clone being recorded or swapped in: <<name, its entry, its commit>>
          remote,     \* [Pkgs -> Commits or Unknown]: dep.remote_commit
          hasUpdate,  \* has_update
          updated,    \* [Pkgs -> Entries or NoEntry]: updated
          ok          \* what the last command returned

inputVars == <<config, refs>>
diskVars == <<lock, pkgs>>
checkVars == <<remote, hasUpdate, updated>>
localVars == <<cmd, pc, todo, visited, current, checkVars>>
vars == <<inputVars, diskVars, localVars, ok>>

Entries == [version : Versions, commit : Commits \cup {Unknown}]
Pointing == {r \in [Pkgs -> [Versions -> Commits \cup {Unknown}]] :
               \A p \in Pkgs, v \in Versions : r[p][v] \in Targets[p][v]}
PCs == {"idle", "fetch", "save", "load", "check", "update", "swap"}

TypeOK == /\ config \in Declarations
          /\ refs \in Pointing
          /\ lock \in [Pkgs -> Entries \cup {NoEntry}]
          /\ pkgs \in [Pkgs -> Commits \cup {Partial, Missing}]
          /\ cmd \in Commands \cup {"none"} /\ pc \in PCs
          /\ todo \subseteq Pkgs \X Versions
          /\ visited \subseteq Pkgs
          /\ current \in (Pkgs \X Entries \X Commits) \cup {NoEntry}
          /\ remote \in [Pkgs -> Commits \cup {Unknown}]
          /\ hasUpdate \in BOOLEAN
          /\ updated \in [Pkgs -> Entries \cup {NoEntry}]
          /\ ok \in BOOLEAN

Init == /\ config \in Declarations
        /\ refs \in Pointing
        /\ lock = [p \in Pkgs |-> NoEntry]
        /\ pkgs = [p \in Pkgs |-> Missing]
        /\ cmd = "none" /\ pc = "idle" /\ todo = {} /\ visited = {} /\ current = NoEntry
        /\ remote = [p \in Pkgs |-> Unknown]
        /\ hasUpdate = FALSE
        /\ updated = [p \in Pkgs |-> NoEntry]
        /\ ok = FALSE

MutDeclared(deps) == {<<p, deps[p]>> : p \in Pkgs}  \* packages not declared, too
Declared(deps) == {<<p, deps[p]>> : p \in {q \in Pkgs : deps[q] # NoDep}}
Direct == Declared(config)

\* A command begins with the direct dependencies; when it returns its local
\* variables are gone.
Start(c, p) == /\ pc = "idle"
               /\ cmd' = c /\ pc' = p /\ todo' = Direct /\ ok' = FALSE
               /\ UNCHANGED <<inputVars, diskVars, visited, current, checkVars>>

Return(r) == /\ cmd' = "none" /\ pc' = "idle" /\ ok' = r
             /\ todo' = {} /\ visited' = {} /\ current' = NoEntry
             /\ remote' = [p \in Pkgs |-> Unknown]
             /\ hasUpdate' = FALSE
             /\ updated' = [p \in Pkgs |-> NoEntry]

(*************************************************************************)
(* resolve_dep and git clone.                                            *)
(*************************************************************************)
\* An entry of Sharp.lock has precedence over what config.spkg asks for.
MutVersionFor(d) == d[2]
VersionFor(d) == IF lock[d[1]] # NoEntry THEN lock[d[1]].version ELSE d[2]

\* git clone yields commit c: what the branch or tag points to now.  The tag of a
\* locked dependency without version is "", not nil: the command says --branch "",
\* which git refuses.
Clonable(d, c) == /\ c = refs[d[1]][VersionFor(d)]
                  /\ VersionFor(d) = Latest => lock[d[1]] = NoEntry

Resolved(d, c) == [version |-> VersionFor(d), commit |-> c]

\* What is recorded of a clone of commit c: without an answer of git rev-parse
\* the commit is "HEAD".
Recorded(d, c) == {Resolved(d, c), Resolved(d, Unknown)}

\* The dependencies of a package in spkg_packages/: as something says of the
\* commit that is there, and as fetch_deps_list finds them.
Says(something, p) == IF pkgs[p] \in Commits THEN Declared(something[p][pkgs[p]]) ELSE {}

MutFound(p) == Says(Listed, p)  \* config.spkg is not searched
Found(p) == Says(Listed, p) \cup Says(Discovered, p)

(*************************************************************************)
(* spkg build: fetch_deps_list, then load_dep_configs.                   *)
(*************************************************************************)
StartBuild == Start("build", "fetch")

MutSeen(d) == FALSE  \* no visited set
Seen(d) == d[1] \in visited

AlreadySeen(d) == /\ pc \in {"fetch", "load"} /\ d \in todo /\ Seen(d)
                  /\ todo' = todo \ {d}
                  /\ UNCHANGED <<inputVars, diskVars, cmd, pc, visited, current, checkVars, ok>>

Visit(d) == /\ pc = "fetch" /\ d \in todo /\ ~Seen(d)
            /\ visited' = visited \cup {d[1]}

\* A directory with .git in it is taken for the package.
Cached(d) == /\ Visit(d)
             /\ pkgs[d[1]] # Missing
             /\ todo' = (todo \ {d}) \cup Found(d[1])
             /\ UNCHANGED <<inputVars, diskVars, cmd, pc, current, checkVars, ok>>

\* A complete clone; save_one follows.
Clone(d) == /\ pkgs[d[1]] = Missing
            /\ \E c \in Commits : /\ Clonable(d, c)
                                  /\ pkgs' = [pkgs EXCEPT ![d[1]] = c]
                                  /\ \E e \in Recorded(d, c) : current' = <<d[1], e, c>>
            /\ todo' = todo \ {d}
            /\ pc' = "save"
            /\ UNCHANGED <<inputVars, lock, cmd, checkVars, ok>>

Cloned(d) == Visit(d) /\ Clone(d)

\* The clone fails, for want of a network if for nothing else.
CloneFails(d) == /\ pc = "fetch" /\ d \in todo /\ ~Seen(d)
                 /\ pkgs[d[1]] = Missing
                 /\ Return(FALSE)
                 /\ UNCHANGED <<inputVars, diskVars>>

SaveOne == /\ pc = "save"
           /\ lock' = [lock EXCEPT ![current[1]] = current[2]]
           /\ IF cmd = "build"
              THEN /\ pc' = "fetch"
                   /\ todo' = todo \cup Found(current[1])
                   /\ UNCHANGED updated
              ELSE /\ pc' = "update"
                   /\ updated' = [updated EXCEPT ![current[1]] = current[2]]
                   /\ UNCHANGED todo
           /\ UNCHANGED <<inputVars, pkgs, cmd, visited, current, remote, hasUpdate, ok>>

Fetched == /\ pc = "fetch" /\ todo = {}
           /\ pc' = "load"
           /\ todo' = Direct /\ visited' = {}
           /\ UNCHANGED <<inputVars, diskVars, cmd, current, checkVars, ok>>

\* A package without config.spkg is passed over in silence, and SharpDeps.lua is
\* not looked at.
Load(d) == /\ pc = "load" /\ d \in todo /\ ~Seen(d)
           /\ visited' = visited \cup {d[1]}
           /\ todo' = (todo \ {d}) \cup Says(Declares, d[1])
           /\ UNCHANGED <<inputVars, diskVars, cmd, pc, current, checkVars, ok>>

\* Every configuration is loaded, or one of them raises an error.
Loaded == /\ pc = "load"
          /\ \/ todo = {} /\ Return(TRUE)
             \/ \E d \in todo : ~Seen(d) /\ pkgs[d[1]] \in Commits /\ Return(FALSE)
          /\ UNCHANGED <<inputVars, diskVars>>

(*************************************************************************)
(* spkg update: check_updates, then update_deps.                         *)
(*************************************************************************)
StartUpdate == Start("update", "check")

\* The newest commit of the remote is compared with the locked one; the clone
\* it takes is thrown away, and one that fails is a warning.
Newer(p, seen) == seen # Unknown /\ seen # lock[p].commit

Check(d) == /\ pc = "check" /\ d \in todo
            /\ todo' = todo \ {d}
            /\ IF lock[d[1]] = NoEntry
               THEN hasUpdate' = TRUE /\ UNCHANGED remote
               ELSE \E seen \in {refs[d[1]][Latest], Unknown} :
                      /\ hasUpdate' = (hasUpdate \/ Newer(d[1], seen))
                      /\ remote' = IF Newer(d[1], seen)
                                   THEN [remote EXCEPT ![d[1]] = seen] ELSE remote
            /\ UNCHANGED <<inputVars, diskVars, cmd, pc, visited, current, updated, ok>>

Checked == /\ pc = "check" /\ todo = {}
           /\ IF hasUpdate
              THEN /\ pc' = "update" /\ todo' = Direct
                   /\ UNCHANGED <<cmd, visited, current, checkVars, ok>>
              ELSE Return(TRUE)
           /\ UNCHANGED <<inputVars, diskVars>>

MustReplace(d) == remote[d[1]] # Unknown
Updating(d) == pc = "update" /\ d \in todo

\* clone_dep into .tmp_update_<name>, which ends with save_one.
Replace(d) == /\ Updating(d) /\ MustReplace(d)
              /\ \E c \in Commits : /\ Clonable(d, c)
                                    /\ \E e \in Recorded(d, c) :
                                         /\ lock' = [lock EXCEPT ![d[1]] = e]
                                         /\ current' = <<d[1], e, c>>
              /\ todo' = todo \ {d}
              /\ pc' = "swap"
              /\ UNCHANGED <<inputVars, pkgs, cmd, visited, checkVars, ok>>

\* The old package is removed and the new one moved to its place.
Swap == /\ pc = "swap"
        /\ pkgs' = [pkgs EXCEPT ![current[1]] = current[3]]
        /\ updated' = [updated EXCEPT ![current[1]] = current[2]]
        /\ pc' = "update"
        /\ UNCHANGED <<inputVars, lock, cmd, todo, visited, current, remote, hasUpdate, ok>>

\* Nothing newer: the package is fetched if it is missing, and else kept.
Refetch(d) == /\ Updating(d) /\ ~MustReplace(d)
              /\ Clone(d)
              /\ UNCHANGED visited

MutKeptEntry(d) == [version |-> VersionFor(d), commit |-> refs[d[1]][Latest]]  \* the remote's
KeptEntry(d) == IF lock[d[1]] # NoEntry THEN lock[d[1]] ELSE Resolved(d, Unknown)

KeepPackage(d) == /\ Updating(d) /\ ~MustReplace(d) /\ pkgs[d[1]] # Missing
                  /\ updated' = [updated EXCEPT ![d[1]] = KeptEntry(d)]
                  /\ todo' = todo \ {d}
                  /\ UNCHANGED <<inputVars, diskVars, cmd, pc, visited, current, remote, hasUpdate, ok>>

UpdateFails(d) == /\ Updating(d) /\ (MustReplace(d) \/ pkgs[d[1]] = Missing)
                  /\ Return(FALSE)
                  /\ UNCHANGED <<inputVars, diskVars>>

\* spkg_lock.save: the new Sharp.lock has the direct dependencies only.
Updated == /\ pc = "update" /\ todo = {}
           /\ lock' = updated
           /\ Return(TRUE)
           /\ UNCHANGED <<inputVars, pkgs>>

(*************************************************************************)
(* Between two commands.                                                 *)
(*************************************************************************)
\* spkg add, or an editor.
EditConfig(p, v) == /\ pc = "idle"
                    /\ config' = [config EXCEPT ![p] = v]
                    /\ UNCHANGED <<refs, diskVars, localVars, ok>>

\* The entry in Sharp.lock stays.
Remove(p) == /\ pc = "idle" /\ config[p] # NoDep
             /\ config' = [config EXCEPT ![p] = NoDep]
             /\ pkgs' = [pkgs EXCEPT ![p] = Missing]
             /\ UNCHANGED <<refs, lock, localVars, ok>>

Clean == /\ pc = "idle"
         /\ pkgs' = [p \in Pkgs |-> Missing]
         /\ lock' = [p \in Pkgs |-> NoEntry]
         /\ UNCHANGED <<inputVars, localVars, ok>>

\* The project is checked out elsewhere: Sharp.lock comes along, the packages
\* do not.
Checkout == /\ pc = "idle"
            /\ pkgs' = [p \in Pkgs |-> Missing]
            /\ UNCHANGED <<inputVars, lock, localVars, ok>>

\* A push to a remote, at any time: its default branch gets another commit, or a
\* tag is set, moved or deleted.
Push(p, v, c) == /\ c \in Targets[p][v]
                 /\ refs' = [refs EXCEPT ![p][v] = c]
                 /\ UNCHANGED <<config, diskVars, localVars, ok>>

(*************************************************************************)
(* spkg and its git are killed.                                          *)
(*************************************************************************)
Kill == cmd \in Crashes /\ Return(FALSE)

KilledAnywhere == Kill /\ UNCHANGED <<inputVars, diskVars>>

KilledInClone(d) == /\ Kill
                    /\ \/ pc = "fetch" /\ d \in todo /\ ~Seen(d)
                       \/ Updating(d) /\ ~MustReplace(d)
                    /\ pkgs[d[1]] = Missing
                    /\ pkgs' = [pkgs EXCEPT ![d[1]] = Partial]
                    /\ UNCHANGED <<inputVars, lock>>

\* Sharp.lock is written in place; a truncated one cannot be loaded, which
\* counts as no lock.
KilledInSave == /\ Kill
                /\ pc = "save" \/ (pc = "update" /\ todo = {})
                /\ lock' = [p \in Pkgs |-> NoEntry]
                /\ UNCHANGED <<inputVars, pkgs>>

KilledInSwap == /\ Kill /\ pc = "swap"
                /\ pkgs' = [pkgs EXCEPT ![current[1]] = Missing]
                /\ UNCHANGED <<inputVars, lock>>

Killed == KilledAnywhere \/ KilledInSave \/ KilledInSwap
          \/ \E d \in todo : KilledInClone(d)

Deps == Pkgs \X Versions

Spkg == \/ \E d \in Deps : \/ AlreadySeen(d) \/ Cached(d) \/ Cloned(d) \/ CloneFails(d) \/ Load(d)
                           \/ Check(d) \/ Replace(d) \/ Refetch(d) \/ KeepPackage(d) \/ UpdateFails(d)
        \/ SaveOne \/ Fetched \/ Loaded \/ Checked \/ Swap \/ Updated

Developer == \/ \E p \in Pkgs : Remove(p) \/ \E v \in Versions \cup {NoDep} : EditConfig(p, v)
             \/ StartBuild \/ StartUpdate \/ Clean \/ Checkout

Remotes == \E p \in Pkgs, v \in Versions, c \in Commits \cup {Unknown} : Push(p, v, c)

Next == Spkg \/ Developer \/ Killed \/ Remotes

\* A command that was started goes on; every git ends (spkg sets it no time
\* limit, so that is git's own promise).
Fairness == WF_vars(Spkg)

Spec == Init /\ [][Next]_vars
FairSpec == Spec /\ Fairness
------------------------------------------------------------------------------
\* What Sharp.lock says of an installed package stays true: the commit it names
\* is the one checked out, through any sequence of builds, updates, removals, new
\* versions in config.spkg, moves of the remote and its tags, and kills.  Between
\* clone and entry the two may differ; a kill there leaves them so.
Truthful(p) == \/ lock[p] = NoEntry \/ pkgs[p] \notin Commits
               \/ lock[p].commit \in {pkgs[p], Unknown}
Recording(p) == pc \in {"save", "swap"} /\ current[1] = p
LockStaysTrue ==
    [][\A p \in Pkgs : Truthful(p) \/ (Recording(p) /\ pc' # "idle")
                        => Truthful(p)' \/ Recording(p)']_vars

\* A build never moves a locked dependency to another version, whatever config.spkg
\* says by then (README: if it is locked, the locked version is used); and to no
\* other commit, unless the tag of that version is moved: then the entry follows the
\* package that was cloned by it.  (A commit may be forgotten where git rev-parse
\* fails, and a kill may leave no readable Sharp.lock at all.)
MayBecome(p) ==
    {lock[p]} \cup {[lock[p] EXCEPT !.commit = c] :
                      c \in {Unknown} \cup ({pkgs[p]} \cap Targets[p][lock[p].version])}
LockIsStable ==
    [][cmd = "build" /\ ~(pc = "save" /\ pc' = "idle") =>
        \A p \in Pkgs : lock[p] # NoEntry /\ lock[p].commit # Unknown
                          => lock'[p] \in MayBecome(p)]_vars

\* A build that gets past its dependencies has loaded every package its own
\* configuration reaches by b:dep through packages that are there; and each is
\* there, unless the search of one of them missed a declaration: what is fetched
\* and what is loaded are found by two different searches.
Discoverable(p) == \A d \in Says(Declares, p) :
                      \E e \in Says(Listed, p) \cup Says(Discovered, p) : e[1] = d[1]
Closed == /\ \A d \in Direct : d[1] \in visited
          /\ \A p \in visited : \A d \in Says(Declares, p) : d[1] \in visited
          /\ (\A p \in visited : Discoverable(p)) => \A p \in visited : pkgs[p] # Missing
BuildIsComplete == [][pc = "load" /\ pc' = "idle" /\ ok' => Closed]_vars

\* Every command ends, also when packages depend on each other in a circle.
CommandsEnd == pc # "idle" ~> pc = "idle"

\* A dependency that is locked, to a version the remote has or to none, can be
\* fetched again (README: if it is locked, the locked version is used).
LockedCanBeFetched ==
    \A p \in Pkgs :
        lock[p] # NoEntry
        /\ refs[p][lock[p].version] # Unknown =>
            \E c \in Commits : Clonable(<<p, lock[p].version>>, c)

==============================================================================
