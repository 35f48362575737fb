------------------------- MODULE PackageFetch_proofs -------------------------
(*************************************************************************)
(* Proofs about PackageFetch, for any packages and any configurations.   *)
(*************************************************************************)
EXTENDS PackageFetch, TLAPS, Ranks

\* Which command the loops belong to.
CommandOfLoop == /\ pc = "idle" <=> cmd = "none"
                 /\ pc \in {"fetch", "load"} => cmd = "build"
                 /\ pc \in {"check", "update", "swap"} => cmd = "update"

\* The commit of an entry is one its tag points to in the course of time.
Pointed(p, e) == \/ e.version = Latest \/ e.commit = Unknown
                 \/ e.commit \in Targets[p][e.version]
EntrySound(p, e) == e = NoEntry \/ Pointed(p, e)

\* The clone that is recorded ("save") or put in place ("swap"): its entry is
\* true of it, and has the version that was locked before.
InHand == pc \in {"save", "swap"}
ClonedAs(d, e, c) == /\ c \in Commits /\ e \in Entries
                     /\ e.commit \in {c, Unknown} /\ Pointed(d[1], e)
                     /\ lock[d[1]] = NoEntry
                        \/ (e.version = lock[d[1]].version /\ e.version # Latest)
LockInv ==
    /\ \A p \in Pkgs : EntrySound(p, lock[p]) /\ EntrySound(p, updated[p])
    /\ InHand => /\ current \in Pkgs \X Entries \X Commits
                 /\ current[2].commit \in {current[3], Unknown}
                 /\ Pointed(current[1], current[2])
    /\ pc = "swap" => lock[current[1]] = current[2]
    /\ pc = "save" => /\ pkgs[current[1]] = current[3]
                      /\ \/ lock[current[1]] = NoEntry
                         \/ /\ current[2].version = lock[current[1]].version
                            /\ current[2].version # Latest

\* update_deps takes up every package once, and what it has noted of one stays
\* true: neither its entry nor its directory changes after that.
Awaited(p) == \E v \in Versions : <<p, v>> \in todo
Noted(p) == updated[p] # NoEntry
UpdateInv ==
    /\ cmd # "update" \/ pc = "check" => \A p \in Pkgs : ~Noted(p)
    /\ cmd = "update" =>
         /\ todo \subseteq Direct
         /\ InHand => ~Awaited(current[1])
         /\ \A p \in Pkgs : Noted(p) =>
              /\ ~Awaited(p)
              /\ InHand => p # current[1]
              /\ updated[p] = lock[p] \/ updated[p].commit \in {pkgs[p], Unknown}

\* fetch_deps_list has visited, or will, whatever it finds in the visited packages;
\* load_dep_configs, whatever they declare.  Where that is never more than can be
\* found, nothing is loaded that was not fetched.
Known(p) == p \in visited \/ Awaited(p)
KnowsFoundIn(p) == \A d \in Found(p) : Known(d[1])
KnowsDeclaredBy(p) == \A d \in Says(Declares, p) : Known(d[1])
Fetching == pc = "fetch" \/ (pc = "save" /\ cmd = "build")
FetchedSet(F) ==
    /\ \A d \in Direct : d[1] \in F
    /\ \A p \in F : pkgs[p] # Missing /\ \A d \in Found(p) : d[1] \in F
VisitInv ==
    /\ pc = "idle" => visited = {}
    /\ Fetching \/ pc = "load" => \A d \in Direct : Known(d[1])
    /\ Fetching => \A p \in visited :
          pkgs[p] # Missing /\ (KnowsFoundIn(p) \/ (pc = "save" /\ p = current[1]))
    /\ pc = "load" =>
          /\ \A p \in visited : KnowsDeclaredBy(p)
          /\ \E F \in SUBSET Pkgs :
                /\ FetchedSet(F)
                /\ (\A p \in visited : Discoverable(p)) => \A p \in Pkgs : Known(p) => p \in F

FetchInv == CommandOfLoop /\ LockInv /\ UpdateInv /\ VisitInv
------------------------------------------------------------------------------
USE FetchAssumption

\* A branch or a tag points to a commit, or is not there.
LEMMA RefsType ==
  ASSUME TypeOK, NEW p \in Pkgs, NEW v \in Versions
  PROVE  refs[p][v] \in Commits \cup {Unknown} /\ refs[p][v] \in Targets[p][v]
<1>1. refs[p] \in [Versions -> Commits \cup {Unknown}]
  BY DEF TypeOK, Pointing
<1>2. QED
  BY <1>1 DEF TypeOK, Pointing

LEMMA PushType ==
  ASSUME TypeOK, NEW p \in Pkgs, NEW v \in Versions, NEW c \in Commits \cup {Unknown}, Push(p, v, c)
  PROVE  refs' \in Pointing
<1>1. refs \in [Pkgs -> [Versions -> Commits \cup {Unknown}]]
  BY DEF TypeOK, Pointing
<1>2. refs' = [refs EXCEPT ![p] = [refs[p] EXCEPT ![v] = c]] /\ c \in Targets[p][v]
  BY DEF Push
<1>3. [refs[p] EXCEPT ![v] = c] \in [Versions -> Commits \cup {Unknown}]
  BY <1>1
<1>4. refs' \in [Pkgs -> [Versions -> Commits \cup {Unknown}]]
  BY <1>1, <1>2, <1>3
<1>5. ASSUME NEW q \in Pkgs, NEW w \in Versions PROVE refs'[q][w] \in Targets[q][w]
  <2>1. refs[q][w] \in Targets[q][w] /\ refs[q] \in [Versions -> Commits \cup {Unknown}]
    BY <1>1 DEF TypeOK, Pointing
  <2>2. CASE q = p
    <3>1. refs'[q] = [refs[q] EXCEPT ![v] = c]
      BY <1>1, <1>2, <2>2
    <3>2. QED
      BY <1>2, <2>1, <2>2, <3>1
  <2>3. CASE q # p
    BY <1>1, <1>2, <2>1, <2>3
  <2>4. QED
    BY <2>2, <2>3
<1>6. QED
  BY <1>4, <1>5 DEF Pointing

\* What is asked of a repository, and what is recorded of the answer.
LEMMA EntryType ==
  ASSUME TypeOK, NEW d \in Deps
  PROVE  /\ VersionFor(d) \in Versions
         /\ \A c \in Commits \cup {Unknown} : Resolved(d, c) \in Entries
         /\ KeptEntry(d) \in Entries
<1>1. lock[d[1]] # NoEntry => lock[d[1]] \in Entries
  BY DEF TypeOK, Deps
<1>2. VersionFor(d) \in Versions
  BY <1>1 DEF VersionFor, Entries, Deps
<1>3. \A c \in Commits \cup {Unknown} : Resolved(d, c) \in Entries
  BY <1>2 DEF Resolved, Entries
<1>4. QED
  BY <1>1, <1>2, <1>3 DEF KeptEntry

LEMMA RecordedType ==
  ASSUME TypeOK, NEW d \in Deps, NEW c \in Commits
  PROVE  Recorded(d, c) \subseteq Entries
BY EntryType DEF Recorded

LEMMA CloneDoes ==
  ASSUME NEW d, Clone(d)
  PROVE  \E c : pkgs' = [pkgs EXCEPT ![d[1]] = c] /\ current'[1] = d[1]
<1>1. PICK c \in Commits : /\ pkgs' = [pkgs EXCEPT ![d[1]] = c]
                           /\ \E e \in Recorded(d, c) : current' = <<d[1], e, c>>
  BY DEF Clone
<1>2. PICK e \in Recorded(d, c) : current' = <<d[1], e, c>>
  BY <1>1
<1>3. current'[1] = d[1]
  BY <1>2
<1>4. QED
  BY <1>1, <1>3

LEMMA ReplaceDoes ==
  ASSUME NEW d, Replace(d)
  PROVE  \E e : lock' = [lock EXCEPT ![d[1]] = e] /\ current'[1] = d[1]
<1>1. PICK c \in Commits : \E e \in Recorded(d, c) : /\ lock' = [lock EXCEPT ![d[1]] = e]
                                                    /\ current' = <<d[1], e, c>>
  BY DEF Replace
<1>2. PICK e \in Recorded(d, c) : /\ lock' = [lock EXCEPT ![d[1]] = e]
                                  /\ current' = <<d[1], e, c>>
  BY <1>1
<1>3. current'[1] = d[1]
  BY <1>2
<1>4. QED
  BY <1>2, <1>3

\* The declarations of a package, and of the project.
LEMMA DeclaredType ==
  ASSUME NEW deps \in [Pkgs -> Versions \cup {NoDep}]
  PROVE  Declared(deps) \subseteq Deps
BY DEF Declared, Deps

LEMMA DirectType == TypeOK => Direct \subseteq Deps
BY DeclaredType DEF Direct, TypeOK, Declarations

LEMMA SaysType ==
  ASSUME NEW something \in {Declares, Discovered, Listed}, NEW p \in Pkgs
  PROVE  Says(something, p) \subseteq Deps
<1>1. something \in [Pkgs -> [Commits -> Declarations]]
  OBVIOUS
<1>2. CASE pkgs[p] \in Commits
  <2>1. something[p] \in [Commits -> Declarations]
    BY <1>1
  <2>2. something[p][pkgs[p]] \in [Pkgs -> Versions \cup {NoDep}]
    BY <1>2, <2>1 DEF Declarations
  <2>3. QED
    BY <1>2, <2>2, DeclaredType DEF Says
<1>3. QED
  BY <1>2 DEF Says

LEMMA FoundType ==
  ASSUME NEW p \in Pkgs
  PROVE  Found(p) \subseteq Deps
BY SaysType DEF Found

LEMMA TypeInit == Init => TypeOK
BY DEF Init, TypeOK, PCs

LEMMA TypeStep ==
  ASSUME TypeOK, LockInv, [Next]_vars
  PROVE  TypeOK'
<1> USE DEF TypeOK, PCs, Commands, Return, Start, Kill, inputVars, diskVars, checkVars, localVars
<1>1. ASSUME NEW d \in Deps, AlreadySeen(d) PROVE TypeOK'
  BY <1>1 DEF AlreadySeen
<1>2. ASSUME NEW d \in Deps, Cached(d) PROVE TypeOK'
  BY <1>2, FoundType DEF Cached, Visit, Deps
<1>3. ASSUME NEW d \in Deps, Cloned(d) PROVE TypeOK'
  BY <1>3, RecordedType DEF Cloned, Visit, Clone, Deps
<1>4. ASSUME NEW d \in Deps, CloneFails(d) PROVE TypeOK'
  BY <1>4 DEF CloneFails
<1>5. ASSUME NEW d \in Deps, Load(d) PROVE TypeOK'
  BY <1>5, SaysType DEF Load, Deps
<1>6. ASSUME NEW d \in Deps, Check(d) PROVE TypeOK'
  <2>1. d[1] \in Pkgs /\ refs[d[1]][Latest] \in Commits \cup {Unknown}
    BY RefsType DEF Deps, Versions
  <2>2. QED
    BY <1>6, <2>1 DEF Check, Newer
<1>7. ASSUME NEW d \in Deps, Replace(d) PROVE TypeOK'
  BY <1>7, RecordedType DEF Replace, Deps
<1>8. ASSUME NEW d \in Deps, Refetch(d) PROVE TypeOK'
  BY <1>8, RecordedType DEF Refetch, Updating, Clone, Deps
<1>9. ASSUME NEW d \in Deps, KeepPackage(d) PROVE TypeOK'
  BY <1>9, EntryType DEF KeepPackage, Deps
<1>10. ASSUME NEW d \in Deps, UpdateFails(d) PROVE TypeOK'
  BY <1>10 DEF UpdateFails
<1>11. ASSUME SaveOne PROVE TypeOK'
  BY <1>11, FoundType DEF SaveOne, LockInv, InHand, Deps
<1>12. ASSUME Fetched PROVE TypeOK'
  BY <1>12, DirectType DEF Fetched, Deps
<1>13. ASSUME Loaded PROVE TypeOK'
  BY ZenonT(60), <1>13 DEF Loaded
<1>14. ASSUME Checked PROVE TypeOK'
  BY ZenonT(60), <1>14, DirectType DEF Checked, Deps
<1>15. ASSUME Swap PROVE TypeOK'
  BY <1>15 DEF Swap, LockInv, InHand, Entries
<1>16. ASSUME Updated PROVE TypeOK'
  BY <1>16 DEF Updated
<1>17. ASSUME NEW p \in Pkgs, Remove(p) PROVE TypeOK'
  BY <1>17 DEF Remove, Declarations
<1>18. ASSUME NEW p \in Pkgs, NEW v \in Versions \cup {NoDep}, EditConfig(p, v) PROVE TypeOK'
  BY <1>18 DEF EditConfig, Declarations
<1>19. ASSUME StartBuild PROVE TypeOK'
  BY <1>19, DirectType DEF StartBuild, Deps
<1>20. ASSUME StartUpdate PROVE TypeOK'
  BY <1>20, DirectType DEF StartUpdate, Deps
<1>21. ASSUME Clean PROVE TypeOK'
  BY <1>21 DEF Clean
<1>22. ASSUME Checkout PROVE TypeOK'
  BY <1>22 DEF Checkout
<1>23. ASSUME KilledAnywhere PROVE TypeOK'
  BY <1>23 DEF KilledAnywhere
<1>24. ASSUME KilledInSave PROVE TypeOK'
  BY <1>24 DEF KilledInSave
<1>25. ASSUME KilledInSwap PROVE TypeOK'
  BY <1>25 DEF KilledInSwap, LockInv, InHand
<1>26. ASSUME NEW d \in todo, KilledInClone(d) PROVE TypeOK'
  BY <1>26 DEF KilledInClone
<1>27. CASE Remotes
  BY <1>27, PushType DEF Remotes, Push
<1>28. CASE UNCHANGED vars
  BY <1>28 DEF vars
<1>29. QED
  BY <1>1, <1>2, <1>3, <1>4, <1>5, <1>6, <1>7, <1>8, <1>9, <1>10, <1>11, <1>12, <1>13, <1>14,
     <1>15, <1>16, <1>17, <1>18, <1>19, <1>20, <1>21, <1>22, <1>23, <1>24, <1>25, <1>26, <1>27, <1>28
     DEF Next, Spkg, Developer, Killed

------------------------------------------------------------------------------
LEMMA LoopInit == Init => CommandOfLoop
BY DEF Init, CommandOfLoop

LEMMA LoopStep ==
  ASSUME TypeOK, CommandOfLoop, [Next]_vars
  PROVE  CommandOfLoop'
<1> USE DEF CommandOfLoop, Return, Start, Kill, inputVars, diskVars, checkVars, localVars
<1>1. ASSUME NEW d \in Deps, AlreadySeen(d) PROVE CommandOfLoop'
  BY <1>1 DEF AlreadySeen
<1>2. ASSUME NEW d \in Deps, Cached(d) PROVE CommandOfLoop'
  BY <1>2 DEF Cached, Visit
<1>3. ASSUME NEW d \in Deps, Cloned(d) PROVE CommandOfLoop'
  BY <1>3 DEF Cloned, Visit, Clone
<1>4. ASSUME NEW d \in Deps, CloneFails(d) PROVE CommandOfLoop'
  BY <1>4 DEF CloneFails
<1>5. ASSUME NEW d \in Deps, Load(d) PROVE CommandOfLoop'
  BY <1>5 DEF Load
<1>6. ASSUME NEW d \in Deps, Check(d) PROVE CommandOfLoop'
  BY <1>6 DEF Check
<1>7. ASSUME NEW d \in Deps, Replace(d) PROVE CommandOfLoop'
  BY <1>7 DEF Replace, Updating
<1>8. ASSUME NEW d \in Deps, Refetch(d) PROVE CommandOfLoop'
  BY <1>8 DEF Refetch, Updating, Clone
<1>9. ASSUME NEW d \in Deps, KeepPackage(d) PROVE CommandOfLoop'
  BY <1>9 DEF KeepPackage, Updating
<1>10. ASSUME NEW d \in Deps, UpdateFails(d) PROVE CommandOfLoop'
  BY <1>10 DEF UpdateFails
<1>11. ASSUME SaveOne PROVE CommandOfLoop'
  BY <1>11 DEF SaveOne, TypeOK, Commands
<1>12. ASSUME Fetched PROVE CommandOfLoop'
  BY <1>12 DEF Fetched
<1>13. ASSUME Loaded PROVE CommandOfLoop'
  BY <1>13 DEF Loaded
<1>14. ASSUME Checked PROVE CommandOfLoop'
  BY <1>14 DEF Checked
<1>15. ASSUME Swap PROVE CommandOfLoop'
  BY <1>15 DEF Swap
<1>16. ASSUME Updated PROVE CommandOfLoop'
  BY <1>16 DEF Updated
<1>17. ASSUME NEW p \in Pkgs, Remove(p) PROVE CommandOfLoop'
  BY <1>17 DEF Remove
<1>18. ASSUME NEW p \in Pkgs, NEW v \in Versions \cup {NoDep}, EditConfig(p, v) PROVE CommandOfLoop'
  BY <1>18 DEF EditConfig
<1>19. ASSUME StartBuild PROVE CommandOfLoop'
  BY <1>19 DEF StartBuild
<1>20. ASSUME StartUpdate PROVE CommandOfLoop'
  BY <1>20 DEF StartUpdate
<1>21. ASSUME Clean PROVE CommandOfLoop'
  BY <1>21 DEF Clean
<1>22. ASSUME Checkout PROVE CommandOfLoop'
  BY <1>22 DEF Checkout
<1>23. ASSUME KilledAnywhere PROVE CommandOfLoop'
  BY <1>23 DEF KilledAnywhere
<1>24. ASSUME KilledInSave PROVE CommandOfLoop'
  BY <1>24 DEF KilledInSave
<1>25. ASSUME KilledInSwap PROVE CommandOfLoop'
  BY <1>25 DEF KilledInSwap
<1>26. ASSUME NEW d \in todo, KilledInClone(d) PROVE CommandOfLoop'
  BY <1>26 DEF KilledInClone
<1>27. CASE Remotes
  BY <1>27 DEF Remotes, Push
<1>28. CASE UNCHANGED vars
  BY <1>28 DEF vars
<1>29. QED
  BY <1>1, <1>2, <1>3, <1>4, <1>5, <1>6, <1>7, <1>8, <1>9, <1>10, <1>11, <1>12, <1>13, <1>14,
     <1>15, <1>16, <1>17, <1>18, <1>19, <1>20, <1>21, <1>22, <1>23, <1>24, <1>25, <1>26, <1>27, <1>28
     DEF Next, Spkg, Developer, Killed

------------------------------------------------------------------------------
\* What is recorded of a clone is true of it, and of the version that was locked.
LEMMA ClonedSound ==
  ASSUME TypeOK, NEW d \in Deps, NEW c \in Commits, Clonable(d, c), NEW e \in Recorded(d, c)
  PROVE  ClonedAs(d, e, c)
<1>1. d[1] \in Pkgs /\ VersionFor(d) \in Versions
  BY EntryType DEF Deps
<1>2. c \in Targets[d[1]][VersionFor(d)]
  BY <1>1, RefsType DEF Clonable
<1>3. /\ e \in Entries /\ e.version = VersionFor(d) /\ e.commit \in {c, Unknown}
  BY EntryType DEF Recorded, Resolved
<1>4. Pointed(d[1], e)
  BY <1>2, <1>3 DEF Pointed
<1>5. lock[d[1]] # NoEntry => e.version = lock[d[1]].version /\ e.version # Latest
  BY <1>3 DEF Clonable, VersionFor
<1>6. QED
  BY <1>3, <1>4, <1>5 DEF ClonedAs

LEMMA KeptSound ==
  ASSUME LockInv, NEW d \in Deps
  PROVE  EntrySound(d[1], KeptEntry(d))
BY DEF KeptEntry, Resolved, EntrySound, Pointed, LockInv, Deps

LEMMA LockInit == Init => LockInv
BY DEF Init, LockInv, InHand, EntrySound

\* A command that returns has nothing in hand.
LEMMA ReturnKeepsLock ==
  ASSUME LockInv, NEW r, Return(r), lock' = lock \/ lock' = [p \in Pkgs |-> NoEntry]
  PROVE  LockInv'
<1>1. pc' = "idle" /\ updated' = [p \in Pkgs |-> NoEntry]
  BY DEF Return
<1>2. \A p \in Pkgs : EntrySound(p, lock'[p])
  <2>1. CASE lock' = lock
    BY <2>1 DEF LockInv
  <2>2. CASE lock' = [p \in Pkgs |-> NoEntry]
    BY <2>2 DEF EntrySound
  <2>3. QED
    BY <2>1, <2>2
<1>3. \A p \in Pkgs : EntrySound(p, updated'[p])
  BY <1>1 DEF EntrySound
<1>4. QED
  BY <1>1, <1>2, <1>3 DEF LockInv, InHand

LEMMA LockStep ==
  ASSUME TypeOK, CommandOfLoop, LockInv, [Next]_vars
  PROVE  LockInv'
<1>1. ASSUME NEW d \in Deps, AlreadySeen(d) PROVE LockInv'
  <2>1. UNCHANGED <<lock, updated>> /\ ~InHand'
    BY <1>1 DEF AlreadySeen, inputVars, diskVars, checkVars, localVars, InHand
  <2>2. QED
    BY <2>1 DEF LockInv, InHand
<1>2. ASSUME NEW d \in Deps, Cached(d) PROVE LockInv'
  <2>1. UNCHANGED <<lock, updated>> /\ ~InHand'
    BY <1>2 DEF Cached, Visit, inputVars, diskVars, checkVars, localVars, InHand
  <2>2. QED
    BY <2>1 DEF LockInv, InHand
<1>3. ASSUME NEW d \in Deps, Cloned(d) PROVE LockInv'
  <2>1. PICK c \in Commits, e \in Entries : /\ ClonedAs(d, e, c)
                                            /\ pkgs' = [pkgs EXCEPT ![d[1]] = c]
                                            /\ current' = <<d[1], e, c>>
    BY <1>3, ClonedSound, RecordedType DEF Cloned, Visit, Clone
  <2>2. d[1] \in Pkgs
    BY DEF Deps
  <2>3. pc' = "save" /\ UNCHANGED <<lock, updated>>
    BY <1>3 DEF Cloned, Visit, Clone, checkVars
  <2>4. pkgs'[d[1]] = c
    BY <2>1, <2>2 DEF TypeOK
  <2>5. QED
    BY <2>1, <2>2, <2>3, <2>4 DEF LockInv, InHand, ClonedAs
<1>4. ASSUME NEW d \in Deps, CloneFails(d) PROVE LockInv'
  <2>1. Return(FALSE) /\ (lock' = lock \/ lock' = [p \in Pkgs |-> NoEntry])
    BY <1>4 DEF CloneFails, diskVars
  <2>2. QED
    BY <2>1, ReturnKeepsLock
<1>5. ASSUME NEW d \in Deps, Load(d) PROVE LockInv'
  <2>1. UNCHANGED <<lock, updated>> /\ ~InHand'
    BY <1>5 DEF Load, inputVars, diskVars, checkVars, localVars, InHand
  <2>2. QED
    BY <2>1 DEF LockInv, InHand
<1>6. ASSUME NEW d \in Deps, Check(d) PROVE LockInv'
  <2>1. UNCHANGED <<lock, updated>> /\ ~InHand'
    BY <1>6 DEF Check, inputVars, diskVars, checkVars, localVars, InHand
  <2>2. QED
    BY <2>1 DEF LockInv, InHand
<1>7. ASSUME NEW d \in Deps, Replace(d) PROVE LockInv'
  <2>1. PICK c \in Commits, e \in Entries : /\ ClonedAs(d, e, c)
                                            /\ lock' = [lock EXCEPT ![d[1]] = e]
                                            /\ current' = <<d[1], e, c>>
    BY <1>7, ClonedSound, RecordedType DEF Replace
  <2>2. d[1] \in Pkgs
    BY DEF Deps
  <2>3. pc' = "swap" /\ UNCHANGED updated
    BY <1>7 DEF Replace, checkVars
  <2>4. \A p \in Pkgs : lock'[p] = IF p = d[1] THEN e ELSE lock[p]
    BY <2>1, <2>2 DEF TypeOK
  <2>5. QED
    BY <2>1, <2>2, <2>3, <2>4 DEF LockInv, InHand, ClonedAs, EntrySound
<1>8. ASSUME NEW d \in Deps, Refetch(d) PROVE LockInv'
  <2>1. PICK c \in Commits, e \in Entries : /\ ClonedAs(d, e, c)
                                            /\ pkgs' = [pkgs EXCEPT ![d[1]] = c]
                                            /\ current' = <<d[1], e, c>>
    BY <1>8, ClonedSound, RecordedType DEF Refetch, Clone
  <2>2. d[1] \in Pkgs
    BY DEF Deps
  <2>3. pc' = "save" /\ UNCHANGED <<lock, updated>>
    BY <1>8 DEF Refetch, Clone, checkVars
  <2>4. pkgs'[d[1]] = c
    BY <2>1, <2>2 DEF TypeOK
  <2>5. QED
    BY <2>1, <2>2, <2>3, <2>4 DEF LockInv, InHand, ClonedAs
<1>9. ASSUME NEW d \in Deps, KeepPackage(d) PROVE LockInv'
  <2>1. /\ updated' = [updated EXCEPT ![d[1]] = KeptEntry(d)]
        /\ pc = "update" /\ UNCHANGED <<lock, pc>>
    BY <1>9 DEF KeepPackage, Updating, diskVars
  <2>2. \A p \in Pkgs : updated'[p] = IF p = d[1] THEN KeptEntry(d) ELSE updated[p]
    BY <2>1 DEF TypeOK
  <2>3. QED
    BY <2>1, <2>2, KeptSound DEF LockInv, InHand
<1>10. ASSUME NEW d \in Deps, UpdateFails(d) PROVE LockInv'
  <2>1. Return(FALSE) /\ (lock' = lock \/ lock' = [p \in Pkgs |-> NoEntry])
    BY <1>10 DEF UpdateFails, diskVars
  <2>2. QED
    BY <2>1, ReturnKeepsLock
<1>11. ASSUME SaveOne PROVE LockInv'
  <2>1. /\ current[1] \in Pkgs /\ EntrySound(current[1], current[2])
        /\ lock' = [lock EXCEPT ![current[1]] = current[2]]
        /\ updated' = updated \/ updated' = [updated EXCEPT ![current[1]] = current[2]]
        /\ pc' \in {"fetch", "update"}
    BY <1>11 DEF SaveOne, LockInv, InHand, EntrySound
  <2>2. \A p \in Pkgs : EntrySound(p, lock'[p])
    BY <2>1 DEF LockInv, TypeOK
  <2>3. \A p \in Pkgs : EntrySound(p, updated'[p])
    <3>1. CASE updated' = updated
      BY <3>1 DEF LockInv
    <3>2. CASE updated' = [updated EXCEPT ![current[1]] = current[2]]
      BY <2>1, <3>2 DEF LockInv, TypeOK
    <3>3. QED
      BY <2>1, <3>1, <3>2
  <2>4. QED
    BY <2>1, <2>2, <2>3 DEF LockInv, InHand
<1>12. ASSUME Fetched PROVE LockInv'
  <2>1. UNCHANGED <<lock, updated>> /\ ~InHand'
    BY <1>12 DEF Fetched, inputVars, diskVars, checkVars, localVars, InHand
  <2>2. QED
    BY <2>1 DEF LockInv, InHand
<1>13. ASSUME Loaded PROVE LockInv'
  <2>1. \E r \in BOOLEAN : Return(r)
    BY <1>13 DEF Loaded
  <2>2. QED
    BY <1>13, <2>1, ReturnKeepsLock DEF Loaded, diskVars
<1>14. ASSUME Checked PROVE LockInv'
  <2>1. CASE Return(TRUE)
    BY <1>14, <2>1, ReturnKeepsLock DEF Checked, diskVars
  <2>2. CASE ~Return(TRUE)
    BY <1>14, <2>2 DEF Checked, diskVars, checkVars, LockInv, InHand
  <2>3. QED
    BY <2>1, <2>2
<1>15. ASSUME Swap PROVE LockInv'
  <2>1. /\ current[1] \in Pkgs /\ EntrySound(current[1], current[2])
        /\ updated' = [updated EXCEPT ![current[1]] = current[2]]
        /\ pc' = "update" /\ lock' = lock
    BY <1>15 DEF Swap, LockInv, InHand, EntrySound
  <2>2. \A p \in Pkgs : EntrySound(p, updated'[p])
    BY <2>1 DEF LockInv, TypeOK
  <2>3. QED
    BY <2>1, <2>2 DEF LockInv, InHand
<1>16. ASSUME Updated PROVE LockInv'
  <2>1. lock' = updated /\ Return(TRUE)
    BY <1>16 DEF Updated
  <2>2. QED
    BY <2>1 DEF Return, LockInv, InHand, EntrySound
<1>17. ASSUME NEW p \in Pkgs, Remove(p) PROVE LockInv'
  <2>1. /\ pc = "idle" /\ UNCHANGED <<pc, updated>>
        /\ lock' = lock \/ lock' = [q \in Pkgs |-> NoEntry]
    BY <1>17 DEF Remove, localVars, checkVars, diskVars
  <2>2. QED
    BY <2>1 DEF LockInv, InHand, EntrySound
<1>18. ASSUME NEW p \in Pkgs, NEW v \in Versions \cup {NoDep}, EditConfig(p, v) PROVE LockInv'
  <2>1. /\ pc = "idle" /\ UNCHANGED <<pc, updated>>
        /\ lock' = lock \/ lock' = [q \in Pkgs |-> NoEntry]
    BY <1>18 DEF EditConfig, localVars, checkVars, diskVars
  <2>2. QED
    BY <2>1 DEF LockInv, InHand, EntrySound
<1>19. ASSUME StartBuild PROVE LockInv'
  <2>1. UNCHANGED <<lock, updated>> /\ ~InHand'
    BY <1>19 DEF StartBuild, Start, inputVars, diskVars, checkVars, localVars, InHand
  <2>2. QED
    BY <2>1 DEF LockInv, InHand
<1>20. ASSUME StartUpdate PROVE LockInv'
  <2>1. UNCHANGED <<lock, updated>> /\ ~InHand'
    BY <1>20 DEF StartUpdate, Start, inputVars, diskVars, checkVars, localVars, InHand
  <2>2. QED
    BY <2>1 DEF LockInv, InHand
<1>21. ASSUME Clean PROVE LockInv'
  <2>1. /\ pc = "idle" /\ UNCHANGED <<pc, updated>>
        /\ lock' = lock \/ lock' = [q \in Pkgs |-> NoEntry]
    BY <1>21 DEF Clean, localVars, checkVars, diskVars
  <2>2. QED
    BY <2>1 DEF LockInv, InHand, EntrySound
<1>22. ASSUME Checkout PROVE LockInv'
  <2>1. /\ pc = "idle" /\ UNCHANGED <<pc, updated>>
        /\ lock' = lock \/ lock' = [q \in Pkgs |-> NoEntry]
    BY <1>22 DEF Checkout, localVars, checkVars, diskVars
  <2>2. QED
    BY <2>1 DEF LockInv, InHand, EntrySound
<1>23. ASSUME KilledAnywhere PROVE LockInv'
  <2>1. Return(FALSE) /\ (lock' = lock \/ lock' = [p \in Pkgs |-> NoEntry])
    BY <1>23 DEF KilledAnywhere, Kill, diskVars
  <2>2. QED
    BY <2>1, ReturnKeepsLock
<1>24. ASSUME KilledInSave PROVE LockInv'
  <2>1. Return(FALSE) /\ (lock' = lock \/ lock' = [p \in Pkgs |-> NoEntry])
    BY <1>24 DEF KilledInSave, Kill
  <2>2. QED
    BY <2>1, ReturnKeepsLock
<1>25. ASSUME KilledInSwap PROVE LockInv'
  <2>1. Return(FALSE) /\ (lock' = lock \/ lock' = [p \in Pkgs |-> NoEntry])
    BY <1>25 DEF KilledInSwap, Kill
  <2>2. QED
    BY <2>1, ReturnKeepsLock
<1>26. ASSUME NEW d \in todo, KilledInClone(d) PROVE LockInv'
  <2>1. Return(FALSE) /\ (lock' = lock \/ lock' = [p \in Pkgs |-> NoEntry])
    BY <1>26 DEF KilledInClone, Kill
  <2>2. QED
    BY <2>1, ReturnKeepsLock
<1>27. CASE Remotes
  BY <1>27 DEF Remotes, Push, localVars, checkVars, diskVars, LockInv, InHand
<1>28. CASE UNCHANGED vars
  BY <1>28 DEF vars, LockInv, InHand, localVars, checkVars, inputVars, diskVars
<1>29. QED
  BY <1>1, <1>2, <1>3, <1>4, <1>5, <1>6, <1>7, <1>8, <1>9, <1>10, <1>11, <1>12, <1>13, <1>14,
     <1>15, <1>16, <1>17, <1>18, <1>19, <1>20, <1>21, <1>22, <1>23, <1>24, <1>25, <1>26, <1>27, <1>28
     DEF Next, Spkg, Developer, Killed

------------------------------------------------------------------------------
LEMMA UpdateInit == Init => UpdateInv
BY DEF Init, UpdateInv, Noted

\* A configuration names a package once.
LEMMA DirectOnce ==
  ASSUME NEW d \in Direct, NEW e \in Direct, d[1] = e[1]
  PROVE  d = e
BY DEF Direct, Declared

LEMMA DirectTaken ==
  ASSUME TypeOK, todo \subseteq Direct, NEW d \in todo, todo' = todo \ {d}
  PROVE  /\ d \in Deps /\ Awaited(d[1]) /\ ~Awaited(d[1])'
         /\ \A p \in Pkgs : Awaited(p)' => Awaited(p)
<1>1. d \in Deps /\ d[1] \in Pkgs /\ d = <<d[1], d[2]>> /\ d[2] \in Versions
  BY DEF TypeOK, Deps
<1>2. \A e \in todo' : e \in Direct /\ d \in Direct /\ e # d
  OBVIOUS
<1>3. \A e \in todo' : e[1] # d[1]
  BY <1>2, DirectOnce
<1>4. ~Awaited(d[1])'
  <2>1. SUFFICES ASSUME NEW v \in Versions, <<d[1], v>> \in todo' PROVE FALSE
    BY DEF Awaited
  <2>2. QED
    BY <2>1, <1>3
<1>5. QED
  BY <1>1, <1>4 DEF Awaited

LEMMA ReturnKeepsNotes ==
  ASSUME NEW r, Return(r)
  PROVE  UpdateInv'
BY DEF Return, UpdateInv, Noted

\* Outside update_deps nothing is noted.
LEMMA NothingNoted ==
  ASSUME UpdateInv, cmd # "update", cmd' # "update", updated' = updated
  PROVE  UpdateInv'
BY DEF UpdateInv, Noted

LEMMA UpdateStep ==
  ASSUME TypeOK, CommandOfLoop, LockInv, UpdateInv, [Next]_vars
  PROVE  UpdateInv'
<1>1. ASSUME NEW d \in Deps, AlreadySeen(d) PROVE UpdateInv'
  <2>1. /\ pc \in {"fetch", "load"} /\ UNCHANGED <<cmd, updated>>
    BY <1>1 DEF AlreadySeen, checkVars
  <2>2. QED
    BY <2>1, NothingNoted DEF CommandOfLoop
<1>2. ASSUME NEW d \in Deps, Cached(d) PROVE UpdateInv'
  <2>1. /\ pc \in {"fetch", "load"} /\ UNCHANGED <<cmd, updated>>
    BY <1>2 DEF Cached, Visit, checkVars
  <2>2. QED
    BY <2>1, NothingNoted DEF CommandOfLoop
<1>3. ASSUME NEW d \in Deps, Cloned(d) PROVE UpdateInv'
  <2>1. /\ pc \in {"fetch", "load"} /\ UNCHANGED <<cmd, updated>>
    BY <1>3 DEF Cloned, Visit, Clone, checkVars
  <2>2. QED
    BY <2>1, NothingNoted DEF CommandOfLoop
<1>4. ASSUME NEW d \in Deps, CloneFails(d) PROVE UpdateInv'
  BY <1>4, ReturnKeepsNotes DEF CloneFails
<1>5. ASSUME NEW d \in Deps, Load(d) PROVE UpdateInv'
  <2>1. /\ pc \in {"fetch", "load"} /\ UNCHANGED <<cmd, updated>>
    BY <1>5 DEF Load, checkVars
  <2>2. QED
    BY <2>1, NothingNoted DEF CommandOfLoop
<1>6. ASSUME NEW d \in Deps, Check(d) PROVE UpdateInv'
  <2>1. /\ pc = "check" /\ todo' = todo \ {d}
        /\ UNCHANGED <<config, pc, cmd, updated>>
    BY <1>6 DEF Check, inputVars
  <2>2. QED
    BY <2>1 DEF UpdateInv, Noted, InHand, Direct, CommandOfLoop
<1>7. ASSUME NEW d \in Deps, Replace(d) PROVE UpdateInv'
  <2>1. PICK e : /\ lock' = [lock EXCEPT ![d[1]] = e]
                 /\ current'[1] = d[1]
    BY <1>7, ReplaceDoes
  <2>2. /\ pc = "update" /\ pc' = "swap" /\ cmd = "update" /\ d \in todo /\ todo' = todo \ {d}
        /\ UNCHANGED <<config, cmd, pkgs, updated>>
    BY <1>7 DEF Replace, Updating, inputVars, checkVars, CommandOfLoop
  <2>3. todo \subseteq Direct /\ Direct' = Direct
    BY <2>2 DEF UpdateInv, Direct
  <2>4. /\ Awaited(d[1]) /\ ~Awaited(d[1])' /\ d[1] \in Pkgs
        /\ \A p \in Pkgs : Awaited(p)' => Awaited(p)
    BY <2>2, <2>3, DirectTaken DEF Deps
  <2>5. \A p \in Pkgs : p # d[1] => lock'[p] = lock[p]
    BY <2>1 DEF TypeOK
  <2>6. \A p \in Pkgs : Noted(p)' => /\ p # d[1] /\ ~Awaited(p)'
                                     /\ updated'[p] = lock'[p] \/ updated'[p].commit \in {pkgs'[p], Unknown}
    BY <2>2, <2>4, <2>5 DEF UpdateInv, Noted
  <2>7. current'[1] = d[1]
    BY <2>1
  <2>8. QED
    BY <2>2, <2>3, <2>4, <2>6, <2>7 DEF UpdateInv
<1>8. ASSUME NEW d \in Deps, Refetch(d) PROVE UpdateInv'
  <2>1. PICK c : pkgs' = [pkgs EXCEPT ![d[1]] = c] /\ current'[1] = d[1]
    BY <1>8, CloneDoes DEF Refetch
  <2>2. /\ pc = "update" /\ pc' = "save" /\ cmd = "update" /\ d \in todo /\ todo' = todo \ {d}
        /\ UNCHANGED <<config, cmd, lock, updated>>
    BY <1>8 DEF Refetch, Clone, Updating, inputVars, checkVars, CommandOfLoop
  <2>3. todo \subseteq Direct /\ Direct' = Direct
    BY <2>2 DEF UpdateInv, Direct
  <2>4. /\ Awaited(d[1]) /\ ~Awaited(d[1])' /\ d[1] \in Pkgs
        /\ \A p \in Pkgs : Awaited(p)' => Awaited(p)
    BY <2>2, <2>3, DirectTaken DEF Deps
  <2>5. \A p \in Pkgs : p # d[1] => pkgs'[p] = pkgs[p]
    BY <2>1 DEF TypeOK
  <2>6. \A p \in Pkgs : Noted(p)' => /\ p # d[1] /\ ~Awaited(p)'
                                     /\ updated'[p] = lock'[p] \/ updated'[p].commit \in {pkgs'[p], Unknown}
    BY <2>2, <2>4, <2>5 DEF UpdateInv, Noted
  <2>7. current'[1] = d[1]
    BY <2>1
  <2>8. QED
    BY <2>2, <2>3, <2>4, <2>6, <2>7 DEF UpdateInv
<1>9. ASSUME NEW d \in Deps, KeepPackage(d) PROVE UpdateInv'
  <2>1. /\ pc = "update" /\ cmd = "update" /\ d \in todo /\ todo' = todo \ {d}
        /\ updated' = [updated EXCEPT ![d[1]] = KeptEntry(d)]
        /\ UNCHANGED <<config, pc, cmd, lock, pkgs>>
    BY <1>9 DEF KeepPackage, Updating, inputVars, diskVars, CommandOfLoop
  <2>2. todo \subseteq Direct /\ Direct' = Direct
    BY <2>1 DEF UpdateInv, Direct
  <2>3. /\ ~Awaited(d[1])' /\ d[1] \in Pkgs
        /\ \A p \in Pkgs : Awaited(p)' => Awaited(p)
    BY <2>1, <2>2, DirectTaken DEF Deps
  <2>4. KeptEntry(d) = lock[d[1]] \/ KeptEntry(d).commit = Unknown
    BY DEF KeptEntry, Resolved
  <2>5. \A p \in Pkgs : updated'[p] = IF p = d[1] THEN KeptEntry(d) ELSE updated[p]
    BY <2>1 DEF TypeOK
  <2>6. \A p \in Pkgs : Noted(p)' => /\ ~Awaited(p)'
                                     /\ updated'[p] = lock'[p] \/ updated'[p].commit \in {pkgs'[p], Unknown}
    BY <2>1, <2>3, <2>4, <2>5 DEF UpdateInv, Noted
  <2>7. QED
    BY <2>1, <2>2, <2>3, <2>6 DEF UpdateInv, InHand
<1>10. ASSUME NEW d \in Deps, UpdateFails(d) PROVE UpdateInv'
  BY <1>10, ReturnKeepsNotes DEF UpdateFails
<1>11. ASSUME SaveOne PROVE UpdateInv'
  <2>1. CASE cmd = "build"
    BY <1>11, <2>1, NothingNoted DEF SaveOne
  <2>2. CASE cmd # "build"
    <3>1. cmd = "update" /\ pc = "save" /\ current[1] \in Pkgs /\ current[2] \in Entries
      BY <1>11, <2>2 DEF SaveOne, TypeOK, Commands, CommandOfLoop, LockInv, InHand
    <3>2. /\ pc' = "update" /\ UNCHANGED <<config, cmd, todo, pkgs>>
          /\ lock' = [lock EXCEPT ![current[1]] = current[2]]
          /\ updated' = [updated EXCEPT ![current[1]] = current[2]]
      BY <1>11, <2>2 DEF SaveOne, inputVars
    <3>3. todo \subseteq Direct /\ Direct' = Direct /\ ~Awaited(current[1])
      BY <3>1, <3>2 DEF UpdateInv, Direct, InHand
    <3>4. \A p \in Pkgs : /\ updated'[p] = IF p = current[1] THEN current[2] ELSE updated[p]
                          /\ lock'[p] = IF p = current[1] THEN current[2] ELSE lock[p]
      BY <3>1, <3>2 DEF TypeOK
    <3>5. \A p \in Pkgs : Noted(p)' =>
            /\ ~Awaited(p)'
            /\ updated'[p] = lock'[p] \/ updated'[p].commit \in {pkgs'[p], Unknown}
      <4>1. ASSUME NEW p \in Pkgs PROVE Awaited(p)' <=> Awaited(p)
        BY <3>2 DEF Awaited
      <4>2. \A p \in Pkgs : p # current[1] /\ Noted(p)' => Noted(p)
        BY <3>4 DEF Noted
      <4>3. QED
        BY <3>1, <3>2, <3>3, <3>4, <4>1, <4>2 DEF UpdateInv
    <3>6. QED
      BY <3>1, <3>2, <3>3, <3>5 DEF UpdateInv, InHand
  <2>3. QED
    BY <2>1, <2>2
<1>12. ASSUME Fetched PROVE UpdateInv'
  <2>1. /\ pc \in {"fetch", "load"} /\ UNCHANGED <<cmd, updated>>
    BY <1>12 DEF Fetched, checkVars
  <2>2. QED
    BY <2>1, NothingNoted DEF CommandOfLoop
<1>13. ASSUME Loaded PROVE UpdateInv'
  BY <1>13, ReturnKeepsNotes DEF Loaded
<1>14. ASSUME Checked PROVE UpdateInv'
  <2>1. CASE Return(TRUE)
    BY <2>1, ReturnKeepsNotes
  <2>2. CASE ~Return(TRUE)
    <3>1. /\ pc = "check" /\ pc' = "update" /\ todo' = Direct
          /\ UNCHANGED <<config, cmd, updated>>
      BY <1>14, <2>2 DEF Checked, inputVars, checkVars
    <3>2. QED
      BY <3>1 DEF UpdateInv, Noted, InHand, Direct, CommandOfLoop
  <2>3. QED
    BY <2>1, <2>2
<1>15. ASSUME Swap PROVE UpdateInv'
  <2>1. /\ cmd = "update" /\ pc = "swap" /\ current[1] \in Pkgs
        /\ current[2].commit \in {current[3], Unknown}
    BY <1>15 DEF Swap, CommandOfLoop, LockInv, InHand
  <2>2. /\ pc' = "update" /\ UNCHANGED <<config, cmd, todo, lock>>
        /\ pkgs' = [pkgs EXCEPT ![current[1]] = current[3]]
        /\ updated' = [updated EXCEPT ![current[1]] = current[2]]
    BY <1>15 DEF Swap, inputVars
  <2>3. todo \subseteq Direct /\ Direct' = Direct /\ ~Awaited(current[1])
    BY <2>1, <2>2 DEF UpdateInv, Direct, InHand
  <2>4. \A p \in Pkgs : /\ updated'[p] = IF p = current[1] THEN current[2] ELSE updated[p]
                        /\ pkgs'[p] = IF p = current[1] THEN current[3] ELSE pkgs[p]
    BY <2>1, <2>2 DEF TypeOK
  <2>5. \A p \in Pkgs : Noted(p)' =>
          /\ ~Awaited(p)'
          /\ updated'[p] = lock'[p] \/ updated'[p].commit \in {pkgs'[p], Unknown}
    <3>1. ASSUME NEW p \in Pkgs PROVE Awaited(p)' <=> Awaited(p)
      BY <2>2 DEF Awaited
    <3>2. \A p \in Pkgs : p # current[1] /\ Noted(p)' => Noted(p)
      BY <2>4 DEF Noted
    <3>3. QED
      BY <2>1, <2>2, <2>3, <2>4, <3>1, <3>2 DEF UpdateInv
  <2>6. QED
    BY <2>1, <2>2, <2>3, <2>5 DEF UpdateInv, InHand
<1>16. ASSUME Updated PROVE UpdateInv'
  BY <1>16, ReturnKeepsNotes DEF Updated
<1>17. ASSUME NEW p \in Pkgs, Remove(p) PROVE UpdateInv'
  <2>1. pc = "idle" /\ UNCHANGED <<cmd, updated>>
    BY <1>17 DEF Remove, localVars, checkVars
  <2>2. QED
    BY <2>1, NothingNoted DEF CommandOfLoop
<1>18. ASSUME NEW p \in Pkgs, NEW v \in Versions \cup {NoDep}, EditConfig(p, v) PROVE UpdateInv'
  <2>1. pc = "idle" /\ UNCHANGED <<cmd, updated>>
    BY <1>18 DEF EditConfig, localVars, checkVars
  <2>2. QED
    BY <2>1, NothingNoted DEF CommandOfLoop
<1>19. ASSUME StartBuild PROVE UpdateInv'
  <2>1. pc = "idle" /\ cmd' = "build" /\ updated' = updated
    BY <1>19 DEF StartBuild, Start, checkVars
  <2>2. QED
    BY <2>1, NothingNoted DEF CommandOfLoop
<1>20. ASSUME StartUpdate PROVE UpdateInv'
  <2>1. /\ pc = "idle" /\ cmd' = "update" /\ pc' = "check" /\ todo' = Direct
        /\ UNCHANGED <<config, updated>>
    BY <1>20 DEF StartUpdate, Start, checkVars, inputVars
  <2>2. \A p \in Pkgs : ~Noted(p)
    BY <2>1 DEF CommandOfLoop, UpdateInv
  <2>3. QED
    BY <2>1, <2>2 DEF UpdateInv, Noted, InHand, Direct
<1>21. ASSUME Clean PROVE UpdateInv'
  <2>1. pc = "idle" /\ UNCHANGED <<cmd, updated>>
    BY <1>21 DEF Clean, localVars, checkVars
  <2>2. QED
    BY <2>1, NothingNoted DEF CommandOfLoop
<1>22. ASSUME Checkout PROVE UpdateInv'
  <2>1. pc = "idle" /\ UNCHANGED <<cmd, updated>>
    BY <1>22 DEF Checkout, localVars, checkVars
  <2>2. QED
    BY <2>1, NothingNoted DEF CommandOfLoop
<1>23. ASSUME KilledAnywhere PROVE UpdateInv'
  BY <1>23, ReturnKeepsNotes DEF KilledAnywhere, Kill
<1>24. ASSUME KilledInSave PROVE UpdateInv'
  BY <1>24, ReturnKeepsNotes DEF KilledInSave, Kill
<1>25. ASSUME KilledInSwap PROVE UpdateInv'
  BY <1>25, ReturnKeepsNotes DEF KilledInSwap, Kill
<1>26. ASSUME NEW d \in todo, KilledInClone(d) PROVE UpdateInv'
  BY <1>26, ReturnKeepsNotes DEF KilledInClone, Kill
<1>27. CASE Remotes
  BY <1>27 DEF Remotes, Push, localVars, checkVars, diskVars, UpdateInv, InHand, Noted, Awaited, Direct
<1>28. CASE UNCHANGED vars
  BY <1>28 DEF vars, UpdateInv, InHand, Noted, Awaited, Direct, localVars, checkVars, inputVars, diskVars
<1>29. QED
  BY <1>1, <1>2, <1>3, <1>4, <1>5, <1>6, <1>7, <1>8, <1>9, <1>10, <1>11, <1>12, <1>13, <1>14,
     <1>15, <1>16, <1>17, <1>18, <1>19, <1>20, <1>21, <1>22, <1>23, <1>24, <1>25, <1>26, <1>27, <1>28
     DEF Next, Spkg, Developer, Killed

------------------------------------------------------------------------------
LEMMA VisitInit == Init => VisitInv
BY DEF Init, VisitInv, Fetching

LEMMA ReturnForgets ==
  ASSUME NEW r, Return(r)
  PROVE  VisitInv'
BY DEF Return, VisitInv, Fetching

LEMMA NotVisiting ==
  ASSUME pc' \in {"check", "update", "swap"} \/ (pc' = "save" /\ cmd' = "update")
  PROVE  VisitInv'
BY DEF VisitInv, Fetching

LEMMA IdleKeepsVisits ==
  ASSUME VisitInv, pc = "idle", UNCHANGED <<pc, visited>>
  PROVE  VisitInv'
BY DEF VisitInv, Fetching

\* A dep that is taken from todo is visited, so nothing known is forgotten.
LEMMA KnownStays ==
  ASSUME NEW d \in Deps, d[1] \in visited', visited \subseteq visited',
         todo \ {d} \subseteq todo'
  PROVE  \A p \in Pkgs : Known(p) => Known(p)'
<1>1. ASSUME NEW p \in Pkgs, NEW v \in Versions, <<p, v>> \in todo PROVE Known(p)'
  <2>1. CASE <<p, v>> = d
    BY <2>1 DEF Known
  <2>2. CASE <<p, v>> # d
    BY <1>1, <2>2 DEF Known, Awaited
  <2>3. QED
    BY <2>1, <2>2
<1>2. QED
  BY <1>1 DEF Known, Awaited

\* What is found in a package, or declared by it, stays the same as long as the
\* package does.
LEMMA SaysStays ==
  ASSUME NEW q, pkgs'[q] = pkgs[q]
  PROVE  /\ Found(q)' = Found(q)
         /\ \A something : Says(something, q)' = Says(something, q)
         /\ Discoverable(q)' <=> Discoverable(q)
BY DEF Found, Says, Discoverable

LEMMA FoundStaysKnown ==
  ASSUME NEW q \in Pkgs, KnowsFoundIn(q), pkgs'[q] = pkgs[q],
         \A p \in Pkgs : Known(p) => Known(p)'
  PROVE  KnowsFoundIn(q)'
<1>1. \A d \in Found(q) : d[1] \in Pkgs
  BY FoundType DEF Deps
<1>2. QED
  BY <1>1, SaysStays DEF KnowsFoundIn

LEMMA DeclaredStaysKnown ==
  ASSUME NEW q \in Pkgs, KnowsDeclaredBy(q), pkgs'[q] = pkgs[q],
         \A p \in Pkgs : Known(p) => Known(p)'
  PROVE  KnowsDeclaredBy(q)'
<1>1. \A d \in Says(Declares, q) : d[1] \in Pkgs
  BY SaysType DEF Deps
<1>2. QED
  BY <1>1, SaysStays DEF KnowsDeclaredBy

LEMMA AwaitedIsKnown ==
  ASSUME NEW S \in SUBSET Deps, S \subseteq todo'
  PROVE  \A d \in S : Known(d[1])'
<1>1. ASSUME NEW d \in S PROVE Known(d[1])'
  <2>1. d = <<d[1], d[2]>> /\ d[2] \in Versions /\ d \in todo'
    BY DEF Deps
  <2>2. QED
    BY <2>1 DEF Known, Awaited
<1>2. QED
  BY <1>1

LEMMA DirectStaysKnown ==
  ASSUME TypeOK, config' = config, \A d \in Direct : Known(d[1]),
         \A p \in Pkgs : Known(p) => Known(p)'
  PROVE  \A d \in Direct' : Known(d[1])'
<1>1. Direct' = Direct
  BY DEF Direct
<1>2. Direct \subseteq Deps
  BY DirectType DEF TypeOK
<1>3. QED
  BY <1>1, <1>2 DEF Deps

LEMMA DirectAwaited ==
  ASSUME TypeOK, config' = config, todo' = Direct
  PROVE  \A d \in Direct' : Known(d[1])'
<1>1. Direct' = Direct
  BY DEF Direct
<1>2. QED
  BY <1>1, DirectType, AwaitedIsKnown

LEMMA FetchedSetStays ==
  ASSUME NEW F \in SUBSET Pkgs, FetchedSet(F), UNCHANGED <<config, pkgs>>
  PROVE  FetchedSet(F)'
<1>1. \A p : Found(p)' = Found(p)
  BY SaysStays
<1>2. QED
  BY <1>1 DEF FetchedSet, Direct

LEMMA VisitUnchanged ==
  ASSUME VisitInv, UNCHANGED <<config, pkgs, pc, visited, todo, current, cmd>>
  PROVE  VisitInv'
<1>1. \A p : Known(p)' <=> Known(p)
  BY DEF Known, Awaited
<1>2. \A p : /\ KnowsFoundIn(p)' <=> KnowsFoundIn(p)
             /\ KnowsDeclaredBy(p)' <=> KnowsDeclaredBy(p)
             /\ Discoverable(p)' <=> Discoverable(p)
  BY <1>1, SaysStays DEF KnowsFoundIn, KnowsDeclaredBy
<1>3. Direct' = Direct /\ (Fetching' <=> Fetching)
  BY DEF Direct, Fetching
<1>4. ASSUME pc = "load"
      PROVE  \E F \in SUBSET Pkgs :
                /\ FetchedSet(F)'
                /\ (\A p \in visited : Discoverable(p)') => \A p \in Pkgs : Known(p)' => p \in F
  <2>1. PICK F \in SUBSET Pkgs :
                /\ FetchedSet(F)
                /\ (\A p \in visited : Discoverable(p)) => \A p \in Pkgs : Known(p) => p \in F
    BY <1>4 DEF VisitInv
  <2>2. FetchedSet(F)'
    BY <2>1, FetchedSetStays
  <2>3. QED
    BY <1>1, <1>2, <2>1, <2>2
<1>5. QED
  BY <1>1, <1>2, <1>3, <1>4 DEF VisitInv

LEMMA VisitStep ==
  ASSUME TypeOK, CommandOfLoop, LockInv, VisitInv, [Next]_vars
  PROVE  VisitInv'
<1>1. ASSUME NEW d \in Deps, AlreadySeen(d) PROVE VisitInv'
  <2>1. /\ pc \in {"fetch", "load"} /\ d[1] \in visited /\ todo' = todo \ {d}
        /\ UNCHANGED <<config, pkgs, pc, visited, current, cmd>>
    BY <1>1 DEF AlreadySeen, Seen, inputVars, diskVars
  <2>2. \A p \in Pkgs : Known(p) => Known(p)'
    BY <2>1, KnownStays
  <2>3. \A p \in Pkgs : Known(p)' => Known(p)
    BY <2>1 DEF Known, Awaited
  <2>4. \A e \in Direct' : Known(e[1])'
    BY <2>1, <2>2, DirectStaysKnown DEF VisitInv, Fetching
  <2>5. visited \subseteq Pkgs
    BY DEF TypeOK
  <2>6. CASE pc = "fetch"
    <3>1. \A q \in Pkgs : KnowsFoundIn(q) => KnowsFoundIn(q)'
      BY <2>1, <2>2, FoundStaysKnown
    <3>2. QED
      BY <2>1, <2>4, <2>5, <2>6, <3>1 DEF VisitInv, Fetching
  <2>7. CASE pc = "load"
    <3>1. PICK F \in SUBSET Pkgs :
                /\ FetchedSet(F)
                /\ (\A p \in visited : Discoverable(p)) => \A p \in Pkgs : Known(p) => p \in F
      BY <2>7 DEF VisitInv
    <3>2. FetchedSet(F)' /\ \A p : Discoverable(p)' <=> Discoverable(p)
      BY <2>1, <3>1, FetchedSetStays, SaysStays
    <3>3. (\A p \in visited' : Discoverable(p)') => \A p \in Pkgs : Known(p)' => p \in F
      BY <2>1, <2>3, <3>1, <3>2
    <3>4. \A q \in visited : KnowsDeclaredBy(q)'
      BY <2>1, <2>2, <2>5, <2>7, DeclaredStaysKnown DEF VisitInv
    <3>5. QED
      BY <2>1, <2>4, <2>7, <3>2, <3>3, <3>4 DEF VisitInv, Fetching
  <2>8. QED
    BY <2>1, <2>6, <2>7
<1>2. ASSUME NEW d \in Deps, Cached(d) PROVE VisitInv'
  <2>1. /\ pc = "fetch" /\ visited' = visited \cup {d[1]} /\ pkgs[d[1]] # Missing
        /\ todo' = (todo \ {d}) \cup Found(d[1])
        /\ UNCHANGED <<config, pkgs, pc>>
    BY <1>2 DEF Cached, Visit, inputVars, diskVars
  <2>2. \A p \in Pkgs : Known(p) => Known(p)'
    BY <2>1, KnownStays
  <2>3. \A e \in Direct' : Known(e[1])'
    BY <2>1, <2>2, DirectStaysKnown DEF VisitInv, Fetching
  <2>4. visited \subseteq Pkgs /\ d[1] \in Pkgs
    BY DEF TypeOK, Deps
  <2>5. KnowsFoundIn(d[1])'
    <3>1. Found(d[1]) \subseteq todo' /\ Found(d[1]) \in SUBSET Deps
      BY <2>1, <2>4, FoundType
    <3>2. \A e \in Found(d[1]) : Known(e[1])'
      BY <3>1, AwaitedIsKnown
    <3>3. QED
      BY <2>1, <3>2, SaysStays DEF KnowsFoundIn
  <2>6. \A q \in visited : KnowsFoundIn(q)' /\ pkgs[q] # Missing
    BY <2>1, <2>2, <2>4, FoundStaysKnown DEF VisitInv, Fetching
  <2>7. QED
    BY <2>1, <2>3, <2>5, <2>6 DEF VisitInv, Fetching
<1>3. ASSUME NEW d \in Deps, Cloned(d) PROVE VisitInv'
  <2>1. /\ pc = "fetch" /\ pc' = "save" /\ d[1] \notin visited /\ visited' = visited \cup {d[1]}
        /\ todo' = todo \ {d} /\ current'[1] = d[1]
        /\ UNCHANGED config
    BY <1>3 DEF Cloned, Visit, Clone, Seen, inputVars
  <2>2. PICK c \in Commits : pkgs' = [pkgs EXCEPT ![d[1]] = c]
    BY <1>3 DEF Cloned, Clone
  <2>3. \A p \in Pkgs : Known(p) => Known(p)'
    BY <2>1, KnownStays
  <2>4. \A e \in Direct' : Known(e[1])'
    BY <2>1, <2>3, DirectStaysKnown DEF VisitInv, Fetching
  <2>5. visited \subseteq Pkgs /\ d[1] \in Pkgs
    BY DEF TypeOK, Deps
  <2>6. \A q \in visited : pkgs'[q] = pkgs[q]
    BY <2>1, <2>2, <2>5 DEF TypeOK
  <2>7. \A q \in visited : KnowsFoundIn(q)' /\ pkgs'[q] # Missing
    BY <2>1, <2>3, <2>5, <2>6, FoundStaysKnown DEF VisitInv, Fetching
  <2>8. pkgs'[d[1]] # Missing
    BY <2>2, <2>5 DEF TypeOK
  <2>9. QED
    BY <2>1, <2>4, <2>7, <2>8 DEF VisitInv, Fetching
<1>4. ASSUME NEW d \in Deps, CloneFails(d) PROVE VisitInv'
  BY <1>4, ReturnForgets DEF CloneFails
<1>5. ASSUME NEW d \in Deps, Load(d) PROVE VisitInv'
  <2>1. /\ pc = "load" /\ d \in todo /\ visited' = visited \cup {d[1]}
        /\ todo' = (todo \ {d}) \cup Says(Declares, d[1])
        /\ UNCHANGED <<config, pkgs, pc>>
    BY <1>5 DEF Load, inputVars, diskVars
  <2>2. \A p \in Pkgs : Known(p) => Known(p)'
    BY <2>1, KnownStays
  <2>3. \A e \in Direct' : Known(e[1])'
    BY <2>1, <2>2, DirectStaysKnown DEF VisitInv, Fetching
  <2>4. d[1] \in Pkgs /\ visited \subseteq Pkgs
    BY DEF TypeOK, Deps
  <2>5. KnowsDeclaredBy(d[1])'
    <3>1. Says(Declares, d[1]) \subseteq todo' /\ Says(Declares, d[1]) \in SUBSET Deps
      BY <2>1, <2>4, SaysType
    <3>2. \A e \in Says(Declares, d[1]) : Known(e[1])'
      BY <3>1, AwaitedIsKnown
    <3>3. QED
      BY <2>1, <3>2, SaysStays DEF KnowsDeclaredBy
  <2>6. \A q \in visited : KnowsDeclaredBy(q)'
    BY <2>1, <2>2, <2>4, DeclaredStaysKnown DEF VisitInv
  <2>7. PICK F \in SUBSET Pkgs :
                /\ FetchedSet(F)
                /\ (\A p \in visited : Discoverable(p)) => \A p \in Pkgs : Known(p) => p \in F
    BY <2>1 DEF VisitInv
  <2>8. ASSUME \A p \in visited' : Discoverable(p), NEW p \in Pkgs, Known(p)' PROVE p \in F
    <3>1. Discoverable(d[1]) /\ \A q \in Pkgs : Known(q) => q \in F
      BY <2>1, <2>7, <2>8
    <3>2. d[1] \in F
      <4>1. d = <<d[1], d[2]>> /\ d[2] \in Versions
        BY DEF Deps
      <4>2. Known(d[1])
        BY <2>1, <4>1 DEF Known, Awaited
      <4>3. QED
        BY <2>4, <3>1, <4>2
    <3>3. CASE p \in visited'
      BY <2>1, <3>1, <3>2, <3>3 DEF Known
    <3>4. ASSUME NEW v \in Versions, <<p, v>> \in todo' PROVE p \in F
      <4>1. CASE <<p, v>> \in todo
        BY <3>1, <4>1 DEF Known, Awaited
      <4>2. CASE <<p, v>> \notin todo
        <5>1. <<p, v>> \in Says(Declares, d[1])
          BY <2>1, <3>4, <4>2
        <5>2. \E e \in Found(d[1]) : e[1] = p
          BY <3>1, <5>1 DEF Discoverable, Found
        <5>3. QED
          BY <2>7, <3>2, <5>2 DEF FetchedSet
      <4>3. QED
        BY <4>1, <4>2
    <3>5. QED
      BY <2>8, <3>3, <3>4 DEF Known, Awaited
  <2>9. FetchedSet(F)' /\ \A p : Discoverable(p)' <=> Discoverable(p)
    BY <2>1, <2>7, FetchedSetStays, SaysStays
  <2>10. (\A p \in visited' : Discoverable(p)') => \A p \in Pkgs : Known(p)' => p \in F
    BY <2>8, <2>9
  <2>11. QED
    BY <2>1, <2>3, <2>5, <2>6, <2>9, <2>10 DEF VisitInv, Fetching
<1>6. ASSUME NEW d \in Deps, Check(d) PROVE VisitInv'
  BY <1>6, NotVisiting DEF Check
<1>7. ASSUME NEW d \in Deps, Replace(d) PROVE VisitInv'
  BY <1>7, NotVisiting DEF Replace
<1>8. ASSUME NEW d \in Deps, Refetch(d) PROVE VisitInv'
  BY <1>8, NotVisiting DEF Refetch, Clone, Updating, CommandOfLoop
<1>9. ASSUME NEW d \in Deps, KeepPackage(d) PROVE VisitInv'
  BY <1>9, NotVisiting DEF KeepPackage, Updating
<1>10. ASSUME NEW d \in Deps, UpdateFails(d) PROVE VisitInv'
  BY <1>10, ReturnForgets DEF UpdateFails
<1>11. ASSUME SaveOne PROVE VisitInv'
  <2>1. CASE cmd = "build"
    <3>1. /\ pc = "save" /\ pc' = "fetch" /\ current[1] \in Pkgs
          /\ todo' = todo \cup Found(current[1])
          /\ UNCHANGED <<config, pkgs, visited>>
      BY <1>11, <2>1 DEF SaveOne, inputVars, LockInv, InHand
    <3>2. \A p \in Pkgs : Known(p) => Known(p)'
      BY <3>1 DEF Known, Awaited
    <3>3. \A e \in Direct' : Known(e[1])'
      BY <2>1, <3>1, <3>2, DirectStaysKnown DEF VisitInv, Fetching
    <3>4. KnowsFoundIn(current[1])'
      <4>1. PICK q \in Pkgs : q = current[1]
        BY <3>1
      <4>2. Found(q) \subseteq todo' /\ Found(q) \in SUBSET Deps
        BY <3>1, <4>1, FoundType
      <4>3. \A e \in Found(q) : Known(e[1])'
        BY <4>2, AwaitedIsKnown
      <4>4. Found(q)' = Found(q) /\ current' = current
        BY <1>11, <3>1, SaysStays DEF SaveOne
      <4>5. QED
        BY <4>1, <4>3, <4>4 DEF KnowsFoundIn
    <3>5. visited \subseteq Pkgs /\ current' = current
      BY <1>11 DEF TypeOK, SaveOne
    <3>6. ASSUME NEW q \in Pkgs, q \in visited PROVE KnowsFoundIn(q)' /\ pkgs'[q] # Missing
      <4>1. pkgs[q] # Missing /\ (KnowsFoundIn(q) \/ q = current[1])
        BY <2>1, <3>1, <3>6 DEF VisitInv, Fetching
      <4>2. CASE q = current[1]
        BY <3>1, <3>4, <3>5, <4>1, <4>2
      <4>3. CASE KnowsFoundIn(q)
        BY <3>1, <3>2, <4>1, <4>3, FoundStaysKnown
      <4>4. QED
        BY <4>1, <4>2, <4>3
    <3>7. QED
      BY <3>1, <3>3, <3>5, <3>6 DEF VisitInv, Fetching
  <2>2. CASE cmd # "build"
    BY <1>11, <2>2, NotVisiting DEF SaveOne
  <2>3. QED
    BY <2>1, <2>2
<1>12. ASSUME Fetched PROVE VisitInv'
  <2>1. /\ pc = "fetch" /\ pc' = "load" /\ todo = {} /\ todo' = Direct /\ visited' = {}
        /\ UNCHANGED <<config, pkgs>>
    BY <1>12 DEF Fetched, inputVars, diskVars
  <2>2. \A e \in Direct' : Known(e[1])'
    BY <2>1, DirectAwaited
  <2>3. \A p \in Pkgs : Known(p) => p \in visited
    BY <2>1 DEF Known, Awaited
  <2>4. Direct \subseteq Deps /\ visited \subseteq Pkgs
    BY DirectType DEF TypeOK
  <2>5. \A e \in Direct : e[1] \in visited
    BY <2>1, <2>3, <2>4 DEF VisitInv, Fetching, Deps
  <2>6. ASSUME NEW q \in visited PROVE pkgs[q] # Missing /\ \A e \in Found(q) : e[1] \in visited
    <3>1. pkgs[q] # Missing /\ KnowsFoundIn(q)
      BY <2>1 DEF VisitInv, Fetching
    <3>2. \A e \in Found(q) : e[1] \in Pkgs
      BY <2>4, FoundType DEF Deps
    <3>3. QED
      BY <2>3, <3>1, <3>2 DEF KnowsFoundIn
  <2>7. FetchedSet(visited)
    BY <2>5, <2>6 DEF FetchedSet
  <2>8. \A p \in Pkgs : Known(p)' => p \in visited
    BY <2>1, <2>5 DEF Known, Awaited
  <2>9. \E F \in SUBSET Pkgs : FetchedSet(F)' /\ \A p \in Pkgs : Known(p)' => p \in F
    <3>1. PICK F \in SUBSET Pkgs : F = visited
      BY <2>4
    <3>2. FetchedSet(F) /\ \A p \in Pkgs : Known(p)' => p \in F
      BY <2>7, <2>8, <3>1
    <3>3. QED
      BY <2>1, <3>2, FetchedSetStays
  <2>10. QED
    BY <2>1, <2>2, <2>9 DEF VisitInv, Fetching
<1>13. ASSUME Loaded PROVE VisitInv'
  BY <1>13, ReturnForgets DEF Loaded
<1>14. ASSUME Checked PROVE VisitInv'
  BY <1>14, NotVisiting, ReturnForgets DEF Checked
<1>15. ASSUME Swap PROVE VisitInv'
  BY <1>15, NotVisiting DEF Swap
<1>16. ASSUME Updated PROVE VisitInv'
  BY <1>16, ReturnForgets DEF Updated
<1>17. ASSUME NEW p \in Pkgs, Remove(p) PROVE VisitInv'
  <2>1. pc = "idle" /\ UNCHANGED <<pc, visited>>
    BY <1>17 DEF Remove, localVars
  <2>2. QED
    BY <2>1, IdleKeepsVisits
<1>18. ASSUME NEW p \in Pkgs, NEW v \in Versions \cup {NoDep}, EditConfig(p, v) PROVE VisitInv'
  <2>1. pc = "idle" /\ UNCHANGED <<pc, visited>>
    BY <1>18 DEF EditConfig, localVars
  <2>2. QED
    BY <2>1, IdleKeepsVisits
<1>19. ASSUME StartBuild PROVE VisitInv'
  <2>1. /\ pc = "idle" /\ pc' = "fetch" /\ todo' = Direct
        /\ UNCHANGED <<config, visited>>
    BY <1>19 DEF StartBuild, Start, inputVars
  <2>2. QED
    BY <2>1, DirectAwaited DEF VisitInv, Fetching
<1>20. ASSUME StartUpdate PROVE VisitInv'
  BY <1>20, NotVisiting DEF StartUpdate, Start
<1>21. ASSUME Clean PROVE VisitInv'
  <2>1. pc = "idle" /\ UNCHANGED <<pc, visited>>
    BY <1>21 DEF Clean, localVars
  <2>2. QED
    BY <2>1, IdleKeepsVisits
<1>22. ASSUME Checkout PROVE VisitInv'
  <2>1. pc = "idle" /\ UNCHANGED <<pc, visited>>
    BY <1>22 DEF Checkout, localVars
  <2>2. QED
    BY <2>1, IdleKeepsVisits
<1>23. ASSUME KilledAnywhere PROVE VisitInv'
  BY <1>23, ReturnForgets DEF KilledAnywhere, Kill
<1>24. ASSUME KilledInSave PROVE VisitInv'
  BY <1>24, ReturnForgets DEF KilledInSave, Kill
<1>25. ASSUME KilledInSwap PROVE VisitInv'
  BY <1>25, ReturnForgets DEF KilledInSwap, Kill
<1>26. ASSUME NEW d \in todo, KilledInClone(d) PROVE VisitInv'
  BY <1>26, ReturnForgets DEF KilledInClone, Kill
<1>27. CASE Remotes
  <2>1. UNCHANGED <<config, pkgs, pc, visited, todo, current, cmd>>
    BY <1>27 DEF Remotes, Push, localVars, diskVars
  <2>2. QED
    BY <2>1, VisitUnchanged
<1>28. CASE UNCHANGED vars
  BY <1>28, VisitUnchanged DEF vars, localVars, inputVars, diskVars
<1>29. QED
  BY <1>1, <1>2, <1>3, <1>4, <1>5, <1>6, <1>7, <1>8, <1>9, <1>10, <1>11, <1>12, <1>13, <1>14,
     <1>15, <1>16, <1>17, <1>18, <1>19, <1>20, <1>21, <1>22, <1>23, <1>24, <1>25, <1>26, <1>27, <1>28
     DEF Next, Spkg, Developer, Killed

------------------------------------------------------------------------------
\* What is in hand, noted and known, as FetchInv has it, in every state.
THEOREM FetchInvariant == Spec => [](TypeOK /\ FetchInv)
<1>1. Init => TypeOK /\ FetchInv
  BY TypeInit, LoopInit, LockInit, UpdateInit, VisitInit DEF FetchInv
<1>2. TypeOK /\ FetchInv /\ [Next]_vars => (TypeOK /\ FetchInv)'
  BY TypeStep, LoopStep, LockStep, UpdateStep, VisitStep DEF FetchInv
<1>3. QED
  BY <1>1, <1>2, PTL DEF Spec

\* Every variable keeps its type, whatever packages declare.
THEOREM TypeCorrect == Spec => []TypeOK
BY FetchInvariant, PTL

------------------------------------------------------------------------------
\* A build ends with success only in one of the ways of Loaded.
LEMMA CompleteStep ==
  ASSUME TypeOK, FetchInv, [Next]_vars, pc = "load", pc' = "idle", ok'
  PROVE  Closed
<1>1. Next
  BY DEF vars, localVars
<1>2. todo = {}
  <2>1. CASE Spkg
    BY <2>1 DEF Spkg, AlreadySeen, Cached, Cloned, Visit, Clone, CloneFails, Load, Check, Replace, Refetch,
       KeepPackage, UpdateFails, Updating, SaveOne, Fetched, Loaded, Checked, Swap, Updated, Return
  <2>2. CASE Developer
    BY <2>2 DEF Developer, Remove, EditConfig, StartBuild, StartUpdate, Start, Clean, Checkout
  <2>3. CASE Killed
    BY <2>3 DEF Killed, KilledAnywhere, KilledInSave, KilledInSwap, KilledInClone, Kill, Return
  <2>4. CASE Remotes
    BY <2>4 DEF Remotes, Push, localVars
  <2>5. QED
    BY <1>1, <2>1, <2>2, <2>3, <2>4 DEF Next
<1>3. \A p \in Pkgs : Known(p) <=> p \in visited
  BY <1>2 DEF Known, Awaited
<1>4. Direct \subseteq Deps /\ visited \subseteq Pkgs
  BY DirectType DEF TypeOK
<1>5. \A d \in Direct : d[1] \in visited
  BY <1>3, <1>4 DEF FetchInv, VisitInv, Deps
<1>6. ASSUME NEW q \in visited, NEW d \in Says(Declares, q)
      PROVE  d[1] \in visited
  <2>1. d[1] \in Pkgs /\ KnowsDeclaredBy(q)
    BY <1>4, SaysType DEF Deps, FetchInv, VisitInv
  <2>2. QED
    BY <1>3, <1>6, <2>1 DEF KnowsDeclaredBy
<1>7. (\A p \in visited : Discoverable(p)) => \A p \in visited : pkgs[p] # Missing
  BY <1>3, <1>4 DEF FetchInv, VisitInv, FetchedSet
<1>8. QED
  BY <1>5, <1>6, <1>7 DEF Closed

\* A build that gets past its dependencies has loaded every package that its own
\* configuration reaches, over circles of packages too; each is there, unless the
\* search of one of them missed what it declares.
THEOREM BuildIsCompleteHolds == Spec => BuildIsComplete
<1>1. TypeOK /\ FetchInv /\ [Next]_vars => [pc = "load" /\ pc' = "idle" /\ ok' => Closed]_vars
  BY CompleteStep
<1>2. QED
  BY <1>1, FetchInvariant, PTL DEF Spec, BuildIsComplete

------------------------------------------------------------------------------
\* The steps of a build that write Sharp.lock: save_one, and a kill in it.
LEMMA StableStep ==
  ASSUME TypeOK, FetchInv, [Next]_vars, cmd = "build", ~(pc = "save" /\ pc' = "idle"),
         NEW p \in Pkgs, lock[p] # NoEntry, lock[p].commit # Unknown
  PROVE  lock'[p] \in MayBecome(p)
<1>1. pc \notin {"idle", "check", "update", "swap"}
  BY DEF FetchInv, CommandOfLoop
<1>2. CASE Spkg
  <2>1. CASE SaveOne
    <3>1. lock' = [lock EXCEPT ![current[1]] = current[2]] /\ pc = "save"
      BY <2>1 DEF SaveOne
    <3>2. CASE p # current[1]
      BY <3>1, <3>2 DEF TypeOK, MayBecome
    <3>3. CASE p = current[1]
      <4>1. lock'[p] = current[2]
        BY <3>1, <3>3 DEF TypeOK
      <4>2. /\ lock[p] \in Entries /\ current[2] \in Entries
            /\ current[2].version = lock[p].version /\ current[2].version # Latest
            /\ current[2].commit \in {pkgs[p], Unknown} /\ Pointed(p, current[2])
        BY <3>1, <3>3 DEF FetchInv, LockInv, InHand, TypeOK
      <4>3. current[2].commit \in {Unknown} \cup ({pkgs[p]} \cap Targets[p][lock[p].version])
        BY <4>2 DEF Pointed
      <4>4. current[2] = [lock[p] EXCEPT !.commit = current[2].commit]
        BY <4>2 DEF Entries
      <4>5. QED
        BY <4>1, <4>3, <4>4 DEF MayBecome
    <3>4. QED
      BY <3>2, <3>3
  <2>2. CASE ~SaveOne
    BY <1>1, <1>2, <2>2 DEF Spkg, AlreadySeen, Cached, Cloned, Visit, Clone, CloneFails, Load, Check, Replace,
       Refetch, KeepPackage, UpdateFails, Updating, Fetched, Loaded, Checked, Swap, Updated, diskVars, MayBecome
  <2>3. QED
    BY <2>1, <2>2
<1>3. CASE Developer
  BY <1>1, <1>3 DEF Developer, Remove, EditConfig, StartBuild, StartUpdate, Start, Clean, Checkout
<1>4. CASE Killed
  BY <1>1, <1>4 DEF Killed, KilledAnywhere, KilledInSave, KilledInSwap, KilledInClone, Kill, Return, diskVars, MayBecome
<1>5. CASE Remotes
  BY <1>5 DEF Remotes, Push, diskVars, MayBecome
<1>6. CASE UNCHANGED vars
  BY <1>6 DEF vars, diskVars, MayBecome
<1>7. QED
  BY <1>2, <1>3, <1>4, <1>5, <1>6 DEF Next

\* No build changes the version of what is locked to a commit, nor that commit, but
\* to one the version's tag points to in the course of time.
THEOREM LockIsStableHolds == Spec => LockIsStable
<1>1. TypeOK /\ FetchInv /\ [Next]_vars =>
        [cmd = "build" /\ ~(pc = "save" /\ pc' = "idle") =>
           \A p \in Pkgs : lock[p] # NoEntry /\ lock[p].commit # Unknown
                             => lock'[p] \in MayBecome(p)]_vars
  BY StableStep
<1>2. QED
  BY <1>1, FetchInvariant, PTL DEF Spec, LockIsStable

------------------------------------------------------------------------------

\* What LockStaysTrue assumes of one package: true now, or about to be by a record
\* or a swap that is not cut short.
MayDiffer(p) == Truthful(p) \/ (Recording(p) /\ pc' # "idle")

LEMMA TruthStays ==
  ASSUME NEW p \in Pkgs, Truthful(p), UNCHANGED <<lock, pkgs>>
  PROVE  Truthful(p)'
BY DEF Truthful

LEMMA TruthStep ==
  ASSUME TypeOK, FetchInv, [Next]_vars, NEW q \in Pkgs, MayDiffer(q)
  PROVE  Truthful(q)' \/ Recording(q)'
<1>1. ASSUME NEW d \in Deps, AlreadySeen(d) PROVE Truthful(q)' \/ Recording(q)'
  <2>1. pc \notin {"save", "swap"} /\ UNCHANGED <<lock, pkgs>>
    BY <1>1 DEF AlreadySeen, diskVars
  <2>2. QED
    BY <2>1, TruthStays DEF Recording, MayDiffer
<1>2. ASSUME NEW d \in Deps, Cached(d) PROVE Truthful(q)' \/ Recording(q)'
  <2>1. pc \notin {"save", "swap"} /\ UNCHANGED <<lock, pkgs>>
    BY <1>2 DEF Cached, Visit, diskVars
  <2>2. QED
    BY <2>1, TruthStays DEF Recording, MayDiffer
<1>3. ASSUME NEW d \in Deps, Cloned(d) PROVE Truthful(q)' \/ Recording(q)'
  <2>1. PICK c : pkgs' = [pkgs EXCEPT ![d[1]] = c] /\ current'[1] = d[1]
    BY <1>3, CloneDoes DEF Cloned
  <2>2. pc \notin {"save", "swap"} /\ pc' = "save" /\ lock' = lock
    BY <1>3 DEF Cloned, Visit, Clone
  <2>3. q # d[1] => pkgs'[q] = pkgs[q]
    BY <2>1 DEF TypeOK
  <2>4. QED
    BY <2>1, <2>2, <2>3 DEF Truthful, Recording, MayDiffer
<1>4. ASSUME NEW d \in Deps, CloneFails(d) PROVE Truthful(q)' \/ Recording(q)'
  <2>1. pc \notin {"save", "swap"} /\ UNCHANGED <<lock, pkgs>>
    BY <1>4 DEF CloneFails, diskVars
  <2>2. QED
    BY <2>1, TruthStays DEF Recording, MayDiffer
<1>5. ASSUME NEW d \in Deps, Load(d) PROVE Truthful(q)' \/ Recording(q)'
  <2>1. pc \notin {"save", "swap"} /\ UNCHANGED <<lock, pkgs>>
    BY <1>5 DEF Load, diskVars
  <2>2. QED
    BY <2>1, TruthStays DEF Recording, MayDiffer
<1>6. ASSUME NEW d \in Deps, Check(d) PROVE Truthful(q)' \/ Recording(q)'
  <2>1. pc \notin {"save", "swap"} /\ UNCHANGED <<lock, pkgs>>
    BY <1>6 DEF Check, diskVars
  <2>2. QED
    BY <2>1, TruthStays DEF Recording, MayDiffer
<1>7. ASSUME NEW d \in Deps, Replace(d) PROVE Truthful(q)' \/ Recording(q)'
  <2>1. PICK e : lock' = [lock EXCEPT ![d[1]] = e] /\ current'[1] = d[1]
    BY <1>7, ReplaceDoes
  <2>2. pc \notin {"save", "swap"} /\ pc' = "swap" /\ pkgs' = pkgs
    BY <1>7 DEF Replace, Updating
  <2>3. q # d[1] => lock'[q] = lock[q]
    BY <2>1 DEF TypeOK
  <2>4. QED
    BY <2>1, <2>2, <2>3 DEF Truthful, Recording, MayDiffer
<1>8. ASSUME NEW d \in Deps, Refetch(d) PROVE Truthful(q)' \/ Recording(q)'
  <2>1. PICK c : pkgs' = [pkgs EXCEPT ![d[1]] = c] /\ current'[1] = d[1]
    BY <1>8, CloneDoes DEF Refetch
  <2>2. pc \notin {"save", "swap"} /\ pc' = "save" /\ lock' = lock
    BY <1>8 DEF Refetch, Updating, Clone
  <2>3. q # d[1] => pkgs'[q] = pkgs[q]
    BY <2>1 DEF TypeOK
  <2>4. QED
    BY <2>1, <2>2, <2>3 DEF Truthful, Recording, MayDiffer
<1>9. ASSUME NEW d \in Deps, KeepPackage(d) PROVE Truthful(q)' \/ Recording(q)'
  <2>1. pc \notin {"save", "swap"} /\ UNCHANGED <<lock, pkgs>>
    BY <1>9 DEF KeepPackage, Updating, diskVars
  <2>2. QED
    BY <2>1, TruthStays DEF Recording, MayDiffer
<1>10. ASSUME NEW d \in Deps, UpdateFails(d) PROVE Truthful(q)' \/ Recording(q)'
  <2>1. pc \notin {"save", "swap"} /\ UNCHANGED <<lock, pkgs>>
    BY <1>10 DEF UpdateFails, Updating, diskVars
  <2>2. QED
    BY <2>1, TruthStays DEF Recording, MayDiffer
<1>11. ASSUME SaveOne PROVE Truthful(q)' \/ Recording(q)'
  <2>1. /\ pc = "save" /\ pkgs' = pkgs
        /\ lock' = [lock EXCEPT ![current[1]] = current[2]]
        /\ current[2].commit \in {pkgs[current[1]], Unknown}
    BY <1>11 DEF SaveOne, FetchInv, LockInv, InHand
  <2>2. lock'[q] = IF q = current[1] THEN current[2] ELSE lock[q]
    BY <2>1 DEF TypeOK
  <2>3. QED
    BY <2>1, <2>2 DEF Truthful, Recording, MayDiffer
<1>12. ASSUME Fetched PROVE Truthful(q)' \/ Recording(q)'
  <2>1. pc \notin {"save", "swap"} /\ UNCHANGED <<lock, pkgs>>
    BY <1>12 DEF Fetched, diskVars
  <2>2. QED
    BY <2>1, TruthStays DEF Recording, MayDiffer
<1>13. ASSUME Loaded PROVE Truthful(q)' \/ Recording(q)'
  <2>1. pc \notin {"save", "swap"} /\ UNCHANGED <<lock, pkgs>>
    BY <1>13 DEF Loaded, diskVars
  <2>2. QED
    BY <2>1, TruthStays DEF Recording, MayDiffer
<1>14. ASSUME Checked PROVE Truthful(q)' \/ Recording(q)'
  <2>1. pc \notin {"save", "swap"} /\ UNCHANGED <<lock, pkgs>>
    BY <1>14 DEF Checked, diskVars
  <2>2. QED
    BY <2>1, TruthStays DEF Recording, MayDiffer
<1>15. ASSUME Swap PROVE Truthful(q)' \/ Recording(q)'
  <2>1. /\ pc = "swap" /\ lock' = lock /\ lock[current[1]] = current[2]
        /\ pkgs' = [pkgs EXCEPT ![current[1]] = current[3]]
        /\ current[2].commit \in {current[3], Unknown}
    BY <1>15 DEF Swap, FetchInv, LockInv, InHand
  <2>2. pkgs'[q] = IF q = current[1] THEN current[3] ELSE pkgs[q]
    BY <2>1 DEF TypeOK
  <2>3. QED
    BY <2>1, <2>2 DEF Truthful, Recording, MayDiffer
<1>16. ASSUME Updated PROVE Truthful(q)' \/ Recording(q)'
  <2>1. pc = "update" /\ cmd = "update" /\ lock' = updated /\ pkgs' = pkgs
    BY <1>16 DEF Updated, FetchInv, CommandOfLoop
  <2>2. \/ updated[q] = NoEntry \/ updated[q] = lock[q]
        \/ updated[q].commit \in {pkgs[q], Unknown}
    BY <2>1 DEF FetchInv, UpdateInv, Noted
  <2>3. QED
    BY <2>1, <2>2 DEF Truthful, Recording, MayDiffer
<1>17. ASSUME NEW p \in Pkgs, Remove(p) PROVE Truthful(q)' \/ Recording(q)'
  <2>1. /\ pc \notin {"save", "swap"} /\ lock' = lock
        /\ pkgs'[q] \in {pkgs[q], Missing}
    BY <1>17 DEF Remove, TypeOK
  <2>2. QED
    BY <2>1 DEF Truthful, Recording, MayDiffer
<1>18. ASSUME NEW p \in Pkgs, NEW v \in Versions \cup {NoDep}, EditConfig(p, v) PROVE Truthful(q)' \/ Recording(q)'
  <2>1. pc \notin {"save", "swap"} /\ UNCHANGED <<lock, pkgs>>
    BY <1>18 DEF EditConfig, diskVars
  <2>2. QED
    BY <2>1, TruthStays DEF Recording, MayDiffer
<1>19. ASSUME StartBuild PROVE Truthful(q)' \/ Recording(q)'
  <2>1. pc \notin {"save", "swap"} /\ UNCHANGED <<lock, pkgs>>
    BY <1>19 DEF StartBuild, Start, diskVars
  <2>2. QED
    BY <2>1, TruthStays DEF Recording, MayDiffer
<1>20. ASSUME StartUpdate PROVE Truthful(q)' \/ Recording(q)'
  <2>1. pc \notin {"save", "swap"} /\ UNCHANGED <<lock, pkgs>>
    BY <1>20 DEF StartUpdate, Start, diskVars
  <2>2. QED
    BY <2>1, TruthStays DEF Recording, MayDiffer
<1>21. ASSUME Clean PROVE Truthful(q)' \/ Recording(q)'
  BY <1>21 DEF Clean, Truthful, Recording, MayDiffer
<1>22. ASSUME Checkout PROVE Truthful(q)' \/ Recording(q)'
  <2>1. /\ pc \notin {"save", "swap"} /\ lock' = lock
        /\ pkgs'[q] \in {pkgs[q], Missing}
    BY <1>22 DEF Checkout, TypeOK
  <2>2. QED
    BY <2>1 DEF Truthful, Recording, MayDiffer
<1>23. ASSUME KilledAnywhere PROVE Truthful(q)' \/ Recording(q)'
  <2>1. pc' = "idle" /\ UNCHANGED <<lock, pkgs>>
    BY <1>23 DEF KilledAnywhere, Kill, Return, diskVars
  <2>2. QED
    BY <2>1, TruthStays DEF MayDiffer
<1>24. ASSUME KilledInSave PROVE Truthful(q)' \/ Recording(q)'
  BY <1>24 DEF KilledInSave, Truthful, MayDiffer
<1>25. ASSUME KilledInSwap PROVE Truthful(q)' \/ Recording(q)'
  <2>1. pc' = "idle" /\ lock' = lock /\ pkgs'[q] \in {pkgs[q], Missing}
    BY <1>25 DEF KilledInSwap, Kill, Return, TypeOK
  <2>2. QED
    BY <2>1 DEF Truthful, MayDiffer
<1>26. ASSUME NEW d \in todo, KilledInClone(d) PROVE Truthful(q)' \/ Recording(q)'
  <2>1. pc' = "idle" /\ lock' = lock /\ pkgs'[q] \in {pkgs[q], Partial}
    BY <1>26 DEF KilledInClone, Kill, Return, TypeOK
  <2>2. QED
    BY <2>1 DEF Truthful, MayDiffer
<1>27. CASE Remotes
  <2>1. UNCHANGED <<lock, pkgs, pc, current>>
    BY <1>27 DEF Remotes, Push, diskVars, localVars
  <2>2. QED
    BY <2>1 DEF Truthful, Recording, MayDiffer
<1>28. CASE UNCHANGED vars
  BY <1>28 DEF vars, localVars, diskVars, Truthful, Recording, MayDiffer
<1>29. QED
  BY <1>1, <1>2, <1>3, <1>4, <1>5, <1>6, <1>7, <1>8, <1>9, <1>10, <1>11, <1>12, <1>13, <1>14,
     <1>15, <1>16, <1>17, <1>18, <1>19, <1>20, <1>21, <1>22, <1>23, <1>24, <1>25, <1>26, <1>27, <1>28
     DEF Next, Spkg, Developer, Killed

\* What Sharp.lock says of an installed package stays true, over every sequence
\* of commands, edits, pushes and kills, for any packages.
THEOREM LockStaysTrueHolds == Spec => LockStaysTrue
<1>1. TypeOK /\ FetchInv /\ [Next]_vars =>
        [\A p \in Pkgs : Truthful(p) \/ (Recording(p) /\ pc' # "idle")
                           => Truthful(p)' \/ Recording(p)']_vars
  BY TruthStep DEF MayDiffer
<1>2. QED
  BY <1>1, FetchInvariant, PTL DEF Spec, LockStaysTrue


------------------------------------------------------------------------------
(* How far a command is from its end.  The two loops of a build go through the *)
(* declarations of what they visit, which visited keeps from going round in a  *)
(* circle; update_deps only takes up what config.spkg declares.                *)

ToVisit == Cardinality(Pkgs \ visited)
ToDo == Cardinality(todo)
Rank ==
    CASE pc = "fetch"                   -> <<4, ToVisit, 0, ToDo>>
      [] pc = "save" /\ cmd = "build"   -> <<4, ToVisit, 1, ToDo>>
      [] pc = "load"                    -> <<3, ToVisit, 0, ToDo>>
      [] pc = "check"                   -> <<2, ToDo, 0, 0>>
      [] pc = "update"                  -> <<1, ToDo, 0, 0>>
      [] pc = "swap"                    -> <<1, ToDo, 1, 0>>
      [] pc = "save" /\ cmd # "build"   -> <<1, ToDo, 1, 0>>
      [] pc = "idle"                    -> <<0, 0, 0, 0>>

LEMMA FiniteWork ==
  ASSUME IsFiniteSet(Pkgs), IsFiniteSet(Tags), TypeOK
  PROVE  /\ IsFiniteSet(todo) /\ ToDo \in Nat
         /\ IsFiniteSet(Pkgs \ visited) /\ ToVisit \in Nat
<1>1. IsFiniteSet(Versions)
  BY FS_AddElement DEF Versions
<1>2. IsFiniteSet(Pkgs \X Versions)
  BY <1>1, FS_Product
<1>3. IsFiniteSet(todo) /\ IsFiniteSet(Pkgs \ visited)
  BY <1>2, FS_Subset DEF TypeOK
<1>4. QED
  BY <1>3, FS_CardinalityType DEF ToDo, ToVisit

LEMMA RankType ==
  ASSUME IsFiniteSet(Pkgs), IsFiniteSet(Tags), TypeOK
  PROVE  Rank \in RankSet
<1>1. ToDo \in Nat /\ ToVisit \in Nat
  BY FiniteWork
<1>2. CASE pc = "save"
  BY <1>1, <1>2 DEF Rank, RankSet
<1>3. CASE pc # "save"
  BY <1>1, <1>3 DEF Rank, RankSet, TypeOK, PCs
<1>4. QED
  BY <1>2, <1>3

\* A dep is taken off the list.
LEMMA TakenLowers ==
  ASSUME IsFiniteSet(Pkgs), IsFiniteSet(Tags), TypeOK, NEW d \in todo, todo' = todo \ {d}
  PROVE  ToDo' < ToDo
BY FiniteWork, Fewer DEF ToDo

\* A package is visited for the first time.
LEMMA VisitLowers ==
  ASSUME IsFiniteSet(Pkgs), IsFiniteSet(Tags), TypeOK, NEW p \in Pkgs \ visited, visited' = visited \cup {p}
  PROVE  ToVisit' < ToVisit
<1>1. Pkgs \ visited' \subseteq Pkgs \ visited /\ p \notin Pkgs \ visited'
  OBVIOUS
<1>2. QED
  BY <1>1, FiniteWork, Fewer DEF ToVisit

LEMMA FetchLowers ==
  ASSUME IsFiniteSet(Pkgs), IsFiniteSet(Tags), TypeOK, CommandOfLoop, NEW d \in Deps,
         AlreadySeen(d) \/ Cached(d) \/ Cloned(d) \/ Load(d)
  PROVE  Lower(Rank', Rank)
<1>1. ToDo \in Nat /\ ToVisit \in Nat
  BY FiniteWork
<1>2. CASE AlreadySeen(d)
  <2>1. pc \in {"fetch", "load"} /\ UNCHANGED <<pc, visited>> /\ ToDo' < ToDo
    BY <1>2, TakenLowers DEF AlreadySeen
  <2>2. ToVisit' = ToVisit
    BY <2>1 DEF ToVisit
  <2>3. QED
    BY <2>1, <2>2 DEF Rank, Lower
<1>3. CASE Cached(d) \/ Cloned(d) \/ Load(d)
  <2>1. d[1] \in Pkgs \ visited /\ visited' = visited \cup {d[1]}
    BY <1>3 DEF Cached, Cloned, Load, Visit, Seen, Deps
  <2>2. ToVisit' < ToVisit
    BY <2>1, VisitLowers
  <2>3. CASE Cached(d)
    BY <2>2, <2>3 DEF Cached, Visit, Rank, Lower
  <2>4. CASE Cloned(d)
    <3>1. pc = "fetch" /\ pc' = "save" /\ cmd' = "build"
      BY <2>4 DEF Cloned, Clone, Visit, CommandOfLoop
    <3>2. QED
      BY <2>2, <3>1 DEF Rank, Lower
  <2>5. CASE Load(d)
    BY <2>2, <2>5 DEF Load, Rank, Lower
  <2>6. QED
    BY <1>3, <2>3, <2>4, <2>5
<1>4. QED
  BY <1>2, <1>3

LEMMA UpdateLowers ==
  ASSUME IsFiniteSet(Pkgs), IsFiniteSet(Tags), TypeOK, CommandOfLoop, NEW d \in Deps,
         Check(d) \/ Replace(d) \/ Refetch(d) \/ KeepPackage(d)
  PROVE  Lower(Rank', Rank)
<1>1. d \in todo /\ todo' = todo \ {d}
  BY DEF Check, Replace, Refetch, KeepPackage, Updating, Clone
<1>2. ToDo' < ToDo
  BY <1>1, TakenLowers
<1>3. \/ pc = "check" /\ pc' = "check"
      \/ pc = "update" /\ pc' \in {"update", "swap"}
      \/ pc = "update" /\ pc' = "save" /\ cmd' = "update"
  BY DEF Check, Replace, Refetch, KeepPackage, Updating, Clone, CommandOfLoop
<1>4. QED
  BY <1>2, <1>3 DEF Rank, Lower

LEMMA SaveLowers ==
  ASSUME IsFiniteSet(Pkgs), IsFiniteSet(Tags), TypeOK, CommandOfLoop, SaveOne \/ Swap
  PROVE  Lower(Rank', Rank)
<1>1. CASE SaveOne /\ cmd = "build"
  <2>1. pc = "save" /\ pc' = "fetch" /\ ToVisit' = ToVisit
    BY <1>1 DEF SaveOne, ToVisit
  <2>2. QED
    BY <1>1, <2>1 DEF Rank, Lower
<1>2. CASE SaveOne /\ cmd # "build"
  <2>1. pc = "save" /\ pc' = "update" /\ ToDo' = ToDo
    BY <1>2 DEF SaveOne, ToDo
  <2>2. QED
    BY <1>2, <2>1 DEF Rank, Lower
<1>3. CASE Swap
  <2>1. pc = "swap" /\ pc' = "update" /\ ToDo' = ToDo
    BY <1>3 DEF Swap, ToDo
  <2>2. QED
    BY <2>1 DEF Rank, Lower
<1>4. QED
  BY <1>1, <1>2, <1>3

\* The end of a loop, and of a command.
LEMMA EndLowers ==
  ASSUME TypeOK, CommandOfLoop,
         \/ Fetched \/ Loaded \/ Checked \/ Updated \/ Killed
         \/ \E d \in Deps : CloneFails(d) \/ UpdateFails(d)
  PROVE  Lower(Rank', Rank)
<1>1. CASE Fetched
  BY <1>1 DEF Fetched, Rank, Lower
<1>2. CASE Checked /\ hasUpdate
  BY <1>2 DEF Checked, Rank, Lower
<1>3. ASSUME pc # "idle", pc' = "idle" PROVE Lower(Rank', Rank)
  <2>1. Rank'[1] = 0 /\ Rank[1] \in {1, 2, 3, 4}
    <3>1. CASE pc = "save"
      BY <1>3, <3>1 DEF Rank
    <3>2. CASE pc # "save"
      BY <1>3, <3>2 DEF Rank, TypeOK, PCs
    <3>3. QED
      BY <3>1, <3>2
  <2>2. QED
    BY <2>1 DEF Lower
<1>4. CASE Killed
  <2>1. pc' = "idle" /\ cmd \in Commands
    BY <1>4 DEF Killed, KilledAnywhere, KilledInClone, KilledInSave, KilledInSwap, Kill,
       Return
  <2>2. QED
    BY <1>3, <2>1 DEF CommandOfLoop, Commands
<1>5. CASE Loaded \/ Updated \/ (Checked /\ ~hasUpdate)
           \/ \E d \in Deps : CloneFails(d) \/ UpdateFails(d)
  <2>1. pc # "idle" /\ pc' = "idle"
    BY <1>5 DEF Loaded, Updated, Checked, CloneFails, UpdateFails, Updating, Return
  <2>2. QED
    BY <1>3, <2>1
<1>6. QED
  BY <1>1, <1>2, <1>4, <1>5

LEMMA CommandLowers ==
  ASSUME IsFiniteSet(Pkgs), IsFiniteSet(Tags), TypeOK, CommandOfLoop, Spkg \/ Killed
  PROVE  Lower(Rank', Rank)
BY FetchLowers, UpdateLowers, SaveLowers, EndLowers DEF Spkg

\* What others do meanwhile.
LEMMA OthersKeep ==
  ASSUME pc # "idle", Next, ~(Spkg \/ Killed)
  PROVE  Rank' = Rank
<1>1. Remotes
  BY DEF Next, Developer, Remove, EditConfig, StartBuild, StartUpdate, Start, Clean, Checkout
<1>2. UNCHANGED <<pc, cmd, todo, visited>>
  BY <1>1 DEF Remotes, Push, localVars
<1>3. QED
  BY <1>2 DEF Rank, ToDo, ToVisit

\* No command goes on for ever, though packages may depend on each other in a circle:
\* each of its steps brings it closer to its end, and no push to a remote takes it back.
THEOREM CommandsAreFinite ==
  ASSUME IsFiniteSet(Pkgs), IsFiniteSet(Tags)
  PROVE  Spec => /\ [](Rank \in RankSet)
                 /\ [][Spkg \/ Killed => Lower(Rank', Rank)]_vars
                 /\ [][pc # "idle" /\ ~(Spkg \/ Killed) => Rank' = Rank]_vars
<1>1. TypeOK /\ FetchInv /\ [Next]_vars => [Spkg \/ Killed => Lower(Rank', Rank)]_vars
  BY CommandLowers DEF FetchInv
<1>2. [Next]_vars => [pc # "idle" /\ ~(Spkg \/ Killed) => Rank' = Rank]_vars
  BY OthersKeep
<1>3. TypeOK => Rank \in RankSet
  BY RankType
<1>4. QED
  BY <1>1, <1>2, <1>3, FetchInvariant, PTL DEF Spec
==============================================================================
