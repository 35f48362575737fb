-------------------------- MODULE BuildGraph_proofs --------------------------
(*************************************************************************)
(* Proofs about BuildGraph, for any declarations: the build order puts   *)
(* every dependency first and drops nothing but cycles, and a build that *)
(* succeeds is current.                                                  *)
(*************************************************************************)
EXTENDS BuildGraph, TLAPS, FiniteSetTheorems, Ranks

USE BoundsAssumption

\* TypeOK without the sign of in_degree, which depends on the sort's invariant.
BaseType ==
    /\ config \in Configs
    /\ file \in [Files -> Nat] /\ clock \in Nat
    /\ object \in [Files -> Nat]
    /\ product \in [Artifacts -> [Files -> Nat] \cup {None}]
    /\ command \in {"none", "build", "run", "test"}
    /\ pc \in {"idle", "config", "seed", "sort", "custom", "compile", "link",
               "test", "run", "done"}
    /\ ok \in BOOLEAN /\ settled \in BOOLEAN
    /\ list \in Seq(Artifacts) /\ queue \in Seq(Artifacts)
    /\ degree \in [Artifacts -> Int]
    /\ head \in Nat \ {0} /\ at \in Nat \ {0}
    /\ todo \subseteq Edges
    /\ tasks \in [Artifacts -> SUBSET Files]

LEMMA ConfigType ==
  ASSUME config \in Configs
  PROVE  /\ config.type \in [Artifacts -> Types]
         /\ config.sources \in [Artifacts -> SUBSET Files]
         /\ config.deps \in [Artifacts -> Seq(Artifacts)]
         /\ config.install \in Seq(Artifacts) /\ config.tests \in Seq(Artifacts)
         /\ config.packaged \in Seq(Artifacts) /\ Installed \in Seq(Artifacts)
         /\ config.steps \in Seq([ins : SUBSET Files, outs : SUBSET Files])
         /\ IsInjective(Installed)
         /\ \A t \in Range(config.tests) : config.type[t] = "exe"
         /\ \A a, b \in Artifacts :
                a # b => config.sources[a] \cap config.sources[b] = {}
<1>1. config \in Config
  BY ConfigsAssumption
<1>2. config.install \in Seq(Artifacts) /\ config.packaged \in Seq(Artifacts)
  BY <1>1 DEF Config
<1>3. Installed \in Seq(Artifacts)
  BY <1>2 DEF Installed
<1>4. QED
  BY <1>1, <1>3, ConfigsAssumption DEF Config, Installed

LEMMA EdgeType ==
  ASSUME config \in Configs, NEW l \in Seq(Artifacts), NEW e \in EdgesOf(l)
  PROVE  /\ e = <<e[1], e[2]>> /\ e[1] \in DOMAIN l
         /\ l[e[1]] \in Artifacts /\ config.deps[l[e[1]]] \in Seq(Artifacts)
         /\ e[2] \in DOMAIN config.deps[l[e[1]]]
         /\ config.deps[l[e[1]]][e[2]] \in Artifacts \cap Range(l)
BY ConfigType DEF EdgesOf

LEMMA EdgesFinite ==
  ASSUME config \in Configs, NEW l \in Seq(Artifacts)
  PROVE  IsFiniteSet(EdgesOf(l))
<1> DEFINE Of(i) == {i} \X DOMAIN config.deps[l[i]]
           All   == UNION {Of(i) : i \in DOMAIN l}
<1>1. IsFiniteSet(DOMAIN l) /\ DOMAIN l = 1 .. Len(l)
  BY FS_Interval
<1>2. ASSUME NEW i \in DOMAIN l PROVE IsFiniteSet(Of(i))
  <2>1. config.deps[l[i]] \in Seq(Artifacts)
    BY ConfigType
  <2>2. IsFiniteSet(DOMAIN config.deps[l[i]])
    BY <2>1, FS_Interval
  <2>3. QED
    BY <2>2, FS_Singleton, FS_Product
<1>3. IsFiniteSet({Of(i) : i \in DOMAIN l})
  <2> DEFINE T == {Of(i) : i \in DOMAIN l}
             g == [i \in DOMAIN l |-> Of(i)]
  <2>1. g \in Surjection(DOMAIN l, T)
    BY DEF Surjection
  <2> HIDE DEF g, T
  <2>2. IsFiniteSet(T)
    BY <1>1, <2>1, FS_Surjection
  <2>3. QED
    BY <2>2 DEF T
<1>4. IsFiniteSet(All)
  BY <1>2, <1>3, FS_UNION
<1>5. QED
  BY <1>4, FS_Subset DEF EdgesOf

-----------------------------------------------------------------------------
(* Types.                                                                *)

\* What linking an artifact puts into its product is a time for each file.
LEMMA OutputType ==
  ASSUME BaseType, NEW a \in Artifacts, Linkable(a)
  PROVE  Output(a) \in [Files -> Nat]
<1>1. SUFFICES ASSUME NEW f \in Files, f \notin tasks[a],
                      f \in AllSources(a) \ config.sources[a]
               PROVE  product[CHOOSE d \in StaticDeps(a) : f \in config.sources[d]][f] \in Nat
  BY DEF Output, BaseType
<1>2. /\ config.type[a] # "staticlib"
      /\ \E d \in StaticDeps(a) : f \in config.sources[d]
  BY <1>1 DEF AllSources
<1>3. PICK d \in StaticDeps(a) :
            d = CHOOSE x \in StaticDeps(a) : f \in config.sources[x]
  BY <1>2
<1>4. d \in Artifacts /\ product[d] # None
  BY <1>2 DEF StaticDeps, Linked, LinkedIn, Linkable
<1>5. product[d][f] \in Nat
  BY <1>4 DEF BaseType
<1>6. QED
  BY <1>3, <1>5

LEMMA TypeInit == Init => BaseType
<1> SUFFICES ASSUME Init PROVE BaseType
  OBVIOUS
<1> USE DEF Init, Idle
<1>1. file \in [Files -> Nat] /\ object \in [Files -> Nat]
  BY ONLY Init DEF Init
<1>2. product \in [Artifacts -> [Files -> Nat] \cup {None}]
  BY ONLY Init DEF Init
<1>3. degree \in [Artifacts -> Int] /\ tasks \in [Artifacts -> SUBSET Files]
  BY ONLY Init DEF Init, Idle
<1>4. list \in Seq(Artifacts) /\ queue \in Seq(Artifacts)
  BY ONLY Init DEF Init, Idle
<1>5. head \in Nat \ {0} /\ at \in Nat \ {0} /\ clock \in Nat
  OBVIOUS
<1>6. ok \in BOOLEAN /\ settled \in BOOLEAN /\ todo \subseteq Edges
  BY Zenon
<1>7. QED
  BY Zenon, <1>1, <1>2, <1>3, <1>4, <1>5, <1>6 DEF BaseType

LEMMA ExitType ==
  ASSUME BaseType, Exit, config' = config
  PROVE  /\ command' \in {"none", "build", "run", "test"}
         /\ pc' = "idle" /\ ok' \in BOOLEAN
         /\ list' \in Seq(Artifacts) /\ queue' \in Seq(Artifacts)
         /\ degree' \in [Artifacts -> Int]
         /\ head' \in Nat \ {0} /\ at' \in Nat \ {0}
         /\ todo' \subseteq Edges'
         /\ tasks' \in [Artifacts -> SUBSET Files]
<1>1. degree' \in [Artifacts -> Int] /\ tasks' \in [Artifacts -> SUBSET Files]
  BY ONLY Exit DEF Exit
<1>2. list' \in Seq(Artifacts) /\ queue' \in Seq(Artifacts)
  BY ONLY Exit DEF Exit
<1>3. head' \in Nat \ {0} /\ at' \in Nat \ {0}
  BY DEF Exit
<1>4. ok' \in BOOLEAN /\ pc' = "idle" /\ todo' \subseteq Edges'
  BY Zenon DEF Exit
<1>5. command' \in {"none", "build", "run", "test"}
  BY DEF Exit
<1>6. QED
  BY Zenon, <1>1, <1>2, <1>3, <1>4, <1>5

\* The position of the loop is that of an artifact.
LEMMA CurrentType ==
  ASSUME BaseType, AtArtifact
  PROVE  at \in DOMAIN queue /\ Current \in Artifacts /\ tasks[Current] \subseteq Files
BY DEF BaseType, AtArtifact, Current

LEMMA WriteType ==
  ASSUME BaseType, NEW outs, Write(outs)
  PROVE  file' \in [Files -> Nat] /\ clock' \in Nat
BY DEF BaseType, Write

LEMMA CompiledType ==
  ASSUME BaseType, NEW fs, Compiled(fs)
  PROVE  object' \in [Files -> Nat]
BY DEF BaseType, Compiled

LEMMA FlagsType ==
  ASSUME BaseType, Next
  PROVE  ok' \in BOOLEAN /\ settled' \in BOOLEAN
<1>1. ok \in BOOLEAN /\ settled \in BOOLEAN
  BY Zenon DEF BaseType
<1>2. ok' \in {ok, TRUE, FALSE}
  <2>1. CASE Edit \/ Start
    BY <2>1, Zenon DEF Edit, Start
  <2>2. CASE Kill
    BY <2>2, Zenon DEF Kill, Exit
  <2>3. CASE Return \/ ConfigFails \/ NoTests \/ SortStart \/ Seed \/ Seeded
                \/ Pop \/ Decrement \/ Resolve
    BY <2>3, Zenon DEF Return, Exit, ConfigFails, NoTests, SortStart, Seed,
       Seeded, Pop, Decrement, Resolve, Finish
  <2>4. CASE SkipStep \/ RunStep \/ StepFails \/ StepsDone \/ PassOver \/ Compile
                \/ CompileFails \/ LinkNothing \/ Link \/ LinkFails
    BY <2>4, Zenon DEF SkipStep, RunStep, StepFails, StepsDone, PassOver, Compile,
       CompileFails, LinkNothing, Link, LinkFails, Finish
  <2>5. CASE RunTest \/ TestFails \/ LoopDone \/ RunFirst
    BY <2>5, Zenon DEF RunTest, TestFails, LoopDone, RunFirst, Finish
  <2>6. QED
    BY <2>1, <2>2, <2>3, <2>4, <2>5, Zenon DEF Next, CommandStep
<1>3. settled' \in BOOLEAN
  <2>1. CASE LoopDone
    BY <2>1, <1>1, Zenon DEF LoopDone
  <2>2. CASE Edit
    BY <2>2, Zenon DEF Edit
  <2>3. CASE Next /\ ~LoopDone /\ ~Edit
    <3>1. settled' = settled
      BY <2>3, Zenon DEF Next, CommandStep, Start, Kill, Return, ConfigFails, NoTests,
         SortStart, Seed, Seeded, Pop, Decrement, Resolve, SkipStep, RunStep,
         StepFails, StepsDone, PassOver, Compile, CompileFails, LinkNothing, Link,
         LinkFails, RunTest, TestFails, RunFirst
    <3>2. QED
      BY <3>1, <1>1, Zenon
  <2>4. QED
    BY <2>1, <2>2, <2>3, Zenon
<1>4. QED
  BY <1>1, <1>2, <1>3, Zenon

\* What a step that leaves the sort alone owes.
LEMMA TypeWithoutSort ==
  ASSUME BaseType, Next, UNCHANGED <<config, sortVars>>,
         file' \in [Files -> Nat], clock' \in Nat, object' \in [Files -> Nat],
         product' \in [Artifacts -> [Files -> Nat] \cup {None}],
         command' \in {"none", "build", "run", "test"},
         pc' \in {"idle", "config", "seed", "sort", "custom", "compile", "link",
                  "test", "run", "done"},
         at' \in Nat \ {0}, tasks' \in [Artifacts -> SUBSET Files]
  PROVE  BaseType'
<1>1. Edges' = Edges
  BY DEF sortVars, Edges, EdgesOf
<1>2. QED
  BY <1>1, FlagsType DEF BaseType, sortVars

LEMMA TypeStep == BaseType /\ [Next]_vars => BaseType'
<1> SUFFICES ASSUME BaseType, [Next]_vars PROVE BaseType'
  OBVIOUS
<1> DEFINE PCs == {"idle", "config", "seed", "sort", "custom", "compile", "link",
                   "test", "run", "done"}
           Disk == /\ file' \in [Files -> Nat] /\ clock' \in Nat
                   /\ object' \in [Files -> Nat]
                   /\ product' \in [Artifacts -> [Files -> Nat] \cup {None}]
           Loop == at' \in Nat \ {0} /\ tasks' \in [Artifacts -> SUBSET Files]
           Where == command' \in {"none", "build", "run", "test"} /\ pc' \in PCs
<1>0. ASSUME UNCHANGED diskVars PROVE Disk
  BY <1>0 DEF diskVars, BaseType
<1>1. ASSUME UNCHANGED <<config, sortVars>>, Next, Disk, Where, Loop PROVE BaseType'
  BY <1>1, TypeWithoutSort
<1>2. CASE Exit /\ UNCHANGED config /\ Disk /\ Next
  BY <1>2, ExitType, FlagsType DEF BaseType
<1>3. CASE UNCHANGED vars
  BY <1>3 DEF vars, BaseType, Edges, EdgesOf
<1>4. CASE Edit
  <2>1. Disk
    <3>1. PICK f : file' = [file EXCEPT ![f] = clock + 1]
      BY <1>4 DEF Edit
    <3>2. file' \in [Files -> Nat]
      <4>1. file \in [Files -> Nat] /\ clock + 1 \in Nat
        BY DEF BaseType
      <4>2. file' = [x \in Files |-> IF x = f THEN clock + 1 ELSE file[x]]
        BY <3>1, <4>1
      <4>3. QED
        BY <4>1, <4>2
    <3>3. QED
      BY <1>4, <3>2 DEF Edit, BaseType
  <2>2. QED
    BY <1>4, <2>1, <1>1 DEF Edit, BaseType, Next, loopVars
<1>5. CASE Start \/ ConfigFails \/ NoTests \/ TestFails \/ LoopDone \/ RunFirst
  <2>1. UNCHANGED <<config, diskVars, sortVars, loopVars>>
    BY <1>5 DEF Start, ConfigFails, NoTests, TestFails, LoopDone, RunFirst
  <2>2. Where
    BY <1>5 DEF Start, ConfigFails, NoTests, TestFails, LoopDone, RunFirst,
                Finish, BaseType
  <2>3. QED
    BY <2>1, <2>2, <1>0, <1>1, <1>5 DEF Next, CommandStep, BaseType, loopVars
<1>6. CASE Return
  BY <1>0, <1>2, <1>6 DEF Return, Next, CommandStep
<1>7. CASE SortStart
  <2>1. /\ config.install \in Seq(Artifacts) /\ config.tests \in Seq(Artifacts)
        /\ Installed \in Seq(Artifacts)
    BY ConfigType DEF BaseType
  <2>2. AllArtifacts \in Seq(Artifacts)
    BY <2>1 DEF AllArtifacts
  <2>3. list' \in Seq(Artifacts) /\ list' = AllArtifacts
    BY <1>7, <2>2 DEF SortStart
  <2>4. ASSUME NEW a \in Artifacts
        PROVE  Cardinality({e \in EdgesOf(AllArtifacts) : AllArtifacts[e[1]] = a}) \in Int
    <3>1. IsFiniteSet({e \in EdgesOf(AllArtifacts) : AllArtifacts[e[1]] = a})
      BY <2>2, EdgesFinite, FS_Subset DEF BaseType
    <3>2. QED
      BY <3>1, FS_CardinalityType
  <2>5. degree' \in [Artifacts -> Int]
    BY <2>4, <1>7 DEF SortStart
  <2>6. Disk
    BY <1>7, <1>0 DEF SortStart
  <2>7. QED
    BY <1>7, <2>3, <2>5, <2>6, FlagsType DEF SortStart, Next, CommandStep, BaseType
<1>8. CASE Seed
  <2>1. at \in DOMAIN list
    BY <1>8 DEF Seed, BaseType
  <2>2. queue' \in Seq(Artifacts)
    BY <1>8, <2>1 DEF Seed, BaseType
  <2>3. Edges' = Edges /\ Disk
    BY <1>8, <1>0 DEF Seed, Edges, EdgesOf
  <2>4. QED
    BY <1>8, <2>2, <2>3, FlagsType DEF Seed, BaseType, Next, CommandStep
<1>9. CASE Seeded \/ StepsDone
  <2>1. UNCHANGED <<config, diskVars, sortVars, tasks>>
    BY <1>9 DEF Seeded, StepsDone, loopVars
  <2>2. Where /\ at' \in Nat \ {0}
    BY <1>9 DEF Seeded, StepsDone, BaseType, loopVars
  <2>3. QED
    BY <2>1, <2>2, <1>0, <1>1, <1>9 DEF Next, CommandStep, BaseType
<1>10. CASE Pop
  <2>1. Edges' = Edges /\ Disk
    BY <1>10, <1>0 DEF Pop, Edges, EdgesOf
  <2>2. QED
    BY <1>10, <2>1, FlagsType DEF Pop, BaseType, Next, CommandStep, loopVars
<1>11. CASE Decrement
  <2>1. PICK e \in todo :
            /\ todo' = todo \ {e}
            /\ degree' = [degree EXCEPT ![To(e)] = @ - 1]
            /\ queue' = IF degree'[To(e)] = 0 THEN Append(queue, To(e)) ELSE queue
    BY <1>11 DEF Decrement
  <2>2. To(e) \in Artifacts
    BY EdgeType DEF BaseType, Edges, To
  <2>3. degree' \in [Artifacts -> Int] /\ queue' \in Seq(Artifacts)
    BY <2>1, <2>2 DEF BaseType
  <2>4. Edges' = Edges /\ Disk
    BY <1>11, <1>0 DEF Decrement, Edges, EdgesOf
  <2>5. UNCHANGED <<config, command, pc, ok, list, head, tasks, at, settled>>
    BY <1>11 DEF Decrement, loopVars
  <2>6. todo' \subseteq Edges'
    BY <2>1, <2>4 DEF BaseType
  <2>7. QED
    BY <2>3, <2>4, <2>5, <2>6 DEF BaseType
<1>12. CASE Resolve
  <2>1. tasks' \in [Artifacts -> SUBSET Files]
    BY <1>12, ConfigType DEF Resolve, BaseType
  <2>2. QED
    BY <1>0, <1>1, <1>12, <2>1 DEF Resolve, BaseType, Next, CommandStep
<1>13. CASE SkipStep \/ PassOver \/ RunTest \/ LinkNothing
  <2>1. UNCHANGED <<config, diskVars, sortVars, tasks>>
    BY <1>13 DEF SkipStep, PassOver, RunTest, LinkNothing
  <2>2. Where /\ at' \in Nat \ {0}
    BY <1>13 DEF SkipStep, PassOver, RunTest, LinkNothing, AfterLink, BaseType
  <2>3. QED
    BY <2>1, <2>2, <1>0, <1>1, <1>13 DEF Next, CommandStep, BaseType
<1>14. CASE RunStep \/ StepFails
  <2>1. /\ \E outs : Write(outs)
        /\ UNCHANGED <<config, object, product, sortVars, tasks>>
    BY <1>14 DEF RunStep, StepFails, PartialWrite, loopVars
  <2>2. Disk
    BY <2>1, WriteType DEF BaseType
  <2>3. Where /\ at' \in Nat \ {0}
    BY <1>14 DEF RunStep, StepFails, Finish, loopVars, BaseType
  <2>4. QED
    BY <2>1, <2>2, <2>3, <1>1, <1>14 DEF Next, CommandStep, BaseType
<1>15. CASE Compile \/ CompileFails
  <2>1. /\ \E fs : Compiled(fs)
        /\ UNCHANGED <<config, file, clock, product, sortVars, loopVars>>
    BY <1>15 DEF Compile, CompileFails
  <2>2. Disk
    BY <2>1, CompiledType DEF BaseType
  <2>3. Where
    BY <1>15 DEF Compile, CompileFails, Finish, BaseType
  <2>4. QED
    BY <2>1, <2>2, <2>3, <1>1, <1>15 DEF Next, CommandStep, BaseType, loopVars
<1>16. CASE Link
  <2>1. Output(Current) \in [Files -> Nat] \/ Current \notin Artifacts
    BY <1>16, OutputType DEF Link
  <2>2. Disk
    BY <2>1, <1>16 DEF Link, BaseType
  <2>3. Where /\ at' \in Nat \ {0}
    BY <1>16 DEF Link, AfterLink, BaseType
  <2>4. QED
    BY <2>2, <2>3, <1>1, <1>16 DEF Link, Next, CommandStep, BaseType
<1>17. CASE LinkFails
  <2>1. PICK p \in {product[Current], None} : product' = [product EXCEPT ![Current] = p]
    BY <1>17 DEF LinkFails
  <2>2. Disk
    BY <2>1, <1>17 DEF LinkFails, BaseType
  <2>3. QED
    BY <2>2, <1>1, <1>17 DEF LinkFails, Finish, Next, CommandStep, BaseType, loopVars
<1>18. CASE Kill
  <2>1. Disk
    <3>1. CASE UNCHANGED diskVars
      BY <3>1, <1>0
    <3>2. CASE PartialWrite /\ UNCHANGED <<object, product>>
      BY <3>2, WriteType DEF PartialWrite, BaseType
    <3>3. CASE (\E fs \in SUBSET Pending : Compiled(fs)) /\ UNCHANGED <<file, clock, product>>
      BY <3>3, CompiledType DEF BaseType
    <3>4. CASE /\ product' = [product EXCEPT ![Current] = None]
               /\ UNCHANGED <<file, clock, object>>
      BY <3>4 DEF BaseType
    <3>5. QED
      BY <3>1, <3>2, <3>3, <3>4, <1>18 DEF Kill
  <2>2. QED
    BY <2>1, <1>2, <1>18 DEF Kill, Next
<1>19. QED
  BY <1>3, <1>4, <1>5, <1>6, <1>7, <1>8, <1>9, <1>10, <1>11, <1>12, <1>13, <1>14,
     <1>15, <1>16, <1>17, <1>18 DEF Next, CommandStep

-----------------------------------------------------------------------------
(* Kahn's algorithm.  `Undone` are the dependencies not yet counted down: those *)
(* on artifacts not yet popped, and the rest of reverse_deps of the last one.   *)

Popped  == {queue[k] : k \in 1 .. head - 1}
Undone  == {e \in Edges : From(e) \notin Popped} \cup todo
Into(a) == {e \in Undone : To(e) = a}

Ordered ==
    \A k \in DOMAIN queue : \A e \in Edges :
        To(e) = queue[k] => \E m \in 1 .. k - 1 : queue[m] = From(e)

\* in_degree counts the undone dependencies, and none leads to a queued artifact.
IsLinked(a) == \E e \in Edges : From(e) = a
SortedSoFar ==
    /\ \A k, m \in DOMAIN queue : queue[k] = queue[m] /\ IsLinked(queue[k]) => k = m
    /\ IsInjective(list) => IsInjective(queue)
    /\ \A a \in Artifacts : degree[a] = Cardinality(Into(a))
    /\ \A k \in DOMAIN queue : Into(queue[k]) = {}
    /\ \A e \in todo : From(e) \in Popped
    /\ Ordered

Seeding ==
    /\ head = 1 /\ todo = {}
    /\ \A k \in DOMAIN queue : \E i \in DOMAIN list : i < at /\ queue[k] = list[i]

\* What has no undone dependency is queued, as far as the seeding has come.
Queued ==
    \A i \in DOMAIN list :
        (pc = "seed" => i < at) /\ Into(list[i]) = {} => list[i] \in Range(queue)

SortInv ==
    /\ head <= Len(queue) + 1
    /\ pc = "seed" => Seeding
    /\ LinksListedOnce => SortedSoFar /\ Queued
    /\ Sorted => todo = {} /\ head > Len(queue)

LEMMA AppendFacts ==
  ASSUME NEW S, NEW s \in Seq(S), NEW x \in S
  PROVE  /\ Append(s, x) \in Seq(S) /\ Len(Append(s, x)) = Len(s) + 1
         /\ DOMAIN s = 1 .. Len(s) /\ DOMAIN Append(s, x) = 1 .. Len(s) + 1
         /\ \A k \in 1 .. Len(s) : Append(s, x)[k] = s[k]
         /\ Append(s, x)[Len(s) + 1] = x
OBVIOUS

LEMMA AppendRange ==
  ASSUME NEW S, NEW s \in Seq(S), NEW x \in S
  PROVE  Range(Append(s, x)) = Range(s) \cup {x}
<1>1. Range(s) \subseteq Range(Append(s, x))
  BY AppendFacts DEF Range
<1>2. x \in Range(Append(s, x))
  <2>1. Len(s) + 1 \in DOMAIN Append(s, x)
    BY AppendFacts
  <2>2. QED
    BY <2>1, AppendFacts DEF Range
<1>3. ASSUME NEW k \in DOMAIN Append(s, x) PROVE Append(s, x)[k] \in Range(s) \cup {x}
  <2>1. CASE k = Len(s) + 1
    BY <2>1, AppendFacts
  <2>2. CASE k # Len(s) + 1
    <3>1. k \in DOMAIN s /\ Append(s, x)[k] = s[k]
      BY <1>3, <2>2, AppendFacts
    <3>2. QED
      BY <3>1 DEF Range
  <2>3. QED
    BY <2>1, <2>2
<1>4. Range(Append(s, x)) \subseteq Range(s) \cup {x}
  BY <1>3 DEF Range
<1>5. QED
  BY <1>1, <1>2, <1>4

LEMMA ConcatRange ==
  ASSUME NEW S, NEW s \in Seq(S), NEW t \in Seq(S)
  PROVE  Range(s \o t) = Range(s) \cup Range(t)
<1>1. ASSUME NEW k \in DOMAIN (s \o t) PROVE (s \o t)[k] \in Range(s) \cup Range(t)
  <2>1. k \in 1 .. Len(s) + Len(t)
    OBVIOUS
  <2>2. CASE k <= Len(s)
    <3>1. k \in DOMAIN s /\ (s \o t)[k] = s[k]
      BY <2>1, <2>2
    <3>2. QED
      BY <3>1 DEF Range
  <2>3. CASE k > Len(s)
    <3>1. k - Len(s) \in DOMAIN t /\ (s \o t)[k] = t[k - Len(s)]
      BY <2>1, <2>3
    <3>2. QED
      BY <3>1 DEF Range
  <2>4. QED
    BY <2>1, <2>2, <2>3
<1>2. ASSUME NEW k \in DOMAIN s PROVE s[k] \in Range(s \o t)
  <2>1. k \in DOMAIN (s \o t) /\ (s \o t)[k] = s[k]
    OBVIOUS
  <2>2. QED
    BY <2>1 DEF Range
<1>3. ASSUME NEW k \in DOMAIN t PROVE t[k] \in Range(s \o t)
  <2>1. Len(s) + k \in DOMAIN (s \o t) /\ (s \o t)[Len(s) + k] = t[k]
    OBVIOUS
  <2>2. QED
    BY <2>1 DEF Range
<1>4. QED
  BY <1>1, <1>2, <1>3 DEF Range

LEMMA AppendInjective ==
  ASSUME NEW S, NEW s \in Seq(S), NEW x \in S, IsInjective(s),
         \A k \in DOMAIN s : s[k] # x
  PROVE  IsInjective(Append(s, x))
BY AppendFacts DEF IsInjective

\* What holds of a list without repetitions, as that of `spkg build` is.
LEMMA InjectiveLists ==
  ASSUME config \in Configs, list \in Seq(Artifacts), IsInjective(list)
  PROVE  LinksListedOnce
BY DEF LinksListedOnce, ListedOnce, IsInjective

LEMMA IntoFinite ==
  ASSUME BaseType, NEW a
  PROVE  IsFiniteSet(Undone) /\ IsFiniteSet(Into(a))
<1>1. Undone \subseteq Edges
  BY DEF Undone, BaseType
<1>2. IsFiniteSet(Edges)
  BY EdgesFinite DEF BaseType, Edges
<1>3. QED
  BY <1>1, <1>2, FS_Subset DEF Into

LEMMA SortInit == Init => SortInv
<1> SUFFICES ASSUME Init PROVE SortInv
  OBVIOUS
<1>1. list = <<>> /\ queue = <<>> /\ todo = {} /\ head = 1 /\ pc = "idle"
  BY DEF Init, Idle
<1>2. Edges = {} /\ DOMAIN queue = {}
  BY <1>1 DEF Edges, EdgesOf
<1>3. ASSUME NEW a \in Artifacts PROVE degree[a] = Cardinality(Into(a))
  <2>1. Into(a) = {}
    BY <1>1, <1>2 DEF Into, Undone
  <2>2. QED
    BY <2>1, FS_EmptySet DEF Init, Idle
<1>4. QED
  BY <1>1, <1>2, <1>3 DEF SortInv, SortedSoFar, Queued, Ordered, IsInjective, Sorted

\* The process ends, and the next one starts with nothing.
LEMMA SortExit == Exit => SortInv'
<1> SUFFICES ASSUME Exit PROVE SortInv'
  OBVIOUS
<1>1. list' = <<>> /\ queue' = <<>> /\ todo' = {} /\ head' = 1 /\ pc' = "idle"
  BY DEF Exit
<1>2. Edges' = {} /\ DOMAIN queue' = {}
  BY <1>1 DEF Edges, EdgesOf
<1>3. ASSUME NEW a \in Artifacts PROVE degree'[a] = Cardinality(Into(a)')
  <2>1. Into(a)' = {}
    BY <1>1, <1>2 DEF Into, Undone
  <2>2. QED
    BY <2>1, FS_EmptySet DEF Exit
<1>4. QED
  BY <1>1, <1>2, <1>3 DEF SortInv, SortedSoFar, Queued, Ordered, IsInjective, Sorted

\* Whatever leaves the sort's variables alone keeps its invariant.
LEMMA SortedUnchanged ==
  ASSUME UNCHANGED <<config, sortVars>>
  PROVE  /\ LinksListedOnce' => LinksListedOnce
         /\ SortedSoFar => SortedSoFar'
         /\ \A a : Into(a)' = Into(a)
<1>1. /\ config' = config /\ list' = list /\ queue' = queue /\ degree' = degree
      /\ todo' = todo /\ head' = head /\ Edges' = Edges
  BY DEF sortVars, Edges, EdgesOf
<1>2. Popped' = Popped /\ \A e : From(e)' = From(e)
  BY <1>1 DEF Popped, From
<1>3. Undone' = Undone
  BY <1>1, <1>2 DEF Undone
<1>4. \A a : Into(a)' = Into(a)
  BY <1>1, <1>3 DEF Into, To
<1>5. Ordered => Ordered'
  BY <1>1 DEF Ordered, From, To
<1>6. \A a : IsLinked(a)' <=> IsLinked(a)
  BY <1>1, <1>2 DEF IsLinked
<1>7. SortedSoFar => SortedSoFar'
  BY <1>1, <1>2, <1>4, <1>5, <1>6 DEF SortedSoFar
<1>8. LinksListedOnce' => LinksListedOnce
  BY <1>1, <1>2 DEF LinksListedOnce, ListedOnce
<1>9. QED
  BY <1>4, <1>7, <1>8

LEMMA SortUnchanged ==
  ASSUME BaseType, SortInv, UNCHANGED <<config, sortVars>>, pc' # "seed",
         pc = "seed" => at > Len(list),
         Sorted' => todo = {} /\ head > Len(queue)
  PROVE  SortInv'
<1>1. Queued => Queued'
  <2>1. \A i \in DOMAIN list : pc = "seed" => i < at
    BY DEF BaseType
  <2>2. \A a : Into(a)' = Into(a)
    BY SortedUnchanged
  <2>3. QED
    BY <2>1, <2>2 DEF Queued, sortVars
<1>2. LinksListedOnce' => SortedSoFar' /\ Queued'
  BY <1>1, SortedUnchanged DEF SortInv
<1>3. QED
  BY <1>2 DEF SortInv, sortVars

LEMMA SortStartInv == BaseType /\ SortStart => SortInv'
<1> SUFFICES ASSUME BaseType, SortStart PROVE SortInv'
  OBVIOUS
<1>1. /\ list' = AllArtifacts /\ queue' = <<>> /\ head' = 1 /\ todo' = {}
      /\ config' = config
  BY DEF SortStart
<1>2. DOMAIN queue' = {} /\ Len(queue') = 0 /\ Popped' = {}
  BY <1>1 DEF Popped
<1>3. Edges' = EdgesOf(AllArtifacts) /\ Undone' = Edges'
  BY <1>1, <1>2 DEF Edges, EdgesOf, Undone
<1>4. ASSUME NEW a \in Artifacts PROVE degree'[a] = Cardinality(Into(a)')
  <2>1. Into(a)' = {e \in EdgesOf(AllArtifacts) : AllArtifacts[e[1]] = a}
    BY <1>1, <1>3 DEF Into, To
  <2>2. QED
    BY <2>1 DEF SortStart
<1>5. pc' = "seed" /\ at' = 1 /\ DOMAIN list' \subseteq Nat \ {0}
  <2>1. AllArtifacts \in Seq(Artifacts)
    BY ConfigType DEF BaseType, AllArtifacts
  <2>2. QED
    BY <1>1, <2>1 DEF SortStart
<1>6. Queued'
  BY <1>5 DEF Queued
<1>7. SortedSoFar'
  BY <1>1, <1>2, <1>4 DEF SortedSoFar, Ordered, IsInjective
<1>8. QED
  BY <1>1, <1>2, <1>5, <1>6, <1>7 DEF SortInv, Seeding, Sorted

LEMMA SeedInv == BaseType /\ SortInv /\ Seed => SortInv'
<1> SUFFICES ASSUME BaseType, SortInv, Seed PROVE SortInv'
  OBVIOUS
<1> DEFINE x == list[at]
<1>1. /\ Seeding /\ at \in DOMAIN list /\ at \in Nat /\ x \in Artifacts
      /\ queue \in Seq(Artifacts)
  BY DEF Seed, SortInv, BaseType
<1>2. /\ UNCHANGED <<config, list, degree, head, todo>> /\ at' = at + 1 /\ pc' = "seed"
      /\ queue' = IF degree[x] = 0 THEN Append(queue, x) ELSE queue
  BY DEF Seed
<1>3. Popped = {} /\ Popped' = {} /\ Edges' = Edges /\ Undone' = Undone /\ Undone = Edges
  BY <1>1, <1>2 DEF Popped, Seeding, Edges, EdgesOf, Undone, From
<1>4. \A a : Into(a)' = Into(a)
  BY <1>2, <1>3 DEF Into, To
<1>5. Seeding'
  <2>1. ASSUME NEW k \in DOMAIN queue'
        PROVE  \E i \in DOMAIN list : i < at + 1 /\ queue'[k] = list[i]
    <3>1. CASE k \in DOMAIN queue /\ queue'[k] = queue[k]
      <4>1. PICK i \in DOMAIN list : i < at /\ queue[k] = list[i]
        BY <3>1, <1>1 DEF Seeding
      <4>2. i \in Nat
        <5>1. list \in Seq(Artifacts)
          BY DEF BaseType
        <5>2. QED
          BY <4>1, <5>1
      <4>3. i < at + 1
        BY <4>1, <4>2, <1>1
      <4>4. QED
        BY <3>1, <4>1, <4>3
    <3>2. CASE queue'[k] = x
      BY <3>2, <1>1
    <3>3. QED
      BY <3>1, <3>2, <1>1, <1>2, AppendFacts
  <2>2. QED
    BY <1>1, <1>2, <2>1 DEF Seeding
<1>6. head' <= Len(queue') + 1
  BY <1>1, <1>2, AppendFacts DEF Seeding
<1>7. ASSUME LinksListedOnce PROVE SortedSoFar' /\ Queued'
  <2>1. SortedSoFar
    BY <1>7 DEF SortInv
  <2>0. /\ \A a : IsLinked(a)' <=> IsLinked(a)
        /\ Into(x) = {} <=> degree[x] = 0
    BY <2>1, <1>1, <1>2, <1>3, IntoFinite, FS_EmptySet DEF IsLinked, From, SortedSoFar
  <2>2. CASE degree[x] # 0
    <3>1. queue' = queue
      BY <2>2, <1>2
    <3>2. Ordered'
      BY <2>1, <3>1, <1>2, <1>3 DEF SortedSoFar, Ordered, To, From
    <3>3. SortedSoFar'
      <4>1. todo' = {}
        BY <1>1, <1>2 DEF Seeding
      <4>2. QED
        BY <2>0, <2>1, <3>1, <3>2, <4>1, <1>2, <1>4 DEF SortedSoFar
    <3>4. ASSUME NEW i \in DOMAIN list, i < at + 1, Into(list[i]) = {}
          PROVE  list[i] \in Range(queue)
      <4>1. i # at /\ i \in Nat
        BY <2>0, <2>2, <3>4 DEF BaseType
      <4>2. i < at
        BY <4>1, <3>4, <1>1
      <4>3. QED
        BY <4>2, <3>4, <1>7 DEF Queued, SortInv, Seed
    <3>6. Queued'
      BY <3>1, <3>4, <1>2, <1>4 DEF Queued
    <3>7. QED
      BY <3>3, <3>6
  <2>3. CASE degree[x] = 0
    <3>1. queue' = Append(queue, x)
      BY <2>3, <1>2
    <3>2. ASSUME IsLinked(x) \/ IsInjective(list), NEW k \in DOMAIN queue
          PROVE  queue[k] # x
      <4>1. PICK i \in DOMAIN list : i < at /\ queue[k] = list[i]
        BY <1>1 DEF Seeding
      <4>2. IsLinked(x) => ListedOnce(x)
        BY <1>7 DEF IsLinked, LinksListedOnce
      <4>3. QED
        BY <3>2, <4>1, <4>2, <1>1 DEF ListedOnce, IsInjective
    <3>3. /\ IsInjective(list) => IsInjective(queue')
          /\ \A k, m \in DOMAIN queue' : queue'[k] = queue'[m] /\ IsLinked(queue'[k])
                => k = m
      <4>1. IsInjective(list) => IsInjective(queue')
        BY <2>1, <3>1, <3>2, <1>1, AppendInjective DEF SortedSoFar
      <4>2. ASSUME NEW k \in DOMAIN queue', NEW m \in DOMAIN queue',
                   queue'[k] = queue'[m], IsLinked(queue'[k])
            PROVE  k = m
        <5>1. CASE k \in DOMAIN queue /\ m \in DOMAIN queue
          BY <5>1, <4>2, <2>1, <3>1, <1>1, AppendFacts DEF SortedSoFar
        <5>2. CASE k = Len(queue) + 1 \/ m = Len(queue) + 1
          BY <5>2, <4>2, <3>1, <3>2, <1>1, AppendFacts
        <5>3. QED
          BY <5>1, <5>2, <3>1, <1>1, AppendFacts
      <4>3. QED
        BY <4>1, <4>2
    <3>4. Into(x) = {}
      BY <2>1, <2>3, <1>1, IntoFinite, FS_EmptySet DEF SortedSoFar
    <3>5. ASSUME NEW k \in DOMAIN queue' PROVE Into(queue'[k]) = {}
      BY <2>1, <3>1, <3>4, <1>1, AppendFacts DEF SortedSoFar
    <3>6. Ordered'
      <4>1. SUFFICES ASSUME NEW k \in DOMAIN queue', NEW e \in Edges, To(e) = queue'[k]
                     PROVE  FALSE
        BY <1>2, <1>3 DEF Ordered, To
      <4>2. e \in Into(queue'[k])
        BY <4>1, <1>3 DEF Into
      <4>3. QED
        BY <4>2, <3>5
    <3>7. SortedSoFar'
      BY <2>0, <2>1, <3>3, <3>5, <3>6, <1>1, <1>2, <1>4 DEF SortedSoFar, Seeding
    <3>8. Queued'
      <4>1. Range(queue') = Range(queue) \cup {x}
        BY <3>1, <1>1, AppendRange
      <4>2. ASSUME NEW i \in DOMAIN list, i < at + 1, Into(list[i]) = {}
            PROVE  list[i] \in Range(queue')
        <5>1. CASE i = at
          BY <5>1, <4>1
        <5>2. CASE i < at
          BY <5>2, <4>1, <4>2, <1>7 DEF Queued, SortInv, Seed
        <5>3. QED
          BY <5>1, <5>2, <4>2, <1>1 DEF BaseType
      <4>3. QED
        BY <4>2, <1>2, <1>4 DEF Queued
    <3>9. QED
      BY <3>7, <3>8
  <2>4. QED
    BY <2>2, <2>3
<1>8. LinksListedOnce' => LinksListedOnce
  BY <1>2, <1>3 DEF LinksListedOnce, ListedOnce, From
<1>9. QED
  BY <1>2, <1>5, <1>6, <1>7, <1>8 DEF SortInv, Sorted

LEMMA PopInv == BaseType /\ SortInv /\ Pop => SortInv'
<1> SUFFICES ASSUME BaseType, SortInv, Pop PROVE SortInv'
  OBVIOUS
<1>1. /\ todo = {} /\ head \in DOMAIN queue /\ head' = head + 1
      /\ pc = "sort" /\ pc' = "sort"
      /\ todo' = {e \in Edges : From(e) = queue[head]}
      /\ UNCHANGED <<config, list, degree, queue>>
  BY DEF Pop, BaseType
<1>2. Edges' = Edges /\ \A e : From(e)' = From(e) /\ To(e)' = To(e)
  BY <1>1 DEF Edges, EdgesOf, From, To
<1>3. Popped' = Popped \cup {queue[head]}
  BY <1>1 DEF Popped, BaseType
<1>4. head' <= Len(queue') + 1
  BY <1>1 DEF BaseType
<1>5. ASSUME LinksListedOnce PROVE SortedSoFar' /\ Queued'
  <2>1. SortedSoFar /\ Queued
    BY <1>5, <1>1 DEF SortInv
  <2>2. IsLinked(queue[head]) => queue[head] \notin Popped
    BY <2>1, <1>1 DEF SortedSoFar, Popped, BaseType
  <2>3. Undone' = Undone
    BY <2>2, <1>1, <1>2, <1>3 DEF Undone, IsLinked
  <2>4. \A a : Into(a)' = Into(a) /\ (IsLinked(a)' <=> IsLinked(a))
    BY <2>3, <1>2 DEF Into, IsLinked
  <2>5. \A e \in todo' : From(e)' \in Popped'
    BY <1>1, <1>2, <1>3
  <2>6. Ordered'
    BY <2>1, <1>1, <1>2 DEF SortedSoFar, Ordered
  <2>7. Queued'
    BY <2>1, <2>4, <1>1 DEF Queued
  <2>8. QED
    BY <2>1, <2>4, <2>5, <2>6, <2>7, <1>1 DEF SortedSoFar
<1>6. LinksListedOnce' => LinksListedOnce
  BY <1>1, <1>2 DEF LinksListedOnce, ListedOnce
<1>7. QED
  BY <1>1, <1>4, <1>5, <1>6 DEF SortInv, Sorted

LEMMA DecrementInv == BaseType /\ SortInv /\ Decrement => SortInv'
<1> SUFFICES ASSUME BaseType, SortInv, Decrement PROVE SortInv'
  OBVIOUS
<1>1. PICK e \in todo :
        /\ todo' = todo \ {e}
        /\ degree' = [degree EXCEPT ![To(e)] = @ - 1]
        /\ queue' = IF degree'[To(e)] = 0 THEN Append(queue, To(e)) ELSE queue
  BY DEF Decrement
<1>0. PICK x \in Artifacts : x = To(e)
  BY EdgeType DEF BaseType, Edges, To
<1>2. e \in Edges /\ queue \in Seq(Artifacts) /\ pc = "sort" /\ pc' = "sort"
  BY DEF BaseType, Decrement
<1>3. UNCHANGED <<config, list, head>>
  BY DEF Decrement
<1>4. Edges' = Edges /\ \A f : From(f)' = From(f) /\ To(f)' = To(f)
  BY <1>3 DEF Edges, EdgesOf, From, To
<1>5. /\ Len(queue) <= Len(queue') /\ queue' \in Seq(Artifacts)
      /\ \A k \in DOMAIN queue : k \in DOMAIN queue' /\ queue'[k] = queue[k]
  BY <1>0, <1>1, <1>2, AppendFacts
<1>6. head \in Nat /\ head <= Len(queue) + 1 /\ head' <= Len(queue') + 1
  BY <1>0, <1>1, <1>2, <1>3, <1>5, AppendFacts DEF SortInv, BaseType
<1>7. Popped' = Popped
  BY <1>2, <1>3, <1>5, <1>6 DEF Popped
<1>8. ASSUME LinksListedOnce PROVE SortedSoFar' /\ Queued'
  <2>1. SortedSoFar /\ Queued
    BY <1>8 DEF SortInv
  <2>12. \A a : IsLinked(a)' <=> IsLinked(a)
    BY <1>4 DEF IsLinked
  <2>2. From(e) \in Popped /\ e \in Into(x)
    BY <2>1, <1>0, <1>1, <1>2 DEF SortedSoFar, Into, Undone
  <2>3. Undone' = Undone \ {e}
    BY <2>2, <1>1, <1>2, <1>4, <1>7 DEF Undone
  <2>4. /\ Into(x)' = Into(x) \ {e}
        /\ \A a : a # x => Into(a)' = Into(a)
    BY <2>3, <1>0, <1>4 DEF Into
  <2>5. /\ Cardinality(Into(x)') = Cardinality(Into(x)) - 1
        /\ Cardinality(Into(x)) \in Nat
    BY <2>2, <2>4, IntoFinite, FS_RemoveElement, FS_CardinalityType
  <2>6. \A a \in Artifacts : degree'[a] = Cardinality(Into(a)')
    BY <2>1, <2>4, <2>5, <1>0, <1>1 DEF SortedSoFar, BaseType
  <2>7. \A f \in todo' : From(f)' \in Popped'
    BY <2>1, <1>1, <1>4, <1>7 DEF SortedSoFar
  <2>8. \A k \in DOMAIN queue : queue[k] # x
    BY <2>1, <2>2 DEF SortedSoFar
  <2>9. CASE degree'[x] # 0
    <3>1. queue' = queue
      BY <2>9, <1>0, <1>1
    <3>2. \A k \in DOMAIN queue' : Into(queue[k])' = {}
      BY <2>1, <2>4, <2>8, <3>1 DEF SortedSoFar
    <3>3. Ordered'
      BY <2>1, <3>1, <1>4 DEF SortedSoFar, Ordered
    <3>4. SortedSoFar'
      BY <2>1, <2>6, <2>7, <2>12, <3>1, <3>2, <3>3, <1>3 DEF SortedSoFar
    <3>5. Into(x)' # {}
      BY <2>6, <2>9, FS_EmptySet
    <3>6. Queued'
      BY <2>1, <2>4, <3>1, <3>5, <1>2, <1>3 DEF Queued
    <3>7. QED
      BY <3>4, <3>6
  <2>10. CASE degree'[x] = 0
    <3>1. queue' = Append(queue, x)
      BY <2>10, <1>0, <1>1
    <3>2. /\ IsInjective(list) => IsInjective(queue')
          /\ \A k, m \in DOMAIN queue' : queue'[k] = queue'[m] /\ IsLinked(queue'[k])
                => k = m
      <4>1. IsInjective(list) => IsInjective(queue')
        BY <2>1, <2>8, <3>1, <1>2, AppendInjective DEF SortedSoFar
      <4>2. ASSUME NEW k \in DOMAIN queue', NEW m \in DOMAIN queue',
                   queue'[k] = queue'[m], IsLinked(queue'[k])
            PROVE  k = m
        <5>1. CASE k \in DOMAIN queue /\ m \in DOMAIN queue
          BY <5>1, <4>2, <2>1, <1>5 DEF SortedSoFar
        <5>2. CASE k = Len(queue) + 1 \/ m = Len(queue) + 1
          BY <5>2, <4>2, <2>8, <3>1, <1>2, AppendFacts
        <5>3. QED
          BY <5>1, <5>2, <3>1, <1>2, AppendFacts
      <4>3. QED
        BY <4>1, <4>2
    <3>3. Into(x)' = {}
      <4>1. IsFiniteSet(Into(x)')
        BY <2>4, IntoFinite, FS_Subset
      <4>2. Cardinality(Into(x)') = 0
        BY <2>6, <2>10, <1>2
      <4>3. QED
        BY <4>1, <4>2, FS_EmptySet
    <3>4. \A k \in DOMAIN queue' : Into(queue[k])' = {}
      BY <2>1, <2>4, <2>8, <3>1, <3>3, <1>2, AppendFacts DEF SortedSoFar
    <3>5. Ordered'
      <4>1. SUFFICES ASSUME NEW k \in DOMAIN queue', NEW f \in Edges, To(f) = queue'[k]
                     PROVE  \E m \in 1 .. k - 1 : queue'[m] = From(f)
        BY <1>4 DEF Ordered
      <4>2. CASE k \in DOMAIN queue
        <5>1. PICK m \in 1 .. k - 1 : queue[m] = From(f)
          BY <4>1, <4>2, <2>1, <1>5 DEF SortedSoFar, Ordered
        <5>2. m \in DOMAIN queue /\ queue'[m] = queue[m]
          BY <5>1, <4>2, <1>2, <1>5
        <5>3. QED
          BY <5>1, <5>2
      <4>3. CASE k \notin DOMAIN queue
        <5>1. k = Len(queue) + 1 /\ queue'[k] = x
          BY <4>3, <3>1, <1>2, AppendFacts
        <5>2. f \notin Undone'
          BY <5>1, <4>1, <3>3, <1>4 DEF Into
        <5>3. From(f) \in Popped
          BY <5>2, <1>4, <1>7 DEF Undone
        <5>4. PICK m \in 1 .. head - 1 : queue[m] = From(f)
          BY <5>3 DEF Popped
        <5>5. m \in DOMAIN queue /\ m \in 1 .. k - 1
          BY <5>1, <5>4, <1>2, <1>6
        <5>6. QED
          BY <5>4, <5>5, <1>5
      <4>4. QED
        BY <4>2, <4>3
    <3>6. SortedSoFar'
      BY <2>1, <2>6, <2>7, <2>12, <3>2, <3>4, <3>5, <1>3 DEF SortedSoFar
    <3>7. Queued'
      <4>1. Range(queue') = Range(queue) \cup {x}
        BY <3>1, <1>0, <1>2, AppendRange
      <4>2. QED
        BY <4>1, <2>1, <2>4, <1>2, <1>3 DEF Queued
    <3>8. QED
      BY <3>6, <3>7
  <2>11. QED
    BY <2>9, <2>10
<1>9. LinksListedOnce' => LinksListedOnce
  BY <1>3, <1>4 DEF LinksListedOnce, ListedOnce
<1>10. QED
  BY <1>2, <1>3, <1>6, <1>8, <1>9 DEF SortInv, Sorted

LEMMA SortStep == BaseType /\ SortInv /\ [Next]_vars => SortInv'
<1> SUFFICES ASSUME BaseType, SortInv, [Next]_vars PROVE SortInv'
  OBVIOUS
<1>1. CASE SortStart
  BY <1>1, SortStartInv
<1>2. CASE Seed
  BY <1>2, SeedInv
<1>3. CASE Pop
  BY <1>3, PopInv
<1>4. CASE Decrement
  BY <1>4, DecrementInv
<1>5. CASE Return \/ Kill
  BY <1>5, SortExit DEF Return, Kill
<1>6. CASE UNCHANGED vars
  <2>1. UNCHANGED <<config, sortVars, pc, at>>
    BY <1>6 DEF vars, sortVars
  <2>2. Queued => Queued'
    BY <2>1, SortedUnchanged DEF Queued, sortVars
  <2>3. LinksListedOnce' => SortedSoFar' /\ Queued'
    BY <2>1, <2>2, SortedUnchanged DEF SortInv
  <2>4. QED
    BY <2>1, <2>3 DEF SortInv, Seeding, Sorted, sortVars
<1>7. CASE Edit \/ Start \/ ConfigFails \/ NoTests \/ Seeded \/ Resolve
  <2>1. /\ UNCHANGED <<config, sortVars>> /\ pc' # "seed"
        /\ pc = "seed" => at > Len(list)
        /\ Sorted' => todo = {} /\ head > Len(queue)
    BY <1>7 DEF Edit, Start, ConfigFails, NoTests, Seeded, Resolve, Finish, Sorted
  <2>2. QED
    BY <2>1, SortUnchanged
<1>8. CASE SkipStep \/ RunStep \/ StepFails \/ StepsDone \/ PassOver \/ Compile \/ CompileFails
  <2>1. /\ UNCHANGED <<config, sortVars>> /\ pc' # "seed" /\ pc # "seed" /\ Sorted
    BY <1>8 DEF SkipStep, RunStep, StepFails, StepsDone, PassOver, Compile,
       CompileFails, Finish, AtStep, ToBuild, Sorted
  <2>2. QED
    BY <2>1, SortUnchanged DEF SortInv
<1>9. CASE LinkNothing \/ Link \/ LinkFails \/ RunTest \/ TestFails \/ LoopDone \/ RunFirst
  <2>1. /\ UNCHANGED <<config, sortVars>> /\ pc' # "seed" /\ pc # "seed" /\ Sorted
    BY <1>9 DEF LinkNothing, Link, LinkFails, RunTest, TestFails, LoopDone, RunFirst,
       Finish, AfterLink, Sorted
  <2>2. QED
    BY <2>1, SortUnchanged DEF SortInv
<1>10. QED
  BY <1>1, <1>2, <1>3, <1>4, <1>5, <1>6, <1>7, <1>8, <1>9 DEF Next, CommandStep

\* At every step of topo_sort in_degree counts the links not yet counted down,
\* and nothing is queued that such a link leads to.
THEOREM SortInvariant == Spec => [](BaseType /\ SortInv)
<1>1. QED
  BY TypeInit, TypeStep, SortInit, SortStep, PTL DEF Spec

LEMMA InvariantIsTyped == BaseType /\ SortInv => TypeOK
<1> SUFFICES ASSUME BaseType, SortInv PROVE TypeOK
  OBVIOUS
<1>1. ASSUME LinksListedOnce PROVE degree \in [Artifacts -> Nat]
  <2>1. \A a \in Artifacts : degree[a] \in Nat
    BY <1>1, IntoFinite, FS_CardinalityType DEF SortInv, SortedSoFar
  <2>2. QED
    BY <2>1 DEF BaseType
<1>2. degree \in [Artifacts -> IF LinksListedOnce THEN Nat ELSE Int]
  BY <1>1 DEF BaseType
<1>3. QED
  BY <1>2 DEF BaseType, TypeOK

\* Every variable of BuildGraph keeps its type, whatever is declared; in_degree
\* never falls below zero as long as nothing that is linked is listed twice.
THEOREM TypeCorrect == Spec => []TypeOK
<1>1. QED
  BY SortInvariant, InvariantIsTyped, PTL

\* topo_sort puts every dependency before its dependents, in every graph of
\* every size, cyclic ones included.
THEOREM DepsFirstHolds == Spec => []DepsFirst
<1>1. SortInv => DepsFirst
  BY DEF SortInv, SortedSoFar, Ordered, DepsFirst
<1>2. QED
  BY <1>1, SortInvariant, PTL

-----------------------------------------------------------------------------
(* What the graph is made of, and what its products are.                 *)

GraphInv ==
    /\ \A a \in Artifacts : product[a] # None =>
            a \in Range(Installed) \cup Range(config.tests)
    /\ list \in {<<>>, AllArtifacts}
    /\ Range(queue) \subseteq Range(list)
    /\ \A a \in Artifacts : /\ tasks[a] \subseteq config.sources[a]
                            /\ tasks[a] # {} => a \in Range(queue)
    /\ pc = "link" => at \in DOMAIN queue
    /\ pc \in {"idle", "config"} =>
            list = <<>> /\ queue = <<>> /\ \A a \in Artifacts : tasks[a] = {}

LEMMA ListedIsDeclared ==
  ASSUME BaseType, GraphInv, NEW a \in Range(queue)
  PROVE  a \in Range(Installed) \cup Range(config.tests)
<1>1. a \in Range(list) /\ list \in {<<>>, AllArtifacts}
  BY DEF GraphInv
<1>2. /\ config.install \in Seq(Artifacts) /\ config.tests \in Seq(Artifacts)
      /\ config.packaged \in Seq(Artifacts)
  BY ConfigType DEF BaseType
<1>3. a \in Range(AllArtifacts)
  BY <1>1 DEF Range
<1>4. Range(AllArtifacts) \subseteq Range(Installed) \cup Range(config.tests)
  <2>1. Range(config.install) \subseteq Range(Installed)
    BY <1>2, ConcatRange DEF Installed
  <2>2. Range(config.install \o config.tests) = Range(config.install) \cup Range(config.tests)
    BY <1>2, ConcatRange
  <2>3. QED
    BY <2>1, <2>2 DEF AllArtifacts
<1>5. QED
  BY <1>3, <1>4

LEMMA GraphInit == Init => GraphInv
<1> SUFFICES ASSUME Init PROVE GraphInv
  OBVIOUS
<1>1. /\ \A a \in Artifacts : product[a] = None /\ tasks[a] = {}
      /\ list = <<>> /\ queue = <<>> /\ Range(queue) = {} /\ pc = "idle"
  BY DEF Init, Idle, Range
<1>2. QED
  BY <1>1 DEF GraphInv

\* Whatever leaves the products, the list and the tasks alone.
LEMMA GraphUnchanged ==
  ASSUME GraphInv, UNCHANGED <<config, product, list, queue, tasks>>,
         command' = command \/ list = <<>>,
         pc' \in {"idle", "config"} => pc \in {"idle", "config"},
         pc' = "link" => AtArtifact /\ at' = at, BaseType
  PROVE  GraphInv'
BY CurrentType DEF GraphInv, AllArtifacts, Installed

LEMMA GraphStep == BaseType /\ SortInv /\ GraphInv /\ [Next]_vars => GraphInv'
<1> SUFFICES ASSUME BaseType, SortInv, GraphInv, [Next]_vars PROVE GraphInv'
  OBVIOUS
<1>1. CASE UNCHANGED vars
  BY <1>1 DEF vars, GraphInv, AllArtifacts, Installed
<1>2. CASE Edit \/ Start \/ ConfigFails \/ NoTests \/ Seeded
  <2>1. /\ UNCHANGED <<config, product, list, queue, tasks>>
        /\ command' = command \/ list = <<>>
        /\ pc' \in {"idle", "config"} => pc \in {"idle", "config"}
        /\ pc' # "link"
    BY <1>2 DEF Edit, Start, ConfigFails, NoTests, Seeded, Finish, GraphInv,
       diskVars, sortVars, loopVars
  <2>2. QED
    BY <2>1, GraphUnchanged
<1>3. CASE SkipStep \/ RunStep \/ StepFails \/ StepsDone \/ PassOver \/ Compile
           \/ CompileFails
  <2>1. /\ UNCHANGED <<config, product, list, queue, tasks, command>>
        /\ pc' \notin {"idle", "config"}
        /\ pc' = "link" => AtArtifact /\ at' = at
    BY <1>3 DEF SkipStep, RunStep, StepFails, StepsDone, PassOver, Compile,
       CompileFails, Finish, AtStep, ToBuild, diskVars, sortVars, loopVars
  <2>2. QED
    BY <2>1, GraphUnchanged
<1>4. CASE LinkNothing \/ RunTest \/ TestFails \/ LoopDone \/ RunFirst
  <2>1. /\ UNCHANGED <<config, product, list, queue, tasks, command>>
        /\ pc' \notin {"idle", "config", "link"}
    BY <1>4 DEF LinkNothing, RunTest, TestFails, LoopDone, RunFirst, Finish,
       AfterLink, diskVars, sortVars, loopVars
  <2>2. QED
    BY <2>1, GraphUnchanged
<1>5. CASE Pop
  <2>1. UNCHANGED <<config, product, list, queue, tasks, command>> /\ pc' = "sort"
    BY <1>5 DEF Pop, diskVars, loopVars
  <2>2. QED
    BY <2>1, GraphUnchanged
<1>6. CASE SortStart
  <2>1. /\ list' = AllArtifacts /\ queue' = <<>> /\ pc' = "seed"
        /\ UNCHANGED <<config, product, tasks, command>> /\ pc = "config"
    BY <1>6 DEF SortStart, diskVars
  <2>2. Range(queue') = {} /\ AllArtifacts' = AllArtifacts
    BY <2>1 DEF Range, AllArtifacts, Installed
  <2>3. QED
    BY <2>1, <2>2 DEF GraphInv, Installed
<1>7. CASE Seed
  <2>1. /\ queue' \in {queue, Append(queue, list[at])} /\ pc' = "seed"
        /\ UNCHANGED <<config, product, list, tasks, command>>
    BY <1>7 DEF Seed, diskVars
  <2>2. list[at] \in Range(list) /\ list[at] \in Artifacts /\ queue \in Seq(Artifacts)
    BY <1>7 DEF Seed, BaseType, Range
  <2>3. Range(queue') \subseteq Range(list) /\ Range(queue) \subseteq Range(queue')
    <3>1. Range(Append(queue, list[at])) = Range(queue) \cup {list[at]}
      BY <2>2, AppendRange
    <3>2. Range(queue') \in {Range(queue), Range(queue) \cup {list[at]}}
      BY <2>1, <3>1
    <3>3. QED
      BY <2>2, <3>2 DEF GraphInv
  <2>4. QED
    BY <2>1, <2>3 DEF GraphInv, AllArtifacts, Installed
<1>8. CASE Decrement
  <2>1. PICK e \in todo : queue' \in {queue, Append(queue, To(e))}
    BY <1>8 DEF Decrement
  <2>2. UNCHANGED <<config, product, list, tasks, command>> /\ pc' = "sort"
    BY <1>8 DEF Decrement, diskVars, loopVars
  <2>3. To(e) \in Range(list) /\ To(e) \in Artifacts /\ queue \in Seq(Artifacts)
    BY EdgeType DEF BaseType, Edges, To, Range
  <2>4. Range(queue') \subseteq Range(list) /\ Range(queue) \subseteq Range(queue')
    <3>1. Range(Append(queue, To(e))) = Range(queue) \cup {To(e)}
      BY <2>3, AppendRange
    <3>2. Range(queue') \in {Range(queue), Range(queue) \cup {To(e)}}
      BY <2>1, <3>1
    <3>3. QED
      BY <2>3, <3>2 DEF GraphInv
  <2>5. QED
    BY <2>2, <2>4 DEF GraphInv, AllArtifacts, Installed
<1>9. CASE Resolve
  <2>1. /\ UNCHANGED <<config, product, list, queue, command>>
        /\ pc' \notin {"idle", "config", "link"}
    BY <1>9 DEF Resolve, diskVars, sortVars
  <2>2. \A a \in Artifacts : /\ tasks'[a] \subseteq config.sources[a]
                             /\ tasks'[a] # {} => a \in Range(queue)
    BY <1>9 DEF Resolve
  <2>3. QED
    BY <2>1, <2>2 DEF GraphInv, AllArtifacts, Installed
<1>10. CASE Return \/ Kill
  <2>1. /\ list' = <<>> /\ queue' = <<>> /\ UNCHANGED config /\ pc' = "idle"
        /\ \A a \in Artifacts : tasks'[a] = {}
    BY <1>10 DEF Return, Kill, Exit
  <2>2. Range(queue') = {}
    BY <2>1 DEF Range
  <2>3. \A a \in Artifacts : product'[a] # None => product[a] # None
    <3>1. \/ product' = product
          \/ pc = "link" /\ product' = [product EXCEPT ![Current] = None]
      BY <1>10 DEF Return, Kill, diskVars
    <3>2. product \in [Artifacts -> [Files -> Nat] \cup {None}]
      BY DEF BaseType
    <3>3. QED
      BY <3>1, <3>2
  <2>4. QED
    BY <2>1, <2>2, <2>3 DEF GraphInv, Installed
<1>11. CASE Link \/ LinkFails
  <2>1. /\ UNCHANGED <<config, list, queue, tasks, command>>
        /\ pc' \notin {"idle", "config", "link"} /\ pc = "link"
        /\ \E p : product' = [product EXCEPT ![Current] = p]
    BY <1>11 DEF Link, LinkFails, Finish, AfterLink, sortVars, loopVars
  <2>2. Current \in Range(queue)
    BY <2>1 DEF GraphInv, Current, Range
  <2>3. Current \in Range(Installed) \cup Range(config.tests)
    BY <2>2, ListedIsDeclared
  <2>4. \A a \in Artifacts : a # Current => product'[a] = product[a]
    BY <2>1 DEF BaseType
  <2>5. QED
    BY <2>1, <2>3, <2>4 DEF GraphInv, AllArtifacts, Installed
<1>12. QED
  BY <1>1, <1>2, <1>3, <1>4, <1>5, <1>6, <1>7, <1>8, <1>9, <1>10, <1>11
     DEF Next, CommandStep

-----------------------------------------------------------------------------
(* The build order is complete.  What is left out links something that is left *)
(* out, so it is stuck; what is in the order is not: of the stuck artifacts in *)
(* it, take the first; it links a stuck one, which is in the order before it.  *)

LEMMA NothingStuckIsQueued ==
  ASSUME BaseType, GraphInv, Ordered,
         NEW S \in SUBSET Range(list),
         \A a \in S : Range(config.deps[a]) \cap S # {},
         NEW x \in S, x \in Range(queue)
  PROVE  FALSE
<1> DEFINE T == {k \in DOMAIN queue : queue[k] \in S}
<1>1. DOMAIN queue \subseteq Nat /\ \E k \in DOMAIN queue : queue[k] = x
  <2>1. queue \in Seq(Artifacts)
    BY DEF BaseType
  <2>2. DOMAIN queue = 1 .. Len(queue) /\ Len(queue) \in Nat
    BY <2>1
  <2>3. \E k \in DOMAIN queue : queue[k] = x
    BY DEF Range
  <2>4. QED
    BY <2>2, <2>3
<1>2. PICK k \in T : \A m \in T : k <= m
  <2>1. T \in SUBSET Nat /\ \E n : n \in T
    BY <1>1
  <2> HIDE DEF T
  <2>2. QED
    BY <2>1, Least
<1>3. PICK y \in Range(config.deps[queue[k]]) : y \in S
  BY <1>2
<1>4. PICK i \in DOMAIN list : list[i] = queue[k]
  BY <1>2 DEF Range
<1>5. PICK j \in DOMAIN config.deps[list[i]] : config.deps[list[i]][j] = y
  BY <1>3, <1>4 DEF Range
<1>6. <<i, j>> \in Edges /\ To(<<i, j>>) = queue[k] /\ From(<<i, j>>) = y
  BY <1>3, <1>4, <1>5 DEF Edges, EdgesOf, To, From
<1>7. PICK m \in 1 .. k - 1 : queue[m] = y
  BY <1>2, <1>6 DEF Ordered
<1>8. m \in T /\ m < k
  BY <1>2, <1>3, <1>7 DEF BaseType
<1>9. QED
  BY <1>1, <1>2, <1>8

LEMMA WhatIsNotQueuedIsStuck ==
  ASSUME BaseType, SortInv, GraphInv, Sorted, LinksListedOnce
  PROVE  Range(list) \ Range(queue) \subseteq StuckIn(list)
<1> DEFINE S == Range(list) \ Range(queue)
<1>1. Popped = Range(queue)
  <2>1. head - 1 = Len(queue)
    BY DEF SortInv, BaseType
  <2>2. QED
    BY <2>1 DEF Popped, Range, BaseType
<1>2. todo = {}
  BY DEF SortInv
<1>3. ASSUME NEW a \in S PROVE Range(config.deps[a]) \cap S # {}
  <2>1. PICK i \in DOMAIN list : list[i] = a
    BY <1>3 DEF Range
  <2>2. Into(a) # {}
    BY <2>1, <1>3 DEF SortInv, Queued, Sorted
  <2>3. PICK e \in Edges : From(e) \notin Popped /\ To(e) = a
    BY <2>2, <1>2 DEF Into, Undone
  <2>4. From(e) \in Range(config.deps[a]) /\ From(e) \in Range(list)
    BY <2>3, EdgeType DEF BaseType, Edges, From, To, Range
  <2>5. QED
    BY <2>3, <2>4, <1>1
<1>4. S \in SUBSET Range(list)
  OBVIOUS
<1> HIDE DEF S
<1>5. S \subseteq StuckIn(list)
  BY <1>3, <1>4 DEF StuckIn
<1>6. QED
  BY <1>5 DEF S

LEMMA CompleteOrder ==
  ASSUME BaseType, SortInv, GraphInv
  PROVE  OrderIsComplete
<1>1. SUFFICES ASSUME Sorted, LinksListedOnce
               PROVE  /\ Range(queue) = Range(list) \ StuckIn(list)
                      /\ IsInjective(list) => IsInjective(queue)
  BY DEF OrderIsComplete
<1>2. SortedSoFar
  BY <1>1 DEF SortInv
<1>3. ASSUME NEW x \in Range(queue), x \in StuckIn(list) PROVE FALSE
  <2>1. PICK S \in SUBSET Range(list) :
            (\A a \in S : Range(config.deps[a]) \cap S # {}) /\ x \in S
    BY <1>3 DEF StuckIn
  <2>2. QED
    BY <2>1, <1>2, <1>3, NothingStuckIsQueued DEF SortedSoFar
<1>4. Range(queue) \subseteq Range(list)
  BY DEF GraphInv
<1>5. QED
  BY <1>1, <1>2, <1>3, <1>4, WhatIsNotQueuedIsStuck DEF SortedSoFar

\* topo_sort drops the artifacts on a cycle of links and those behind one, and
\* nothing else, in every graph; what is listed once it queues once.
THEOREM OrderIsCompleteHolds == Spec => []OrderIsComplete
<1>1. Spec => [](BaseType /\ SortInv /\ GraphInv)
  BY TypeInit, TypeStep, SortInit, SortStep, GraphInit, GraphStep, PTL DEF Spec
<1>2. QED
  BY <1>1, CompleteOrder, PTL

-----------------------------------------------------------------------------
(* A build that succeeds is current: the loop keeps what it has linked current, *)
(* because what an artifact links was linked before it.                         *)

CurrentProduct(a) ==
    ~NoInputs(a) =>
        \A f \in AllSources(a) \cap UNION Range(tasks) :
            product[a] # None /\ product[a][f] = file[f]

LoopInv ==
    /\ pc \in {"custom", "run"} => command # "test"
    /\ pc = "test" => command = "test"
    /\ command # "test" =>
        /\ pc \in {"compile", "link"} =>
            \A a \in Artifacts : (\E i \in DOMAIN queue : i < at /\ queue[i] = a)
                                    => CurrentProduct(a)
        /\ pc = "link" => \A f \in tasks[Current] : object[f] = file[f]
        /\ pc = "run" \/ (pc = "done" /\ ok) =>
            \A a \in Artifacts \cap Range(queue) : CurrentProduct(a)

\* In a build Linked(a) is the least set closed under the dependencies of archives:
\* all that is linked is declared.
LEMMA LinkedClosed ==
  ASSUME config \in Configs, command # "test", NEW a \in Artifacts
  PROVE  /\ Range(config.deps[a]) \subseteq Linked(a)
         /\ \A s \in Linked(a) : config.type[s] = "staticlib"
                => Range(config.deps[s]) \subseteq Linked(a)
<1>1. Declared = Artifacts /\ \A x \in Artifacts : Range(config.deps[x]) \subseteq Artifacts
  BY ConfigType DEF Range, Declared
<1>2. Range(config.deps[a]) \subseteq Linked(a)
  BY <1>1 DEF Linked, LinkedIn
<1>3. ASSUME NEW s \in Linked(a), config.type[s] = "staticlib",
             NEW y \in Range(config.deps[s])
      PROVE  y \in Linked(a)
  BY <1>1, <1>3 DEF Linked, LinkedIn
<1>4. QED
  BY <1>2, <1>3

LEMMA LinkedLeast ==
  ASSUME NEW a \in Artifacts, NEW S \in SUBSET Artifacts,
         Range(config.deps[a]) \subseteq S,
         \A s \in S : config.type[s] = "staticlib" => Range(config.deps[s]) \subseteq S
  PROVE  Linked(a) \subseteq S
BY DEF Linked, LinkedIn

\* In a build, a listed artifact has its listed dependencies before it.
LEMMA DependencyIsEarlier ==
  ASSUME BaseType, SortInv, GraphInv, command # "test",
         NEW k \in DOMAIN queue, NEW y \in Range(config.deps[queue[k]]),
         y \in Range(Installed)
  PROVE  \E m \in 1 .. k - 1 : queue[m] = y
<1>1. queue[k] \in Range(queue) /\ queue[k] \in Range(list)
  BY DEF GraphInv, Range
<1>2. list = Installed
  BY <1>1 DEF GraphInv, AllArtifacts, Range
<1>3. LinksListedOnce
  BY <1>2, ConfigType, InjectiveLists DEF BaseType
<1>4. PICK i \in DOMAIN list : list[i] = queue[k]
  BY <1>1 DEF Range
<1>5. PICK j \in DOMAIN config.deps[list[i]] : config.deps[list[i]][j] = y
  BY <1>4 DEF Range
<1>6. <<i, j>> \in Edges /\ To(<<i, j>>) = queue[k] /\ From(<<i, j>>) = y
  BY <1>2, <1>4, <1>5 DEF Edges, EdgesOf, To, From
<1>7. QED
  BY <1>3, <1>6 DEF SortInv, SortedSoFar, Ordered

\* ... and so has it every archive it links, through archives of any depth.
LEMMA ArchiveIsEarlier ==
  ASSUME BaseType, SortInv, GraphInv, command # "test", at \in DOMAIN queue,
         Linkable(Current), config.type[Current] # "staticlib",
         NEW d \in StaticDeps(Current)
  PROVE  \E m \in 1 .. at - 1 : queue[m] = d
<1> DEFINE Earlier(x) == \E m \in 1 .. at - 1 : queue[m] = x
           S == {x \in Linked(Current) : config.type[x] = "staticlib" => Earlier(x)}
<1>1. Current \in Artifacts /\ Current = queue[at] /\ config \in Configs
  BY DEF BaseType, Current
<1>2. ASSUME NEW y \in Linked(Current), config.type[y] = "staticlib"
      PROVE  y \in Range(Installed)
  <2>1. y \in Artifacts /\ product[y] # None
    BY <1>2 DEF Linkable, Linked, LinkedIn
  <2>2. y \in Range(Installed) \cup Range(config.tests)
    BY <2>1 DEF GraphInv
  <2>3. QED
    BY <2>2, <1>1, <1>2, ConfigType
<1>3. Range(config.deps[Current]) \subseteq S
  <2>1. SUFFICES ASSUME NEW y \in Range(config.deps[Current]) PROVE y \in S
    OBVIOUS
  <2>2. y \in Linked(Current)
    BY <1>1, LinkedClosed
  <2>3. config.type[y] = "staticlib" => Earlier(y)
    BY <2>2, <1>1, <1>2, DependencyIsEarlier
  <2>4. QED
    BY <2>2, <2>3
<1>4. ASSUME NEW s \in S, config.type[s] = "staticlib"
      PROVE  Range(config.deps[s]) \subseteq S
  <2>1. SUFFICES ASSUME NEW y \in Range(config.deps[s]) PROVE y \in S
    OBVIOUS
  <2>2. y \in Linked(Current)
    BY <1>1, <1>4, LinkedClosed
  <2>3. PICK m \in 1 .. at - 1 : queue[m] = s
    BY <1>4
  <2>4. m \in DOMAIN queue
    BY <2>3 DEF BaseType
  <2>5. ASSUME config.type[y] = "staticlib" PROVE Earlier(y)
    <3>1. PICK n \in 1 .. m - 1 : queue[n] = y
      BY <2>2, <2>3, <2>4, <2>5, <1>2, DependencyIsEarlier
    <3>2. n \in 1 .. at - 1
      BY <2>3, <3>1 DEF BaseType
    <3>3. QED
      BY <3>1, <3>2
  <2>6. QED
    BY <2>2, <2>5
<1>5. Linked(Current) \subseteq S
  <2>1. S \in SUBSET Artifacts
    BY DEF Linked, LinkedIn
  <2> HIDE DEF S
  <2>2. QED
    BY <2>1, <1>1, <1>3, <1>4, LinkedLeast
<1>6. QED
  BY <1>5 DEF StaticDeps

LEMMA CurrentUnchanged ==
  ASSUME NEW a, UNCHANGED <<config, command, tasks, file>>, product'[a] = product[a],
         CurrentProduct(a)
  PROVE  CurrentProduct(a)'
<1>1. Linked(a)' = Linked(a)
  BY DEF Linked, LinkedIn, Declared
<1>2. QED
  BY <1>1, SMTT(30) DEF CurrentProduct, NoInputs, OtherDeps, AllSources, StaticDeps

\* What the linker takes is current.
LEMMA OutputIsCurrent ==
  ASSUME BaseType, SortInv, GraphInv, LoopInv, command # "test", pc = "link",
         Linkable(Current),
         NEW f \in AllSources(Current) \cap UNION Range(tasks)
  PROVE  f \in Files /\ Output(Current)[f] = file[f]
<1>1. at \in DOMAIN queue /\ Current \in Artifacts /\ config \in Configs
  BY DEF GraphInv, BaseType, Current
<1>2. PICK b \in Artifacts : f \in tasks[b]
  BY DEF BaseType, Range
<1>3. f \in Files /\ f \in config.sources[b]
  BY <1>2 DEF BaseType, GraphInv
<1>4. CASE f \in tasks[Current]
  BY <1>3, <1>4 DEF Output, LoopInv
<1>5. CASE f \notin tasks[Current]
  <2>1. b # Current /\ f \notin config.sources[Current]
    BY <1>1, <1>2, <1>3, <1>5, ConfigType
  <2>2. config.type[Current] # "staticlib" /\ \E d \in StaticDeps(Current) : f \in config.sources[d]
    BY <2>1 DEF AllSources
  <2>3. PICK d \in StaticDeps(Current) :
            /\ d = CHOOSE x \in StaticDeps(Current) : f \in config.sources[x]
            /\ f \in config.sources[d]
    BY <2>2
  <2>4. d = b
    BY <2>3, <1>1, <1>3, ConfigType DEF StaticDeps, Linked, LinkedIn
  <2>5. PICK m \in 1 .. at - 1 : queue[m] = b
    BY <1>1, <2>2, <2>3, <2>4, ArchiveIsEarlier
  <2>6. m \in DOMAIN queue /\ m < at
    BY <1>1, <2>5 DEF BaseType
  <2>7. CurrentProduct(b)
    BY <2>5, <2>6 DEF LoopInv
  <2>8. ~NoInputs(b) /\ f \in AllSources(b)
    BY <1>2, <1>3 DEF NoInputs, AllSources
  <2>9. product[b][f] = file[f]
    BY <2>7, <2>8 DEF CurrentProduct
  <2>10. Output(Current)[f] = product[d][f]
    BY <2>1, <2>3, <1>3, <1>5 DEF Output
  <2>11. QED
    BY <2>4, <2>9, <2>10, <1>3
<1>6. QED
  BY <1>4, <1>5

LEMMA LinkInv ==
  ASSUME BaseType, SortInv, GraphInv, LoopInv, Link, command # "test"
  PROVE  LoopInv'
<1>1. /\ at \in DOMAIN queue /\ Current \in Artifacts /\ Current = queue[at]
      /\ at \in Nat /\ pc = "link" /\ config \in Configs
  BY DEF GraphInv, BaseType, Current, Link
<1>2. /\ UNCHANGED <<config, file, tasks, queue, command>>
      /\ product' = [product EXCEPT ![Current] = Output(Current)]
      /\ Linkable(Current) /\ pc' = "compile" /\ at' = at + 1
  BY DEF Link, AfterLink, sortVars
<1>3. PICK c \in Artifacts : c = Current
  BY <1>1
<1>4. /\ product'[c] = Output(c)
      /\ \A a \in Artifacts : a # c => product'[a] = product[a]
  BY <1>2, <1>3 DEF BaseType
<1>5. CurrentProduct(c)'
  <2>1. Output(c) \in [Files -> Nat]
    BY <1>1, <1>2, <1>3, OutputType
  <2>2. Output(c) # None
    BY <2>1, NoneAssumption
  <2>3. \A f \in AllSources(c) \cap UNION Range(tasks) : Output(c)[f] = file[f]
    BY <1>1, <1>2, <1>3, OutputIsCurrent
  <2>4. (AllSources(c))' = AllSources(c)
    BY <1>2 DEF AllSources, StaticDeps, Linked, LinkedIn, Declared
  <2>5. QED
    BY <1>2, <1>4, <2>2, <2>3, <2>4 DEF CurrentProduct
<1>6. IsInjective(queue)
  <2>1. queue[at] \in Range(list) /\ list = Installed
    <3>1. queue[at] \in Range(queue)
      BY <1>1 DEF Range
    <3>2. queue[at] \in Range(list)
      BY <3>1 DEF GraphInv
    <3>3. QED
      BY <3>2 DEF GraphInv, AllArtifacts, Range
  <2>2. IsInjective(list) /\ LinksListedOnce
    BY <2>1, <1>1, ConfigType, InjectiveLists DEF BaseType
  <2>3. QED
    BY <2>2 DEF SortInv, SortedSoFar
<1>7. ASSUME NEW a \in Artifacts, NEW i \in DOMAIN queue, i < at + 1, queue[i] = a
      PROVE  CurrentProduct(a)'
  <2>1. CASE i = at
    BY <2>1, <1>1, <1>3, <1>5, <1>7
  <2>2. CASE i < at
    <3>1. CurrentProduct(a)
      BY <1>7, <2>2, <1>1 DEF LoopInv
    <3>2. a # c
      BY <1>1, <1>3, <1>6, <1>7, <2>2 DEF IsInjective
    <3>3. QED
      BY <3>1, <3>2, <1>2, <1>4, CurrentUnchanged
  <2>3. QED
    BY <1>1, <1>7, <2>1, <2>2 DEF BaseType
<1>8. QED
  BY <1>2, <1>7 DEF LoopInv

LEMMA LoopInit == Init => LoopInv
BY DEF Init, Idle, LoopInv

\* Outside the loop, and where a command fails, there is nothing to show.
LEMMA NotLooping ==
  ASSUME pc' \notin {"compile", "link", "test", "run"},
         pc' = "custom" => command' # "test", pc' = "done" => ~ok'
  PROVE  LoopInv'
BY Zenon DEF LoopInv

LEMMA CompileInv ==
  ASSUME BaseType, GraphInv, LoopInv, Compile
  PROVE  LoopInv'
<1>1. /\ UNCHANGED <<config, file, product, tasks, queue, at, command>>
      /\ pc = "compile" /\ pc' = "link" /\ AtArtifact
  BY DEF Compile, ToBuild, sortVars, loopVars
<1>2. at \in DOMAIN queue /\ Current \in Artifacts /\ tasks[Current] \subseteq Files
  BY <1>1, CurrentType
<1>3. \A f \in tasks[Current] : object'[f] = file[f]
  BY <1>2 DEF Compile, Compiled, Pending, BaseType
<1>4. ASSUME command # "test", NEW a \in Artifacts,
             \E i \in DOMAIN queue : i < at /\ queue[i] = a
      PROVE  CurrentProduct(a)'
  BY <1>1, <1>4, CurrentUnchanged DEF LoopInv
<1>5. Current' = Current
  BY <1>1 DEF Current
<1>6. QED
  BY <1>1, <1>3, <1>4, <1>5 DEF LoopInv

\* An artifact that has nothing to link is current: it has no product to speak of.
LEMMA LinkNothingInv ==
  ASSUME BaseType, GraphInv, LoopInv, LinkNothing, command # "test"
  PROVE  LoopInv'
<1>1. /\ UNCHANGED <<config, file, product, tasks, queue, command>>
      /\ pc = "link" /\ pc' = "compile" /\ at' = at + 1 /\ NoInputs(Current)
  BY DEF LinkNothing, AfterLink, diskVars, sortVars
<1>2. ASSUME NEW a \in Artifacts, NEW i \in DOMAIN queue, i < at + 1, queue[i] = a
      PROVE  CurrentProduct(a)
  <2>1. CASE i = at
    BY <2>1, <1>1, <1>2 DEF CurrentProduct, Current
  <2>2. CASE i < at
    BY <2>2, <1>1, <1>2 DEF LoopInv
  <2>3. QED
    BY <1>2, <2>1, <2>2 DEF BaseType
<1>3. \A a \in Artifacts : (\E i \in DOMAIN queue : i < at + 1 /\ queue[i] = a)
                              => CurrentProduct(a)'
  BY <1>1, <1>2, CurrentUnchanged
<1>4. QED
  BY <1>1, <1>3 DEF LoopInv

\* The loop ends when it has passed every artifact of the build order.
LEMMA LoopDoneInv ==
  ASSUME BaseType, LoopInv, LoopDone, command # "test"
  PROVE  LoopInv'
<1>1. /\ UNCHANGED <<config, file, product, tasks, queue, command>>
      /\ pc = "compile" /\ pc' \in {"run", "done"} /\ at > Len(queue)
  BY DEF LoopDone, AtArtifact, Finish, BaseType, diskVars, sortVars, loopVars
<1>2. ASSUME NEW a \in Artifacts \cap Range(queue) PROVE CurrentProduct(a)
  <2>1. PICK i \in DOMAIN queue : queue[i] = a
    BY DEF Range
  <2>2. i < at
    BY <1>1 DEF BaseType
  <2>3. QED
    BY <2>1, <2>2, <1>1 DEF LoopInv
<1>3. \A a \in Artifacts \cap Range(queue) : CurrentProduct(a)'
  BY <1>1, <1>2, CurrentUnchanged
<1>4. Range(queue)' = Range(queue)
  BY <1>1
<1>5. QED
  BY <1>1, <1>3, <1>4 DEF LoopInv

LEMMA RunFirstInv ==
  ASSUME LoopInv, RunFirst
  PROVE  LoopInv'
<1>1. /\ UNCHANGED <<config, file, product, tasks, queue, command>>
      /\ pc = "run" /\ pc' = "done" /\ command # "test"
  BY DEF RunFirst, Finish, LoopInv, diskVars, sortVars, loopVars
<1>2. \A a \in Artifacts \cap Range(queue) : CurrentProduct(a)
  BY <1>1 DEF LoopInv
<1>3. \A a \in Artifacts \cap Range(queue) : CurrentProduct(a)'
  BY <1>1, <1>2, CurrentUnchanged
<1>4. Range(queue)' = Range(queue)
  BY <1>1
<1>5. QED
  BY <1>1, <1>3, <1>4 DEF LoopInv

LEMMA LoopStep == BaseType /\ SortInv /\ GraphInv /\ LoopInv /\ [Next]_vars => LoopInv'
<1> SUFFICES ASSUME BaseType, SortInv, GraphInv, LoopInv, [Next]_vars PROVE LoopInv'
  OBVIOUS
<1>1. CASE UNCHANGED vars
  <2>1. /\ UNCHANGED <<config, file, object, product, command, tasks, queue, at>>
        /\ pc' = pc /\ ok' = ok
    BY <1>1, Zenon DEF vars
  <2>2. \A a : CurrentProduct(a) => CurrentProduct(a)'
    BY <2>1, CurrentUnchanged
  <2>3. Current' = Current /\ Range(queue)' = Range(queue)
    BY <2>1 DEF Current
  <2>4. CASE pc = "done"
    BY <2>1, <2>2, <2>3, <2>4, Zenon DEF LoopInv
  <2>5. CASE pc # "done"
    BY <2>1, <2>2, <2>3, <2>5 DEF LoopInv
  <2>6. QED
    BY <2>4, <2>5
<1>2. CASE Edit \/ Start \/ ConfigFails \/ SortStart \/ Seed \/ Seeded \/ Pop \/ Decrement
  <2>1. pc' \notin {"custom", "compile", "link", "test", "run"}
    BY <1>2 DEF Edit, Start, ConfigFails, SortStart, Seed, Seeded, Pop, Decrement, Finish
  <2>2. pc' = "done" => ~ok'
    <3>1. CASE ConfigFails
      BY <3>1, Zenon DEF ConfigFails, Finish
    <3>2. CASE ~ConfigFails
      BY <1>2, <3>2 DEF Edit, Start, SortStart, Seed, Seeded, Pop, Decrement
    <3>3. QED
      BY <3>1, <3>2
  <2>3. QED
    BY <2>1, <2>2, NotLooping
<1>3. CASE StepFails \/ CompileFails \/ LinkFails \/ TestFails
  <2>1. pc' = "done" /\ ~ok'
    BY <1>3, Zenon DEF StepFails, CompileFails, LinkFails, TestFails, Finish
  <2>2. QED
    BY <2>1, NotLooping
<1>4. CASE Return \/ Kill
  <2>1. pc' = "idle"
    BY <1>4 DEF Return, Kill, Exit
  <2>2. QED
    BY <2>1, NotLooping
<1>5. CASE SkipStep \/ RunStep
  <2>1. pc' = "custom" /\ command' = command /\ command # "test"
    BY <1>5 DEF SkipStep, RunStep, AtStep, LoopInv
  <2>2. QED
    BY <2>1, NotLooping
<1>6. CASE NoTests \/ PassOver \/ RunTest
  <2>1. command' = command /\ command = "test" /\ pc' \in {"done", "compile"}
    BY <1>6 DEF NoTests, PassOver, RunTest, Finish, LoopInv
  <2>2. QED
    BY <2>1 DEF LoopInv
<1>7. CASE Resolve
  <2>1. /\ command' = command
        /\ pc' \in {"custom", "compile"} /\ (pc' = "compile" <=> command = "test")
    BY <1>7 DEF Resolve
  <2>2. QED
    BY <2>1 DEF LoopInv
<1>8. CASE StepsDone
  <2>1. at' = 1 /\ pc' = "compile" /\ queue' = queue /\ queue \in Seq(Artifacts)
    BY <1>8 DEF StepsDone, sortVars, BaseType
  <2>2. \A i \in DOMAIN queue' : ~(i < at')
    BY <2>1
  <2>3. QED
    BY <2>1, <2>2 DEF LoopInv
<1>9. CASE (Link \/ LinkNothing \/ LoopDone) /\ command = "test"
  <2>1. command' = "test" /\ pc' \in {"test", "done"}
    BY <1>9 DEF Link, LinkNothing, LoopDone, AfterLink, Finish
  <2>2. QED
    BY <2>1 DEF LoopInv
<1>10. CASE (Link \/ LinkNothing \/ LoopDone) /\ command # "test"
  BY <1>10, LinkInv, LinkNothingInv, LoopDoneInv
<1>11. CASE Compile \/ RunFirst
  BY <1>11, CompileInv, RunFirstInv
<1>12. QED
  BY <1>1, <1>2, <1>3, <1>4, <1>5, <1>6, <1>7, <1>8, <1>9, <1>10, <1>11
     DEF Next, CommandStep

\* A build that succeeds has linked the last version of every source it has tasks
\* for into every product, through archives of archives of any depth.
THEOREM BuildIsCurrentHolds == Spec => []BuildIsCurrent
<1>1. Spec => [](BaseType /\ SortInv /\ GraphInv /\ LoopInv)
  BY TypeInit, TypeStep, SortInit, SortStep, GraphInit, GraphStep, LoopInit, LoopStep,
     PTL DEF Spec
<1>2. BaseType /\ LoopInv => BuildIsCurrent
  <2>1. SUFFICES ASSUME BaseType, LoopInv, Succeeded({"build", "run"})
                 PROVE  \A a \in Range(queue) : CurrentProduct(a)
    BY DEF BuildIsCurrent, CurrentProduct
  <2>2. pc = "done" /\ ok /\ command # "test"
    BY <2>1 DEF Succeeded
  <2>3. Range(queue) \subseteq Artifacts
    BY <2>1 DEF BaseType, Range
  <2>4. QED
    BY <2>1, <2>2, <2>3 DEF LoopInv
<1>3. QED
  BY <1>1, <1>2, PTL
==============================================================================
