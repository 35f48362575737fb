------------------------- MODULE BuildHistory_proofs -------------------------
(**************************************************************************)
(* Proofs about BuildGraph's custom steps and about `spkg test`: what a   *)
(* build that succeeded leaves behind, what the tests find of it, and why *)
(* every command comes to an end.                                         *)
(**************************************************************************)
EXTENDS BuildGraph_proofs

-----------------------------------------------------------------------------
(* Custom steps.  custom_needs_run compares with the newest output, so it is *)
(* right about the newest; it speaks for the others where all are written    *)
(* together.  What a step has read no later step writes.                     *)

StepIndex == DOMAIN config.steps
OneAge(n) == \A o, p \in config.steps[n].outs : file[o] = file[p]
UpToDate(n) ==
    LET outs == config.steps[n].outs
    IN  /\ \A o \in outs : file[o] # 0
        /\ outs # {} => \A i \in config.steps[n].ins : \E o \in outs : file[i] <= file[o]
StepsPassed ==
    \/ pc \in {"compile", "link", "run"}
    \/ pc = "done" /\ ok

StepInv ==
    /\ \A f \in Files : file[f] <= clock
    /\ \A n \in StepIndex : Together(n) => OneAge(n)
    /\ StepsInOrder =>
        /\ pc = "custom" => \A n \in StepIndex : n < at => UpToDate(n)
        /\ StepsPassed /\ command # "test" => \A n \in StepIndex : UpToDate(n)

-----------------------------------------------------------------------------
(* Tests.                                                                *)

\* What the loop of every command keeps, and what is known of the archives.
TestInv ==
    /\ pc \notin {"idle", "config", "done"} => list = AllArtifacts
    /\ command = "test" /\ pc \in {"link", "test"} =>
            at \in DOMAIN queue /\ IsTest(Current)
    /\ command = "test" /\ pc = "link" => \A f \in tasks[Current] : object[f] = file[f]
    /\ \A d \in Artifacts : config.type[d] = "staticlib" /\ product[d] # None =>
            d \in Range(Installed) \ StuckIn(Installed)

HoldsSources(a) == \A f \in config.sources[a] : product[a][f] = file[f]
Fresh(a) ==
    ~NoInputs(a) => product[a] # None /\ \A f \in AllSources(a) : product[a][f] = file[f]

\* The artifacts that the loop over the build order has left behind.
Behind(i) == i < at \/ (i = at /\ pc = "test")
Passed(a) ==
    \/ pc \in {"compile", "link", "test"} /\ \E i \in DOMAIN queue : Behind(i) /\ queue[i] = a
    \/ pc = "done" /\ ok /\ a \in Range(queue)

\* Nothing was edited since a build succeeded: no step has anything to write, so
\* a source that is no task does not exist, and the archives hold what is there.
SettledInv ==
    StepsInOrder =>
        /\ (settled \/ command = "test") /\ pc \in {"custom", "compile", "link", "test"} =>
                \A a \in Range(queue) : \A f \in config.sources[a] \ tasks[a] : file[f] = 0
        /\ settled =>
            /\ \A n \in StepIndex : UpToDate(n)
            /\ \A d \in Artifacts :
                    config.type[d] = "staticlib" /\ product[d] # None => HoldsSources(d)
            /\ command = "test" => \A a \in Artifacts : IsTest(a) /\ Passed(a) => Fresh(a)

LEMMA StepFields ==
  ASSUME config \in Configs, NEW n \in StepIndex
  PROVE  /\ n \in Nat \ {0}
         /\ config.steps[n].ins \subseteq Files /\ config.steps[n].outs \subseteq Files
<1> DEFINE Fields == [ins : SUBSET Files, outs : SUBSET Files]
<1>1. config.steps \in Seq(Fields)
  BY ConfigType
<1> HIDE DEF Fields
<1>2. n \in Nat \ {0} /\ config.steps[n] \in Fields
  BY <1>1 DEF StepIndex
<1>3. QED
  BY <1>2 DEF Fields

LEMMA AtStepIndex ==
  ASSUME BaseType, AtStep
  PROVE  at \in StepIndex /\ Step = config.steps[at]
<1>1. config.steps \in Seq([ins : SUBSET Files, outs : SUBSET Files])
  BY ConfigType DEF BaseType
<1>2. QED
  BY <1>1 DEF AtStep, BaseType, StepIndex, Step

\* Nothing the steps are about is declared anew.
LEMMA StepsStill ==
  ASSUME config' = config
  PROVE  /\ StepIndex' = StepIndex
         /\ StepsInOrder' <=> StepsInOrder
         /\ Installed' = Installed
         /\ \A n : Together(n)' <=> Together(n)
         /\ file' = file => \A n : (UpToDate(n)' <=> UpToDate(n)) /\ (OneAge(n)' <=> OneAge(n))
BY DEF StepIndex, Together, StepsInOrder, UpToDate, OneAge, Installed

\* A step writes all its outputs at one time, or, where it may leave some, has one.
LEMMA WriteAges ==
  ASSUME BaseType, config' = config, \A f \in Files : file[f] <= clock,
         NEW m \in StepIndex, NEW W \in SUBSET config.steps[m].outs, Write(W),
         W = config.steps[m].outs \/ W = {} \/ PartialSteps
  PROVE  /\ \A f \in Files : file'[f] = IF f \in W THEN clock + 1 ELSE file[f]
         /\ \A f \in Files : file'[f] <= clock'
         /\ \A n \in StepIndex : Together(n) /\ OneAge(n) => OneAge(n)'
<1>1. \A f \in Files : file'[f] = IF f \in W THEN clock + 1 ELSE file[f]
  BY DEF Write
<1>2. ASSUME NEW f \in Files PROVE file'[f] <= clock'
  <2>1. CASE W = {}
    BY <1>1, <2>1 DEF Write
  <2>2. CASE W # {}
    <3>1. clock' = clock + 1 /\ file[f] \in Nat /\ clock \in Nat /\ file[f] <= clock
      BY <2>2 DEF Write, BaseType
    <3>2. QED
      BY <1>1, <3>1
  <2>3. QED
    BY <2>1, <2>2
<1>3. ASSUME NEW n \in StepIndex, Together(n), OneAge(n), NEW o \in config.steps[n].outs,
             NEW p \in config.steps[n].outs, o # p
      PROVE  file'[o] = file'[p]
  <2>1. o \in Files /\ p \in Files /\ file[o] = file[p]
    BY <1>3, StepFields DEF BaseType, OneAge
  <2>2. /\ ~PartialSteps
        /\ \A k \in StepIndex \ {n} :
                o \notin config.steps[k].outs /\ p \notin config.steps[k].outs
    BY <1>3 DEF Together, StepIndex
  <2>3. CASE n = m
    BY <1>1, <1>3, <2>1, <2>2, <2>3
  <2>4. CASE n # m
    <3>1. o \notin W /\ p \notin W
      BY <2>2, <2>4
    <3>2. QED
      BY <1>1, <2>1, <3>1
  <2>5. QED
    BY <2>3, <2>4
<1>4. \A n \in StepIndex : Together(n) /\ OneAge(n) => OneAge(n)'
  BY <1>3 DEF OneAge
<1>5. QED
  BY <1>1, <1>2, <1>4

LEMMA PartialAges ==
  ASSUME BaseType, StepInv, AtStep, PartialWrite, config' = config
  PROVE  /\ \A f \in Files : file'[f] <= clock'
         /\ \A n \in StepIndex' : Together(n)' => OneAge(n)'
<1>1. PICK W \in (IF PartialSteps THEN SUBSET Step.outs ELSE {{}}) : Write(W)
  BY DEF PartialWrite
<1>2. at \in StepIndex /\ W \in SUBSET config.steps[at].outs /\ (W = {} \/ PartialSteps)
  BY <1>1, AtStepIndex
<1>3. \A f \in Files : file[f] <= clock
  BY DEF StepInv
<1>4. QED
  BY <1>1, <1>2, <1>3, WriteAges, StepsStill DEF StepInv

\* The newest output: there is one, for none is newer than the clock.
LEMMA NewestOutput ==
  ASSUME BaseType, \A f \in Files : file[f] <= clock,
         NEW n \in StepIndex, config.steps[n].outs # {}
  PROVE  LET newest == Max({file[p] : p \in config.steps[n].outs})
         IN  /\ \E o \in config.steps[n].outs : newest = file[o]
             /\ \A o \in config.steps[n].outs : file[o] <= newest
<1> DEFINE T == {file[p] : p \in config.steps[n].outs}
<1>1. T \subseteq Nat
  BY StepFields DEF BaseType
<1> DEFINE Age(t) == clock - t
           Ages == {Age(t) : t \in T}
<1>2. clock \in Nat /\ \A t \in T : t <= clock
  BY StepFields DEF BaseType
<1>3. PICK m \in Ages : \A k \in Ages : m <= k
  <2>1. Ages \in SUBSET Nat /\ \E k : k \in Ages
    BY <1>1, <1>2
  <2> HIDE DEF Ages
  <2>2. QED
    BY <2>1, Least
<1>4. PICK t \in T : m = clock - t
  OBVIOUS
<1> HIDE DEF T
<1>5. \A u \in T : t >= u
  BY <1>1, <1>2, <1>3, <1>4
<1>6. Max(T) \in T /\ \A u \in T : Max(T) >= u
  BY <1>5 DEF Max
<1>7. QED
  BY <1>1, <1>6 DEF T

\* custom_needs_run is right about the newest output, in both directions.
LEMMA NeedsRunIsRight ==
  ASSUME BaseType, \A f \in Files : file[f] <= clock, AtStep
  PROVE  NeedsRun <=> Step.outs = {} \/ ~UpToDate(at)
<1>1. at \in StepIndex /\ Step = config.steps[at]
  BY AtStepIndex
<1>2. Step.ins \subseteq Files /\ Step.outs \subseteq Files
  BY <1>1, StepFields DEF BaseType
<1> DEFINE newest == Max({file[p] : p \in Step.outs})
<1>3. ASSUME Step.outs # {}
      PROVE  (\E o \in Step.outs : newest = file[o]) /\ (\A o \in Step.outs : file[o] <= newest)
  BY <1>1, <1>3, NewestOutput
<1>4. NeedsRun <=> \/ Step.outs = {}
                   \/ \E o \in Step.outs : file[o] = 0
                   \/ \E i \in Step.ins : file[i] > newest
  BY DEF NeedsRun
<1>5. \A f \in Step.ins \cup Step.outs : file[f] \in Nat
  BY <1>2 DEF BaseType
<1> HIDE DEF newest
<1>6. ASSUME Step.outs # {}, NEW i \in Step.ins
      PROVE  file[i] > newest <=> ~(\E o \in Step.outs : file[i] <= file[o])
  BY <1>3, <1>5, <1>6
<1>7. QED
  BY <1>1, <1>4, <1>6 DEF UpToDate

LEMMA StepInit == Init => StepInv
<1> SUFFICES ASSUME Init PROVE StepInv
  OBVIOUS
<1>1. file = [f \in Files |-> IF f \in Generated THEN 0 ELSE 1]
  BY DEF Init
<1>2. pc = "idle" /\ clock = 1 /\ config \in Configs
  BY DEF Init, Idle
<1>3. ASSUME NEW n \in StepIndex, NEW o \in config.steps[n].outs PROVE file[o] = 0
  <2>1. o \in Files
    BY <1>2, <1>3, StepFields
  <2>2. o \in Generated
    BY <1>3 DEF Generated, StepIndex
  <2>3. QED
    BY <1>1, <2>1, <2>2
<1>4. \A f \in Files : file[f] <= clock
  BY <1>1, <1>2
<1>5. \A n \in StepIndex : OneAge(n)
  BY <1>3 DEF OneAge
<1>6. QED
  BY <1>2, <1>4, <1>5 DEF StepInv, StepsPassed

\* Whatever leaves the files alone and is not further than the steps are.
LEMMA StepUnchanged ==
  ASSUME StepInv, UNCHANGED <<config, file, clock>>,
         pc' = "custom" => (pc = "custom" /\ at' = at) \/ at' = 1, config \in Configs,
         StepsPassed' /\ command' # "test" => StepsPassed /\ command # "test"
  PROVE  StepInv'
<1>1. /\ StepIndex' = StepIndex
      /\ (StepsInOrder' <=> StepsInOrder) /\ \A n : Together(n)' <=> Together(n)
      /\ \A n : (UpToDate(n)' <=> UpToDate(n)) /\ (OneAge(n)' <=> OneAge(n))
  BY StepsStill
<1>2. \A n \in StepIndex : ~(n < 1)
  BY StepFields
<1>3. QED
  BY <1>1, <1>2 DEF StepInv

\* Files that change outside the loop over the artifacts.
LEMMA StepAges ==
  ASSUME \A f \in Files : file'[f] <= clock',
         \A n \in StepIndex' : Together(n)' => OneAge(n)',
         pc' # "custom", ~StepsPassed'
  PROVE  StepInv'
BY DEF StepInv

LEMMA EditInv == BaseType /\ StepInv /\ Edit => StepInv'
<1> SUFFICES ASSUME BaseType, StepInv, Edit PROVE StepInv'
  OBVIOUS
<1>1. PICK g \in Written : file' = [file EXCEPT ![g] = clock + 1]
  BY DEF Edit
<1>2. config' = config /\ clock' = clock + 1 /\ pc' = "idle"
  BY DEF Edit
<1>3. \A f \in Files : file'[f] = IF f = g THEN clock + 1 ELSE file[f]
  BY <1>1 DEF BaseType
<1>4. ASSUME NEW f \in Files PROVE file'[f] <= clock'
  <2>1. file[f] \in Nat /\ clock \in Nat /\ file[f] <= clock
    BY DEF StepInv, BaseType
  <2>2. file'[f] \in {clock + 1, file[f]}
    BY <1>3
  <2>3. QED
    BY <1>2, <2>1, <2>2
<1>5. ASSUME NEW n \in StepIndex, NEW o \in config.steps[n].outs
      PROVE  file'[o] = file[o]
  <2>1. o \in Files /\ o # g
    BY <1>1, <1>5, StepFields DEF Written, Generated, StepIndex, BaseType
  <2>2. QED
    BY <1>3, <2>1
<1>6. \A n \in StepIndex' : Together(n)' => OneAge(n)'
  BY <1>2, <1>5, StepsStill DEF StepInv, OneAge
<1>7. QED
  BY <1>2, <1>4, <1>6, StepAges DEF StepsPassed

LEMMA SkipStepInv == BaseType /\ StepInv /\ SkipStep => StepInv'
<1> SUFFICES ASSUME BaseType, StepInv, SkipStep PROVE StepInv'
  OBVIOUS
<1>1. /\ UNCHANGED <<config, file, clock>> /\ at' = at + 1
      /\ pc = "custom" /\ pc' = "custom" /\ AtStep /\ ~NeedsRun
  BY DEF SkipStep, AtStep, diskVars
<1>2. /\ StepIndex' = StepIndex
      /\ (StepsInOrder' <=> StepsInOrder) /\ \A n : Together(n)' <=> Together(n)
      /\ \A n : (UpToDate(n)' <=> UpToDate(n)) /\ (OneAge(n)' <=> OneAge(n))
  BY <1>1, StepsStill
<1>3. ASSUME StepsInOrder, NEW n \in StepIndex, n < at + 1 PROVE UpToDate(n)
  <2>1. CASE n = at
    BY <1>1, <2>1, NeedsRunIsRight DEF StepInv
  <2>2. CASE n # at
    <3>1. n < at
      BY <1>3, <2>2, StepFields DEF BaseType
    <3>2. QED
      BY <1>1, <1>3, <3>1 DEF StepInv
  <2>3. QED
    BY <2>1, <2>2
<1>4. QED
  BY <1>1, <1>2, <1>3 DEF StepInv, StepsPassed

LEMMA RunStepInv == BaseType /\ StepInv /\ RunStep => StepInv'
<1> SUFFICES ASSUME BaseType, StepInv, RunStep PROVE StepInv'
  OBVIOUS
<1>1. /\ config' = config /\ at' = at + 1 /\ Write(Step.outs)
      /\ pc = "custom" /\ pc' = "custom" /\ AtStep
  BY DEF RunStep, AtStep
<1>2. at \in StepIndex /\ Step = config.steps[at]
  BY <1>1, AtStepIndex
<1>3. \A f \in Files : file[f] <= clock
  BY DEF StepInv
<1>4. /\ \A f \in Files : file'[f] = IF f \in Step.outs THEN clock + 1 ELSE file[f]
      /\ \A f \in Files : file'[f] <= clock'
      /\ \A n \in StepIndex : Together(n) /\ OneAge(n) => OneAge(n)'
  BY <1>1, <1>2, <1>3, WriteAges
<1>5. /\ StepIndex' = StepIndex
      /\ (StepsInOrder' <=> StepsInOrder) /\ \A n : Together(n)' <=> Together(n)
  BY <1>1, StepsStill
<1>6. /\ clock \in Nat /\ \A f \in Files : file[f] \in Nat /\ file'[f] \in Nat
      /\ \A f \in Files : file[f] <= file'[f]
  <2>1. file' \in [Files -> Nat]
    BY <1>1, WriteType
  <2>2. /\ clock \in Nat /\ \A f \in Files : file[f] \in Nat /\ file'[f] \in Nat
        /\ \A f \in Files : file[f] <= clock
    BY <1>3, <2>1 DEF BaseType
  <2>3. ASSUME NEW f \in Files PROVE file[f] <= file'[f]
    BY <1>4, <2>2
  <2>4. QED
    BY <2>2, <2>3
<1>7. ASSUME StepsInOrder, NEW n \in StepIndex, n < at + 1 PROVE UpToDate(n)'
  <2>1. config.steps[n].ins \subseteq Files /\ config.steps[n].outs \subseteq Files /\ n \in Nat
    BY StepFields DEF BaseType
  <2>2. CASE n = at
    <3>1. \A o \in Step.outs : file'[o] = clock + 1 /\ clock' = clock + 1
      BY <1>1, <1>2, <1>4, <2>1, <2>2 DEF Write
    <3>2. \A f \in Files : file'[f] <= clock'
      BY <1>4
    <3>3. ASSUME NEW o \in Step.outs
          PROVE  file'[o] # 0 /\ \A i \in Step.ins : file'[i] <= file'[o]
      BY <1>2, <1>6, <2>1, <2>2, <3>1, <3>2
    <3>4. QED
      BY <1>1, <1>2, <2>2, <3>3 DEF UpToDate
  <2>3. CASE n # at
    <3>1. n < at
      BY <1>7, <2>1, <2>3 DEF BaseType
    <3>2. UpToDate(n)
      BY <1>1, <1>7, <3>1 DEF StepInv
    <3>3. config.steps[n].ins \cap Step.outs = {}
      BY <1>2, <1>7, <3>1 DEF StepsInOrder, StepIndex
    <3>4. \A i \in config.steps[n].ins : file'[i] = file[i]
      BY <1>4, <2>1, <3>3
    <3>5. ASSUME NEW o \in config.steps[n].outs PROVE file'[o] # 0
      BY <1>6, <2>1, <3>2 DEF UpToDate
    <3>6. ASSUME NEW i \in config.steps[n].ins, config.steps[n].outs # {}
          PROVE  \E o \in config.steps[n].outs : file'[i] <= file'[o]
      <4>1. PICK o \in config.steps[n].outs : file[i] <= file[o]
        BY <3>2, <3>6 DEF UpToDate
      <4>2. o \in Files /\ i \in Files
        BY <2>1
      <4>3. QED
        BY <1>6, <3>4, <4>1, <4>2
    <3>7. QED
      BY <1>1, <3>5, <3>6 DEF UpToDate
  <2>4. QED
    BY <2>2, <2>3
<1>8. QED
  BY <1>1, <1>4, <1>5, <1>7 DEF StepInv, StepsPassed

LEMMA StepsDoneInv == BaseType /\ StepInv /\ StepsDone => StepInv'
<1> SUFFICES ASSUME BaseType, StepInv, StepsDone PROVE StepInv'
  OBVIOUS
<1>1. /\ UNCHANGED <<config, file, clock>> /\ pc = "custom" /\ pc' = "compile"
      /\ at > Len(config.steps)
  BY DEF StepsDone, diskVars
<1>2. /\ StepIndex' = StepIndex
      /\ (StepsInOrder' <=> StepsInOrder) /\ \A n : Together(n)' <=> Together(n)
      /\ \A n : (UpToDate(n)' <=> UpToDate(n)) /\ (OneAge(n)' <=> OneAge(n))
  BY <1>1, StepsStill
<1>3. \A n \in StepIndex : n < at
  <2>1. config.steps \in Seq([ins : SUBSET Files, outs : SUBSET Files])
    BY ConfigType DEF BaseType
  <2>2. QED
    BY <1>1, <2>1 DEF BaseType, StepIndex
<1>4. QED
  BY <1>1, <1>2, <1>3 DEF StepInv

LEMMA StepStep == BaseType /\ LoopInv /\ StepInv /\ [Next]_vars => StepInv'
<1> SUFFICES ASSUME BaseType, LoopInv, StepInv, [Next]_vars PROVE StepInv'
  OBVIOUS
<1>0. config \in Configs
  BY DEF BaseType
<1>1. CASE UNCHANGED vars
  <2>1. UNCHANGED <<config, file, clock, pc, at, command>> /\ (StepsPassed' <=> StepsPassed)
    BY <1>1, Zenon DEF vars, StepsPassed
  <2>2. QED
    BY <1>0, <2>1, StepUnchanged
<1>2. CASE Start \/ SortStart \/ Seed \/ Seeded \/ Pop \/ Decrement \/ Return
  <2>1. UNCHANGED <<config, file, clock>> /\ pc' \in {"config", "seed", "sort", "idle"}
    BY <1>2 DEF Start, SortStart, Seed, Seeded, Pop, Decrement, Return, Exit, diskVars
  <2>2. QED
    BY <1>0, <2>1, StepUnchanged DEF StepsPassed
<1>3. CASE ConfigFails \/ CompileFails \/ LinkFails \/ TestFails
  <2>1. UNCHANGED <<config, file, clock>> /\ pc' = "done" /\ ~ok'
    BY <1>3, Zenon DEF ConfigFails, CompileFails, LinkFails, TestFails, Finish, diskVars
  <2>2. pc' # "custom" /\ ~StepsPassed'
    BY <2>1 DEF StepsPassed
  <2>3. QED
    BY <1>0, <2>1, <2>2, StepUnchanged
<1>4. CASE NoTests
  <2>1. UNCHANGED <<config, file, clock>> /\ pc' = "done" /\ command' = "test"
    BY <1>4 DEF NoTests, Finish, diskVars
  <2>2. QED
    BY <1>0, <2>1, StepUnchanged
<1>5. CASE Resolve
  <2>1. /\ UNCHANGED <<config, file, clock>> /\ at' = 1
        /\ pc' = IF command' = "test" THEN "compile" ELSE "custom"
    BY <1>5 DEF Resolve, diskVars
  <2>2. QED
    BY <1>0, <2>1, StepUnchanged DEF StepsPassed
<1>6. CASE PassOver \/ Compile \/ LinkNothing \/ Link \/ RunTest
  <2>1. /\ UNCHANGED <<config, file, clock, command>>
        /\ pc' \in {"compile", "link", "test"}
        /\ pc \in {"compile", "link"} \/ command = "test"
    BY <1>6 DEF PassOver, Compile, ToBuild, LinkNothing, Link, RunTest, AfterLink,
       diskVars, LoopInv
  <2>2. QED
    BY <1>0, <2>1, StepUnchanged DEF StepsPassed
<1>7. CASE LoopDone \/ RunFirst
  <2>1. /\ UNCHANGED <<config, file, clock, command>>
        /\ pc' \in {"run", "done"} /\ pc \in {"compile", "run"}
    BY <1>7 DEF LoopDone, RunFirst, Finish, diskVars
  <2>2. QED
    BY <1>0, <2>1, StepUnchanged DEF StepsPassed
<1>8. CASE StepFails
  <2>1. AtStep /\ PartialWrite /\ config' = config /\ pc' = "done" /\ ~ok'
    BY <1>8, Zenon DEF StepFails, Finish
  <2>2. pc' # "custom" /\ ~StepsPassed'
    BY <2>1 DEF StepsPassed
  <2>3. QED
    BY <2>1, <2>2, PartialAges, StepAges
<1>9. CASE Kill
  <2>1. config' = config /\ pc' = "idle"
    BY <1>9 DEF Kill, Exit
  <2>2. CASE UNCHANGED <<file, clock>>
    BY <1>0, <2>1, <2>2, StepUnchanged DEF StepsPassed
  <2>3. CASE AtStep /\ PartialWrite
    BY <2>1, <2>3, PartialAges, StepAges DEF StepsPassed
  <2>4. QED
    BY <1>9, <2>2, <2>3 DEF Kill, diskVars
<1>10. CASE Edit
  BY <1>10, EditInv
<1>11. CASE SkipStep \/ RunStep \/ StepsDone
  BY <1>11, SkipStepInv, RunStepInv, StepsDoneInv
<1>12. QED
  BY <1>1, <1>2, <1>3, <1>4, <1>5, <1>6, <1>7, <1>8, <1>9, <1>10, <1>11
     DEF Next, CommandStep

LEMMA Loops == Spec => [](BaseType /\ SortInv /\ GraphInv /\ LoopInv)
BY TypeInit, TypeStep, SortInit, SortStep, GraphInit, GraphStep, LoopInit, LoopStep,
   PTL DEF Spec

LEMMA Steps == Spec => []StepInv
<1>1. BaseType /\ LoopInv /\ StepInv /\ [Next]_vars => StepInv'
  BY StepStep
<1>2. QED
  BY <1>1, StepInit, Loops, PTL DEF Spec

\* Whatever custom steps there are, if none reads what a later one writes, then a
\* build that succeeds leaves every output there and every input covered by an output
\* that is not older, by each of them where they are only written together; whatever
\* was edited, failed or was killed before.
THEOREM StepsAreCurrentHolds == Spec => []StepsAreCurrent
<1>1. BaseType /\ StepInv => StepsAreCurrent
  <2>1. SUFFICES ASSUME BaseType, StepInv, StepsInOrder, Succeeded({"build", "run"}),
                        NEW n \in StepIndex
                 PROVE  /\ UpToDate(n)
                        /\ Together(n) => \A i \in config.steps[n].ins :
                                \A o \in config.steps[n].outs : file[i] <= file[o]
    BY DEF StepsAreCurrent, StepIndex, UpToDate
  <2>2. StepsPassed /\ command # "test"
    BY <2>1 DEF Succeeded, StepsPassed
  <2>3. UpToDate(n)
    BY <2>1, <2>2 DEF StepInv
  <2>4. ASSUME Together(n), NEW i \in config.steps[n].ins, NEW o \in config.steps[n].outs
        PROVE  file[i] <= file[o]
    <3>1. PICK p \in config.steps[n].outs : file[i] <= file[p]
      BY <2>3, <2>4 DEF UpToDate
    <3>2. OneAge(n)
      BY <2>1, <2>4 DEF StepInv
    <3>3. file[p] = file[o]
      BY <2>4, <3>2 DEF OneAge
    <3>4. QED
      BY <3>1, <3>3
  <2>5. QED
    BY <2>3, <2>4
<1>2. QED
  BY <1>1, Steps, Loops, PTL

-----------------------------------------------------------------------------
(* What the tests find.  `spkg test` links archives that only a build makes: *)
(* those the build order of the installed artifacts holds.                   *)

\* The build order of `spkg build` and `spkg run`.
LEMMA InstalledOrder ==
  ASSUME BaseType, SortInv, GraphInv, TestInv, Sorted, command # "test"
  PROVE  Range(queue) = Range(Installed) \ StuckIn(Installed)
<1>1. list = Installed
  BY DEF TestInv, Sorted, AllArtifacts
<1>2. IsInjective(list)
  BY <1>1, ConfigType DEF BaseType
<1>3. LinksListedOnce
  BY <1>2, InjectiveLists DEF BaseType
<1>4. QED
  BY <1>1, <1>3, CompleteOrder DEF OrderIsComplete

LEMMA TestInit == Init => TestInv
<1> SUFFICES ASSUME Init PROVE TestInv
  OBVIOUS
<1>1. pc = "idle" /\ \A a \in Artifacts : product[a] = None
  BY DEF Init, Idle
<1>2. QED
  BY <1>1 DEF TestInv

\* A command that starts or ends, and no product that comes to be.
LEMMA TestOutside ==
  ASSUME TestInv, config' = config, pc' \in {"idle", "config", "done"},
         \A d \in Artifacts : product'[d] # None => product[d] # None
  PROVE  TestInv'
<1>1. Installed' = Installed /\ StuckIn(Installed)' = StuckIn(Installed)
  BY DEF StuckIn, Installed
<1>2. QED
  BY <1>1 DEF TestInv

LEMMA TestUnchanged ==
  ASSUME TestInv, UNCHANGED <<config, list, command, product>>,
         pc \notin {"idle", "config", "done"},
         command = "test" => pc' \notin {"link", "test"}
  PROVE  TestInv'
<1>1. /\ Installed' = Installed /\ StuckIn(Installed)' = StuckIn(Installed)
      /\ AllArtifacts' = AllArtifacts
  BY DEF StuckIn, AllArtifacts, Installed
<1>2. QED
  BY <1>1 DEF TestInv

LEMMA CompileTested ==
  ASSUME BaseType, TestInv, Compile
  PROVE  TestInv'
<1>1. /\ UNCHANGED <<config, file, product, tasks, list, queue, at, command>>
      /\ pc = "compile" /\ pc' = "link" /\ AtArtifact /\ ToBuild
  BY DEF Compile, ToBuild, sortVars, loopVars
<1>2. at \in DOMAIN queue /\ Current \in Artifacts /\ tasks[Current] \subseteq Files
  BY <1>1, CurrentType
<1>3. \A f \in tasks[Current] : object'[f] = file[f]
  BY <1>2 DEF Compile, Compiled, Pending, BaseType
<1>4. /\ Installed' = Installed /\ StuckIn(Installed)' = StuckIn(Installed)
      /\ AllArtifacts' = AllArtifacts /\ Current' = Current
      /\ IsTest(Current)' <=> IsTest(Current)
  BY <1>1 DEF StuckIn, AllArtifacts, Installed, Current, IsTest
<1>5. command = "test" => IsTest(Current)
  BY <1>1 DEF ToBuild
<1>6. QED
  BY <1>1, <1>2, <1>3, <1>4, <1>5 DEF TestInv

LEMMA LinkTested ==
  ASSUME BaseType, SortInv, GraphInv, TestInv, Link \/ LinkNothing
  PROVE  TestInv'
<1>1. /\ UNCHANGED <<config, tasks, list, queue, command>>
      /\ pc = "link" /\ pc' = IF command = "test" THEN "test" ELSE "compile"
      /\ at' = IF command = "test" THEN at ELSE at + 1
  BY DEF Link, LinkNothing, AfterLink, sortVars
<1>2. /\ Installed' = Installed /\ StuckIn(Installed)' = StuckIn(Installed)
      /\ AllArtifacts' = AllArtifacts /\ (at' = at => Current' = Current)
      /\ \A a : IsTest(a)' <=> IsTest(a)
  BY <1>1 DEF StuckIn, AllArtifacts, Installed, Current, IsTest
<1>3. at \in DOMAIN queue /\ Current = queue[at] /\ Current \in Artifacts
  BY <1>1 DEF GraphInv, BaseType, Current
<1>4. ASSUME config.type[Current] = "staticlib"
      PROVE  Current \in Range(Installed) \ StuckIn(Installed)
  <2>1. ~IsTest(Current)
    BY <1>4, ConfigType DEF BaseType, IsTest
  <2>2. command # "test" /\ Sorted
    BY <1>1, <2>1 DEF TestInv, Sorted
  <2>3. Current \in Range(queue)
    BY <1>3 DEF Range
  <2>4. QED
    BY <2>2, <2>3, InstalledOrder
<1>5. \A d \in Artifacts : d # Current => product'[d] = product[d]
  BY DEF Link, LinkNothing, diskVars, BaseType
<1>6. ASSUME NEW d \in Artifacts, config.type[d] = "staticlib", product'[d] # None
      PROVE  d \in Range(Installed) \ StuckIn(Installed)
  BY <1>4, <1>5, <1>6 DEF TestInv
<1>7. QED
  BY <1>1, <1>2, <1>6 DEF TestInv

LEMMA TestStep ==
  BaseType /\ SortInv /\ GraphInv /\ LoopInv /\ TestInv /\ [Next]_vars => TestInv'
<1> SUFFICES ASSUME BaseType, SortInv, GraphInv, LoopInv, TestInv, [Next]_vars
             PROVE  TestInv'
  OBVIOUS
<1>1. CASE UNCHANGED vars
  <2>1. /\ UNCHANGED <<config, list, queue, at, tasks, command, product, pc, file, object>>
        /\ Installed' = Installed /\ StuckIn(Installed)' = StuckIn(Installed)
    BY <1>1 DEF vars, StuckIn, Installed
  <2>2. AllArtifacts' = AllArtifacts /\ Current' = Current /\ (IsTest(Current)' <=> IsTest(Current))
    BY <2>1 DEF AllArtifacts, Installed, Current, IsTest
  <2>3. QED
    BY <2>1, <2>2 DEF TestInv
<1>2. CASE Edit \/ Start \/ ConfigFails \/ NoTests \/ Return \/ StepFails \/ CompileFails
           \/ TestFails \/ RunFirst
  <2>1. /\ UNCHANGED <<config, product>> /\ pc' \in {"idle", "config", "done"}
    BY <1>2 DEF Edit, Start, ConfigFails, NoTests, Return, Exit, StepFails, CompileFails,
       TestFails, RunFirst, Finish, diskVars
  <2>2. QED
    BY <2>1, TestOutside
<1>3. CASE LinkFails \/ Kill
  <2>1. config' = config /\ pc' \in {"idle", "done"}
    BY <1>3 DEF LinkFails, Kill, Exit, Finish
  <2>2. \A d \in Artifacts : product'[d] # None => product[d] # None
    BY <1>3 DEF LinkFails, Kill, diskVars, BaseType
  <2>3. QED
    BY <2>1, <2>2, TestOutside
<1>4. CASE SortStart
  <2>1. /\ UNCHANGED <<config, command, product>> /\ pc' = "seed" /\ list' = AllArtifacts
        /\ Installed' = Installed /\ StuckIn(Installed)' = StuckIn(Installed)
    BY <1>4 DEF SortStart, diskVars, StuckIn, Installed
  <2>2. AllArtifacts' = AllArtifacts
    BY <2>1 DEF AllArtifacts, Installed
  <2>3. QED
    BY <2>1, <2>2 DEF TestInv
<1>5. CASE Seed \/ Seeded \/ Pop \/ Decrement \/ Resolve \/ SkipStep \/ RunStep \/ StepsDone
           \/ PassOver \/ RunTest
  <2>1. /\ UNCHANGED <<config, list, command, product>>
        /\ pc \in {"seed", "sort", "custom", "compile", "test"}
        /\ pc' \in {"seed", "sort", "custom", "compile"}
    BY <1>5 DEF Seed, Seeded, Pop, Decrement, Resolve, SkipStep, RunStep, StepsDone,
       PassOver, RunTest, AtStep, diskVars, sortVars, loopVars
  <2>2. QED
    BY <2>1, TestUnchanged
<1>6. CASE LoopDone
  <2>1. /\ UNCHANGED <<config, list, command, product>>
        /\ pc = "compile" /\ pc' \in {"run", "done"}
    BY <1>6 DEF LoopDone, Finish, diskVars, sortVars, loopVars
  <2>2. QED
    BY <2>1, TestUnchanged
<1>7. CASE Compile
  BY <1>7, CompileTested
<1>8. CASE Link \/ LinkNothing
  BY <1>8, LinkTested
<1>9. QED
  BY <1>1, <1>2, <1>3, <1>4, <1>5, <1>6, <1>7, <1>8 DEF Next, CommandStep

-----------------------------------------------------------------------------
(* Nothing was edited since a build succeeded.                           *)

ArchivesHold ==
    \A d \in Artifacts : config.type[d] = "staticlib" /\ product[d] # None => HoldsSources(d)

PassedAreFresh == \A a \in Artifacts : IsTest(a) /\ Passed(a) => Fresh(a)

\* All custom steps are up to date: one that runs has nothing to write.
LEMMA NothingToRun ==
  ASSUME BaseType, StepInv, StepsInOrder, \A n \in StepIndex : UpToDate(n),
         AtStep, NeedsRun
  PROVE  Step.outs = {}
<1>1. at \in StepIndex
  BY AtStepIndex
<1>2. QED
  BY <1>1, NeedsRunIsRight DEF StepInv

LEMMA WriteNothing ==
  ASSUME BaseType, Write({})
  PROVE  file' = file
BY DEF Write, BaseType

\* So the files stay as they are until the next edit.
LEMMA FilesStill ==
  ASSUME BaseType, StepInv, StepsInOrder, [Next]_vars, ~Edit,
         AtStep => \A n \in StepIndex : UpToDate(n)
  PROVE  file' = file
<1>1. ASSUME AtStep, NeedsRun PROVE Step.outs = {}
  BY <1>1, NothingToRun
<1>2. CASE RunStep
  BY <1>1, <1>2, WriteNothing DEF RunStep
<1>3. CASE StepFails \/ (Kill /\ AtStep /\ NeedsRun /\ PartialWrite)
  <2>1. AtStep /\ NeedsRun /\ PartialWrite
    BY <1>3 DEF StepFails
  <2>2. Write({})
    BY <1>1, <2>1 DEF PartialWrite
  <2>3. QED
    BY <2>2, WriteNothing
<1>4. CASE Kill /\ ~(AtStep /\ NeedsRun /\ PartialWrite)
  BY <1>4 DEF Kill, diskVars
<1>5. CASE UNCHANGED vars
  BY <1>5 DEF vars
<1>6. CASE Start \/ (CommandStep /\ ~RunStep /\ ~StepFails)
  BY <1>6 DEF Start, CommandStep, Return, ConfigFails, NoTests, SortStart, Seed,
     Seeded, Pop, Decrement, Resolve, SkipStep, StepsDone, PassOver, Compile,
     CompileFails, LinkNothing, Link, LinkFails, RunTest, TestFails, LoopDone,
     RunFirst, diskVars
<1>7. QED
  BY <1>2, <1>3, <1>4, <1>5, <1>6 DEF Next

LEMMA ConfigStill == [Next]_vars => config' = config
<1> SUFFICES ASSUME [Next]_vars PROVE config' = config
  OBVIOUS
<1>1. CASE Edit \/ Start \/ Kill \/ UNCHANGED vars
  BY <1>1, Zenon DEF Edit, Start, Kill, vars
<1>2. CASE CommandStep
  BY <1>2, Zenon DEF CommandStep, Return, ConfigFails, NoTests, SortStart, Seed,
     Seeded, Pop, Decrement, Resolve, SkipStep, RunStep, StepFails, StepsDone, PassOver,
     Compile, CompileFails, LinkNothing, Link, LinkFails, RunTest, TestFails, LoopDone,
     RunFirst
<1>3. QED
  BY <1>1, <1>2 DEF Next

\* Only a build that succeeds settles things, and only an edit unsettles them.
LEMMA SettledStep ==
  ASSUME [Next]_vars, settled'
  PROVE  ~Edit /\ (settled \/ (LoopDone /\ command # "test" /\ AllResolved))
<1>1. CASE LoopDone
  <2>1. pc = "compile"
    BY <1>1 DEF LoopDone
  <2>2. ~Edit
    BY <2>1 DEF Edit
  <2>3. settled \/ (command # "test" /\ AllResolved)
    BY <1>1, Zenon DEF LoopDone
  <2>4. QED
    BY <1>1, <2>2, <2>3, Zenon
<1>2. CASE Edit
  BY <1>2, Zenon DEF Edit
<1>3. CASE ~LoopDone /\ ~Edit
  <2>1. settled' = settled
    BY <1>3, Zenon DEF Next, CommandStep, Start, Kill, Return, ConfigFails, NoTests,
       SortStart, Seed, Seeded, Pop, Decrement, Resolve, SkipStep, RunStep,
       StepFails, StepsDone, PassOver, Compile, CompileFails, LinkNothing, Link,
       LinkFails, RunTest, TestFails, RunFirst, vars
  <2>2. QED
    BY <2>1, <1>3, Zenon
<1>4. QED
  BY <1>1, <1>2, <1>3, Zenon

LEMMA FreshStill ==
  ASSUME NEW a, UNCHANGED <<config, command, tasks, file>>, product'[a] = product[a]
  PROVE  /\ Fresh(a) => Fresh(a)'
         /\ HoldsSources(a)' <=> HoldsSources(a)
<1>1. AllSources(a)' = AllSources(a) /\ NoInputs(a)' = NoInputs(a)
  BY DEF AllSources, NoInputs, OtherDeps, StaticDeps, Linked, LinkedIn, Declared
<1>2. QED
  BY <1>1 DEF Fresh, HoldsSources

\* An archive made now holds what is there.
LEMMA NewArchive ==
  ASSUME BaseType, GraphInv, LoopInv, TestInv, SettledInv, StepsInOrder, settled,
         Link, config.type[Current] = "staticlib"
  PROVE  \A f \in config.sources[Current] : Output(Current)[f] = file[f]
<1>1. /\ pc = "link" /\ Current \in Artifacts /\ Current \in Range(queue)
      /\ config.sources[Current] \subseteq Files
  <2>1. pc = "link" /\ at \in DOMAIN queue
    BY DEF Link, GraphInv
  <2>2. QED
    BY <2>1, ConfigType DEF BaseType, Current, Range
<1>2. command # "test"
  BY <1>1, ConfigType DEF TestInv, IsTest, BaseType
<1>3. AllSources(Current) = config.sources[Current]
  BY DEF AllSources
<1>4. ASSUME NEW f \in config.sources[Current] PROVE Output(Current)[f] = file[f]
  <2>1. CASE f \in tasks[Current]
    BY <1>1, <1>2, <2>1 DEF LoopInv, Output
  <2>2. CASE f \notin tasks[Current]
    <3>1. file[f] = 0
      BY <1>1, <1>4, <2>2 DEF SettledInv
    <3>2. Output(Current)[f] = 0
      BY <1>1, <1>3, <1>4, <2>2 DEF Output
    <3>3. QED
      BY <3>1, <3>2
  <2>3. QED
    BY <2>1, <2>2
<1>5. QED
  BY <1>4

\* A test linked now holds what is there, by way of the archives.
LEMMA NewTest ==
  ASSUME BaseType, GraphInv, TestInv, SettledInv, StepsInOrder, settled,
         Link, command = "test"
  PROVE  /\ Output(Current) # None
         /\ \A f \in AllSources(Current) : Output(Current)[f] = file[f]
<1>1. /\ pc = "link" /\ Current \in Artifacts /\ Current \in Range(queue)
      /\ Linkable(Current) /\ config.sources[Current] \subseteq Files
  <2>1. pc = "link" /\ at \in DOMAIN queue /\ Linkable(Current)
    BY DEF Link, GraphInv
  <2>2. QED
    BY <2>1, ConfigType DEF BaseType, Current, Range
<1>2. Output(Current) \in [Files -> Nat] /\ Output(Current) # None
  BY <1>1, OutputType, NoneAssumption
<1>3. ASSUME NEW f \in config.sources[Current] PROVE Output(Current)[f] = file[f]
  <2>1. CASE f \in tasks[Current]
    BY <1>1, <2>1 DEF TestInv, Output
  <2>2. CASE f \notin tasks[Current]
    <3>1. file[f] = 0
      BY <1>1, <1>3, <2>2 DEF SettledInv
    <3>2. Output(Current)[f] = 0
      BY <1>1, <1>3, <2>2 DEF Output
    <3>3. QED
      BY <3>1, <3>2
  <2>3. QED
    BY <2>1, <2>2
<1>4. ASSUME NEW f \in AllSources(Current) \ config.sources[Current]
      PROVE  Output(Current)[f] = file[f]
  <2>1. /\ config.type[Current] # "staticlib"
        /\ \E d \in StaticDeps(Current) : f \in config.sources[d]
    BY <1>4 DEF AllSources
  <2>2. PICK d \in StaticDeps(Current) :
            /\ d = CHOOSE x \in StaticDeps(Current) : f \in config.sources[x]
            /\ f \in config.sources[d]
    BY <2>1
  <2>3. d \in Artifacts /\ config.type[d] = "staticlib" /\ product[d] # None
    BY <2>1, <2>2, <1>1 DEF StaticDeps, Linked, LinkedIn, Linkable
  <2>4. product[d][f] = file[f]
    BY <2>2, <2>3 DEF SettledInv, HoldsSources
  <2>5. f \in Files /\ f \notin tasks[Current]
    <3>1. config.sources[d] \subseteq Files
      BY <2>3, ConfigType DEF BaseType
    <3>2. tasks[Current] \subseteq config.sources[Current]
      BY <1>1 DEF GraphInv
    <3>3. QED
      BY <3>1, <3>2, <2>2, <1>4
  <2>6. Output(Current)[f] = product[d][f]
    BY <2>2, <2>5, <1>4 DEF Output
  <2>7. QED
    BY <2>4, <2>6
<1>5. QED
  BY <1>2, <1>3, <1>4

LEMMA SettledInit == Init => SettledInv
<1> SUFFICES ASSUME Init PROVE SettledInv
  OBVIOUS
<1>1. ~settled
  BY Zenon DEF Init
<1>2. pc = "idle"
  BY DEF Init, Idle
<1>3. QED
  BY <1>1, <1>2 DEF SettledInv

\* A build that succeeds leaves every step up to date, and they stay so.
LEMMA SettledSteps ==
  ASSUME BaseType, StepInv, SettledInv, StepsInOrder, [Next]_vars, settled'
  PROVE  \A n \in StepIndex' : UpToDate(n)'
<1>1. CASE settled
  <2>1. \A n \in StepIndex : UpToDate(n)
    BY <1>1 DEF SettledInv
  <2>2. file' = file /\ config' = config
    BY <2>1, FilesStill, ConfigStill, SettledStep
  <2>3. QED
    BY <2>1, <2>2, StepsStill
<1>2. CASE LoopDone /\ command # "test"
  <2>1. pc = "compile" /\ file' = file /\ config' = config
    BY <1>2 DEF LoopDone, diskVars
  <2>2. \A n \in StepIndex : UpToDate(n)
    BY <1>2, <2>1 DEF StepInv, StepsPassed
  <2>3. QED
    BY <2>1, <2>2, StepsStill
<1>3. QED
  BY <1>1, <1>2, SettledStep

\* A build that succeeds leaves every archive holding what is there; nothing is
\* made later that does not.
LEMMA SettledArchives ==
  ASSUME BaseType, SortInv, GraphInv, LoopInv, StepInv, TestInv, SettledInv,
         StepsInOrder, [Next]_vars, settled'
  PROVE  ArchivesHold'
<1>0. config' = config
  BY ConfigStill
<1>1. CASE settled
  <2>1. ArchivesHold /\ \A n \in StepIndex : UpToDate(n)
    BY <1>1 DEF SettledInv, ArchivesHold
  <2>2. file' = file
    BY <2>1, FilesStill, SettledStep
  <2>3. ASSUME NEW d \in Artifacts, config.type[d] = "staticlib", product'[d] # None,
               product'[d] = product[d]
        PROVE  HoldsSources(d)'
    BY <2>1, <2>2, <2>3, <1>0 DEF ArchivesHold, HoldsSources
  <2>4. CASE ~Link
    <3>1. \A d \in Artifacts : product'[d] \in {product[d], None}
      <4>1. CASE UNCHANGED product
        BY <4>1
      <4>2. CASE LinkFails \/ Kill
        BY <4>2 DEF LinkFails, Kill, diskVars, BaseType
      <4>3. QED
        BY <2>4, <4>1, <4>2 DEF Next, CommandStep, vars, Edit, Start, Return, ConfigFails,
           NoTests, SortStart, Seed, Seeded, Pop, Decrement, Resolve, SkipStep, RunStep,
           StepFails, StepsDone, PassOver, Compile, CompileFails, LinkNothing,
           RunTest, TestFails, LoopDone, RunFirst, diskVars
    <3>2. QED
      BY <2>3, <3>1, <1>0 DEF ArchivesHold
  <2>5. CASE Link
    <3>1. PICK c \in Artifacts : c = Current
      <4>1. at \in DOMAIN queue
        BY <2>5 DEF Link, GraphInv
      <4>2. QED
        BY <4>1 DEF BaseType, Current
    <3>2. /\ product'[c] = Output(c)
          /\ \A d \in Artifacts : d # c => product'[d] = product[d]
      BY <2>5, <3>1 DEF Link, BaseType
    <3>3. ASSUME config.type[c] = "staticlib" PROVE HoldsSources(c)'
      <4>1. \A f \in config.sources[c] : Output(c)[f] = file[f]
        BY <1>1, <2>5, <3>1, <3>3, NewArchive
      <4>2. QED
        BY <4>1, <3>2, <2>2, <1>0 DEF HoldsSources
    <3>4. QED
      BY <2>3, <3>2, <3>3, <1>0 DEF ArchivesHold
  <2>6. QED
    BY <2>4, <2>5
<1>2. CASE LoopDone /\ command # "test" /\ AllResolved
  <2>1. /\ pc = "compile" /\ UNCHANGED <<file, product>> /\ at > Len(queue)
    BY <1>2 DEF LoopDone, AtArtifact, BaseType, diskVars
  <2>2. Range(queue) = Range(Installed) \ StuckIn(Installed)
    BY <1>2, <2>1, InstalledOrder DEF Sorted
  <2>3. ASSUME NEW d \in Artifacts, config.type[d] = "staticlib", product[d] # None,
               NEW f \in config.sources[d]
        PROVE  product[d][f] = file[f]
    <3>1. PICK i \in DOMAIN queue : queue[i] = d
      BY <2>2, <2>3 DEF TestInv, Range
    <3>2. CurrentProduct(d)
      BY <1>2, <2>1, <3>1 DEF LoopInv, BaseType
    <3>3. f \in tasks[d]
      BY <1>2, <2>3, <3>1 DEF AllResolved
    <3>4. ~NoInputs(d) /\ f \in AllSources(d) \cap UNION Range(tasks)
      BY <2>3, <3>3 DEF NoInputs, AllSources, BaseType, Range
    <3>5. QED
      BY <3>2, <3>4 DEF CurrentProduct
  <2>4. QED
    BY <2>1, <2>3, <1>0 DEF ArchivesHold, HoldsSources
<1>3. QED
  BY <1>1, <1>2, SettledStep

\* In the loops of `spkg test`, and of anything while all is settled, a source that
\* has no task does not exist: no step makes it meanwhile.
AbsentIsAbsent ==
    (settled \/ command = "test") /\ pc \in {"custom", "compile", "link", "test"} =>
        \A a \in Range(queue) : \A f \in config.sources[a] \ tasks[a] : file[f] = 0

LEMMA SettledTasks ==
  ASSUME BaseType, LoopInv, StepInv, SettledInv, StepsInOrder, [Next]_vars
  PROVE  AbsentIsAbsent'
<1>1. SUFFICES ASSUME settled' \/ command' = "test",
                      pc' \in {"custom", "compile", "link", "test"}
               PROVE  \A a \in Range(queue') :
                        \A f \in config.sources[a] \ tasks'[a] : file'[f] = 0
  BY ConfigStill DEF AbsentIsAbsent
<1>2. CASE Resolve
  <2>1. \A a \in Range(queue) : tasks'[a] = {f \in config.sources[a] : file[f] # 0}
    BY <1>2 DEF Resolve, BaseType, Range
  <2>2. queue' = queue /\ file' = file
    BY <1>2 DEF Resolve, diskVars, sortVars
  <2>3. QED
    BY <2>1, <2>2
<1>3. CASE ~Resolve
  <2>1. /\ pc \in {"custom", "compile", "link", "test"}
        /\ UNCHANGED <<queue, tasks, command>> /\ ~Edit /\ ~LoopDone
    <3>1. SkipStep \/ RunStep \/ StepsDone \/ PassOver \/ Compile \/ LinkNothing \/ Link
            \/ RunTest \/ UNCHANGED vars
      BY <1>1, <1>3 DEF Next, CommandStep, Edit, Start, Kill, Exit, Return, ConfigFails,
         NoTests, SortStart, Seed, Seeded, Pop, Decrement, StepFails, CompileFails,
         LinkFails, TestFails, LoopDone, RunFirst, Finish
    <3>2. UNCHANGED vars => pc \in {"custom", "compile", "link", "test"}
      BY <1>1 DEF vars
    <3>3. QED
      BY <1>1, <3>1, <3>2 DEF SkipStep, RunStep, StepsDone, PassOver, Compile, LinkNothing,
         Link, RunTest, AtStep, ToBuild, sortVars, loopVars, vars, Edit, LoopDone, AfterLink,
         Finish
  <2>2. settled \/ (command = "test" /\ pc # "custom")
    BY <1>1, <2>1, SettledStep DEF LoopInv
  <2>3. file' = file
    BY <2>1, <2>2, FilesStill DEF SettledInv, AtStep
  <2>4. QED
    BY <2>1, <2>2, <2>3 DEF SettledInv
<1>4. QED
  BY <1>2, <1>3

\* Where the loop of `spkg test` is after a step, what lies behind it.
LEMMA TestsStill ==
  ASSUME BaseType, UNCHANGED <<config, command, tasks, file, product, queue>>,
         PassedAreFresh,
         \A a \in Artifacts : IsTest(a) /\ Passed(a)' => Passed(a) \/ Fresh(a)
  PROVE  PassedAreFresh'
<1>1. ASSUME NEW a \in Artifacts, IsTest(a)', Passed(a)' PROVE Fresh(a)'
  <2>1. IsTest(a)
    BY <1>1 DEF IsTest
  <2>2. Fresh(a)
    BY <1>1, <2>1 DEF PassedAreFresh
  <2>3. QED
    BY <2>2, FreshStill
<1>2. QED
  BY <1>1 DEF PassedAreFresh

LEMMA LinkFresh ==
  ASSUME BaseType, GraphInv, TestInv, SettledInv, StepsInOrder, settled,
         Link, command = "test", PassedAreFresh
  PROVE  PassedAreFresh'
<1>1. /\ UNCHANGED <<config, command, file, tasks, queue, at>> /\ pc = "link" /\ pc' = "test"
  BY DEF Link, AfterLink, sortVars
<1>2. at \in DOMAIN queue /\ Current = queue[at] /\ Current \in Artifacts
  BY <1>1 DEF GraphInv, BaseType, Current
<1>3. /\ product'[Current] = Output(Current)
      /\ \A a \in Artifacts : a # Current => product'[a] = product[a]
  BY <1>2 DEF Link, BaseType
<1>4. Fresh(Current)'
  <2>1. PICK c \in Artifacts : c = Current
    BY <1>2
  <2>2. product'[c] # None /\ \A f \in AllSources(c) : product'[c][f] = file[f]
    BY <1>3, <2>1, NewTest
  <2>3. AllSources(c)' = AllSources(c)
    BY <1>1 DEF AllSources, StaticDeps, Linked, LinkedIn, Declared
  <2>4. Fresh(c)'
    BY <1>1, <2>2, <2>3 DEF Fresh
  <2>5. Current' = Current
    BY <1>1 DEF Current
  <2>6. QED
    BY <2>1, <2>4, <2>5
<1>5. ASSUME NEW a \in Artifacts, IsTest(a)', Passed(a)' PROVE Fresh(a)'
  <2>1. CASE a = Current
    <3>1. Current' = Current
      BY <1>1 DEF Current
    <3>2. QED
      BY <2>1, <3>1, <1>4
  <2>2. CASE a # Current
    <3>1. PICK i \in DOMAIN queue : (i < at \/ i = at) /\ queue[i] = a
      BY <1>1, <1>5 DEF Passed, Behind
    <3>2. Passed(a)
      BY <1>1, <1>2, <2>2, <3>1 DEF Passed, Behind
    <3>3. IsTest(a)
      BY <1>1, <1>5 DEF IsTest
    <3>4. Fresh(a)
      BY <3>2, <3>3 DEF PassedAreFresh
    <3>5. QED
      BY <3>4, <1>1, <1>3, <2>2, FreshStill
  <2>3. QED
    BY <2>1, <2>2
<1>6. QED
  BY <1>5 DEF PassedAreFresh

\* Steps of `spkg test` that leave the products alone.
LEMMA LoopFresh ==
  ASSUME BaseType, GraphInv, LoopInv, TestInv, command = "test", PassedAreFresh,
         PassOver \/ Compile \/ LinkNothing \/ RunTest \/ LoopDone
  PROVE  PassedAreFresh'
<1>1. UNCHANGED <<config, command, tasks, file, product, queue>>
  BY DEF PassOver, Compile, LinkNothing, RunTest, LoopDone, diskVars, sortVars, loopVars
<1>2. at \in Nat \ {0} /\ DOMAIN queue = 1 .. Len(queue) /\ Len(queue) \in Nat
  BY DEF BaseType
<1>3. SUFFICES ASSUME NEW a \in Artifacts, IsTest(a), Passed(a)', ~Fresh(a)
               PROVE  Passed(a)
  BY <1>1, TestsStill
<1>4. CASE PassOver
  <2>1. pc = "compile" /\ pc' = "compile" /\ at' = at + 1 /\ ~IsTest(Current)
    BY <1>4 DEF PassOver
  <2>2. PICK i \in DOMAIN queue : i < at + 1 /\ queue[i] = a
    BY <1>1, <1>3, <2>1 DEF Passed, Behind
  <2>3. i # at
    BY <1>3, <2>1, <2>2 DEF Current
  <2>4. QED
    BY <1>2, <2>1, <2>2, <2>3 DEF Passed, Behind
<1>5. CASE Compile
  <2>1. pc = "compile" /\ pc' = "link" /\ at' = at
    BY <1>5 DEF Compile, ToBuild, loopVars
  <2>2. QED
    BY <1>1, <1>3, <2>1 DEF Passed, Behind
<1>6. CASE LinkNothing
  <2>1. pc = "link" /\ pc' = "test" /\ at' = at /\ NoInputs(Current)
    BY <1>6 DEF LinkNothing, AfterLink
  <2>2. PICK i \in DOMAIN queue : (i < at \/ i = at) /\ queue[i] = a
    BY <1>1, <1>3, <2>1 DEF Passed, Behind
  <2>3. i # at
    BY <1>3, <2>1, <2>2 DEF Current, Fresh
  <2>4. QED
    BY <2>1, <2>2, <2>3 DEF Passed, Behind
<1>7. CASE RunTest
  <2>1. pc = "test" /\ pc' = "compile" /\ at' = at + 1
    BY <1>7 DEF RunTest
  <2>2. PICK i \in DOMAIN queue : i < at + 1 /\ queue[i] = a
    BY <1>1, <1>3, <2>1 DEF Passed, Behind
  <2>3. i < at \/ i = at
    BY <1>2, <2>2
  <2>4. QED
    BY <2>1, <2>2, <2>3 DEF Passed, Behind
<1>8. CASE LoopDone
  <2>1. pc = "compile" /\ pc' = "done" /\ at > Len(queue)
    BY <1>2, <1>8 DEF LoopDone, AtArtifact, Finish
  <2>2. PICK i \in DOMAIN queue : queue[i] = a
    BY <1>1, <1>3, <2>1 DEF Passed, Range
  <2>3. i < at
    BY <1>2, <2>1
  <2>4. QED
    BY <2>1, <2>2, <2>3 DEF Passed, Behind
<1>9. QED
  BY <1>4, <1>5, <1>6, <1>7, <1>8

LEMMA SettledTests ==
  ASSUME BaseType, GraphInv, LoopInv, TestInv, SettledInv, StepsInOrder, [Next]_vars,
         settled', command' = "test"
  PROVE  PassedAreFresh'
<1>1. settled
  BY SettledStep DEF LoopDone
<1>2. ASSUME \A a \in Artifacts : ~Passed(a)' PROVE PassedAreFresh'
  BY <1>2 DEF PassedAreFresh
<1>3. CASE UNCHANGED vars
  <2>1. PassedAreFresh /\ UNCHANGED <<config, command, tasks, file, product, queue, at, pc>>
    BY <1>1, <1>3 DEF SettledInv, PassedAreFresh, vars
  <2>2. \A a : Passed(a)' <=> Passed(a)
    BY <1>3, Zenon DEF vars, Passed, Behind
  <2>3. QED
    BY <2>1, <2>2, TestsStill
<1>4. CASE Edit \/ Start \/ SortStart \/ Seed \/ Seeded \/ Pop \/ Decrement \/ Return \/ Kill
  <2>1. pc' \in {"idle", "config", "seed", "sort"}
    BY <1>4 DEF Edit, Start, SortStart, Seed, Seeded, Pop, Decrement, Return, Kill, Exit
  <2>2. QED
    BY <1>2, <2>1 DEF Passed
<1>5. CASE ConfigFails \/ StepFails \/ CompileFails \/ LinkFails \/ TestFails
  <2>1. pc' = "done" /\ ~ok'
    BY <1>5, Zenon DEF ConfigFails, StepFails, CompileFails, LinkFails, TestFails, Finish
  <2>2. QED
    BY <1>2, <2>1 DEF Passed
<1>6. CASE NoTests
  <2>1. pc' = "done" /\ queue' = <<>>
    BY <1>6 DEF NoTests, Finish, GraphInv, sortVars
  <2>2. Range(queue') = {}
    BY <2>1 DEF Range
  <2>3. QED
    BY <1>2, <2>1, <2>2 DEF Passed
<1>7. CASE Resolve
  <2>1. pc' = "compile" /\ at' = 1 /\ DOMAIN queue' \subseteq Nat \ {0}
    BY <1>7 DEF Resolve, sortVars, BaseType
  <2>2. QED
    BY <1>2, <2>1 DEF Passed, Behind
<1>8. CASE SkipStep \/ RunStep \/ StepsDone \/ RunFirst
  <2>1. command # "test" /\ command' = command
    BY <1>8 DEF SkipStep, RunStep, StepsDone, RunFirst, AtStep, LoopInv
  <2>2. QED
    BY <2>1
<1>9. CASE PassOver \/ Compile \/ LinkNothing \/ Link \/ RunTest \/ LoopDone
  <2>1. command = "test"
    BY <1>9 DEF PassOver, Compile, LinkNothing, Link, RunTest, LoopDone
  <2>2. PassedAreFresh
    BY <1>1, <2>1 DEF SettledInv, PassedAreFresh
  <2>3. QED
    BY <1>1, <1>9, <2>1, <2>2, LinkFresh, LoopFresh
<1>10. QED
  BY <1>3, <1>4, <1>5, <1>6, <1>7, <1>8, <1>9 DEF Next, CommandStep

LEMMA SettledInvStep ==
  BaseType /\ SortInv /\ GraphInv /\ LoopInv /\ StepInv /\ TestInv /\ SettledInv
    /\ [Next]_vars => SettledInv'
<1> SUFFICES ASSUME BaseType, SortInv, GraphInv, LoopInv, StepInv, TestInv, SettledInv,
                    [Next]_vars, StepsInOrder'
             PROVE  /\ AbsentIsAbsent'
                    /\ settled' => /\ \A n \in StepIndex' : UpToDate(n)'
                                   /\ ArchivesHold'
                                   /\ command' = "test" => PassedAreFresh'
  BY DEF SettledInv, AbsentIsAbsent, ArchivesHold, PassedAreFresh
<1>1. StepsInOrder
  BY ConfigStill, StepsStill
<1>2. QED
  BY <1>1, SettledTasks, SettledSteps, SettledArchives, SettledTests

LEMMA History == Spec => [](BaseType /\ GraphInv /\ LoopInv /\ TestInv /\ SettledInv)
<1>1. BaseType /\ SortInv /\ GraphInv /\ LoopInv /\ TestInv /\ [Next]_vars => TestInv'
  BY TestStep
<1>2. Spec => []TestInv
  BY <1>1, TestInit, Loops, PTL DEF Spec
<1>3. BaseType /\ SortInv /\ GraphInv /\ LoopInv /\ StepInv /\ TestInv /\ SettledInv
        /\ [Next]_vars => SettledInv'
  BY SettledInvStep
<1>4. QED
  BY <1>2, <1>3, SettledInit, Loops, Steps, PTL DEF Spec

\* `spkg test` compiles and links the tests alone; if nothing was edited since a
\* build succeeded, those it passes still hold the last version of every source,
\* those in the archives they link included.
THEOREM TestsAreCurrentHolds == Spec => []TestsAreCurrent
<1>1. BaseType /\ SettledInv => TestsAreCurrent
  <2>1. SUFFICES ASSUME BaseType, SettledInv, StepsInOrder, Succeeded({"test"}), settled,
                        NEW a \in Range(config.tests) \cap Range(queue)
                 PROVE  Fresh(a)
    BY DEF TestsAreCurrent, Fresh
  <2>2. a \in Artifacts /\ IsTest(a)
    BY <2>1 DEF BaseType, Range, IsTest
  <2>3. Passed(a) /\ command = "test"
    BY <2>1 DEF Succeeded, Passed
  <2>4. QED
    BY <2>1, <2>2, <2>3 DEF SettledInv
<1>2. QED
  BY <1>1, History, PTL

\* What decides whether generated sources are compiled: where every declared source
\* existed when the graph was built, a build that succeeds has linked the last
\* version of every one of them.
THEOREM ResolvedIsCompiled ==
  Spec => [](AllResolved => GeneratedIsCompiled)
<1>1. BaseType /\ LoopInv => (AllResolved => GeneratedIsCompiled)
  <2>1. SUFFICES ASSUME BaseType, LoopInv, AllResolved, Succeeded({"build"}),
                        NEW a \in Range(queue), NEW f \in config.sources[a]
                 PROVE  product[a] # None /\ product[a][f] = file[f]
    BY DEF GeneratedIsCompiled
  <2>2. pc = "done" /\ ok /\ command # "test"
    BY <2>1 DEF Succeeded
  <2>3. PICK i \in DOMAIN queue : queue[i] = a /\ a \in Artifacts
    BY <2>1 DEF BaseType, Range
  <2>4. CurrentProduct(a)
    BY <2>1, <2>2, <2>3 DEF LoopInv
  <2>5. f \in tasks[a]
    BY <2>1, <2>3 DEF AllResolved
  <2>6. ~NoInputs(a) /\ f \in AllSources(a) \cap UNION Range(tasks)
    BY <2>1, <2>3, <2>5 DEF NoInputs, AllSources, BaseType, Range
  <2>7. QED
    BY <2>4, <2>6 DEF CurrentProduct
<1>2. QED
  BY <1>1, Loops, PTL

-----------------------------------------------------------------------------
(* How far a command is from its end.  The loops over lists count what is left. *)
(* topo_sort queues an artifact when its in_degree comes down to 0, which each  *)
(* does once, and pops each queued one once: cycles are left out, not walked.   *)

Left(n) == IF at > n THEN 0 ELSE n + 1 - at
Counting == {a \in Range(list) : degree[a] > 0}

Phase(p) ==
    CASE p = "config" -> 7 [] p = "seed" -> 6 [] p = "sort" -> 5 [] p = "custom" -> 4
      [] p \in {"compile", "link", "test"} -> 3 [] p = "run" -> 2 [] p = "done" -> 1
      [] p = "idle" -> 0
Stage(p) == CASE p = "compile" -> 2 [] p = "link" -> 1 [] OTHER -> 0

Rank ==
    CASE pc = "seed"   -> <<6, Left(Len(list)), 0, 0>>
      [] pc = "sort"   -> <<5, Cardinality(Counting), Len(queue) + 1 - head, Cardinality(todo)>>
      [] pc = "custom" -> <<4, Left(Len(config.steps)), 0, 0>>
      [] pc \in {"compile", "link", "test"} -> <<3, Left(Len(queue)), Stage(pc), 0>>
      [] OTHER -> <<Phase(pc), 0, 0, 0>>

LEMMA SortIsFinite ==
  ASSUME BaseType
  PROVE  /\ IsFiniteSet(Counting) /\ Cardinality(Counting) \in Nat
         /\ IsFiniteSet(todo) /\ Cardinality(todo) \in Nat
<1>1. IsFiniteSet(Range(list))
  <2>1. IsFiniteSet(DOMAIN list)
    BY FS_Interval DEF BaseType
  <2>2. list \in Surjection(DOMAIN list, Range(list))
    BY DEF Surjection, Range, BaseType
  <2>3. QED
    BY <2>1, <2>2, FS_Surjection
<1>2. IsFiniteSet(Counting)
  BY <1>1, FS_Subset DEF Counting
<1>3. IsFiniteSet(todo)
  BY EdgesFinite, FS_Subset DEF BaseType, Edges
<1>4. QED
  BY <1>2, <1>3, FS_CardinalityType

LEMMA RankType ==
  ASSUME BaseType, SortInv
  PROVE  Rank \in RankSet
<1>1. \A n \in Nat : Left(n) \in Nat
  BY DEF Left, BaseType
<1>2. Len(list) \in Nat /\ Len(queue) \in Nat /\ Len(config.steps) \in Nat
  <2>1. config.steps \in Seq([ins : SUBSET Files, outs : SUBSET Files])
    BY ConfigType DEF BaseType
  <2>2. QED
    BY <2>1 DEF BaseType
<1>3. CASE pc = "sort"
  <2>1. Len(queue) + 1 - head \in Nat
    BY <1>2 DEF SortInv, BaseType
  <2>2. Cardinality(Counting) \in Nat /\ Cardinality(todo) \in Nat
    BY SortIsFinite
  <2>3. Rank = <<5, Cardinality(Counting), Len(queue) + 1 - head, Cardinality(todo)>>
    BY <1>3 DEF Rank
  <2>4. QED
    BY <2>1, <2>2, <2>3 DEF RankSet
<1>4. CASE pc = "seed"
  BY <1>1, <1>2, <1>4 DEF Rank, RankSet
<1>5. CASE pc = "custom"
  BY <1>1, <1>2, <1>5 DEF Rank, RankSet
<1>6. CASE pc \in {"compile", "link", "test"}
  <2>1. Stage(pc) \in Nat /\ Left(Len(queue)) \in Nat
    BY <1>1, <1>2 DEF Stage
  <2>2. Rank = <<3, Left(Len(queue)), Stage(pc), 0>>
    BY <1>6 DEF Rank
  <2>3. QED
    BY <2>1, <2>2 DEF RankSet
<1>7. CASE pc \in {"idle", "config", "run", "done"}
  <2>1. Phase(pc) \in Nat /\ Rank = <<Phase(pc), 0, 0, 0>>
    BY <1>7 DEF Phase, Rank
  <2>2. QED
    BY <2>1 DEF RankSet
<1>8. QED
  BY <1>3, <1>4, <1>5, <1>6, <1>7 DEF BaseType

\* The first component is the phase: a step into a later phase lowers the rank.
LEMMA RankPhase == ASSUME BaseType PROVE Rank[1] = Phase(pc)
<1>1. CASE pc \in {"seed", "sort", "custom", "compile", "link", "test"}
  BY <1>1 DEF Rank, Phase
<1>2. CASE pc \in {"idle", "config", "run", "done"}
  BY <1>2 DEF Rank, Phase
<1>3. QED
  BY <1>1, <1>2 DEF BaseType

LEMMA NextPhase ==
  ASSUME BaseType, BaseType', Phase(pc') < Phase(pc)
  PROVE  Lower(Rank', Rank)
<1>1. Rank[1] = Phase(pc)
  BY RankPhase
<1>2. Rank'[1] = Phase(pc')
  <2>1. CASE pc' \in {"seed", "sort", "custom", "compile", "link", "test"}
    BY <2>1 DEF Rank, Phase
  <2>2. CASE pc' \in {"idle", "config", "run", "done"}
    BY <2>2 DEF Rank, Phase
  <2>3. QED
    BY <2>1, <2>2 DEF BaseType
<1>3. QED
  BY <1>1, <1>2 DEF Lower

LEMMA PopLowers == BaseType /\ SortInv /\ Pop => Lower(Rank', Rank)
<1> SUFFICES ASSUME BaseType, SortInv, Pop PROVE Lower(Rank', Rank)
  OBVIOUS
<1>1. /\ pc = "sort" /\ pc' = "sort" /\ head' = head + 1
      /\ UNCHANGED <<list, degree, queue>>
  BY DEF Pop
<1>2. Cardinality(Counting)' = Cardinality(Counting)
  BY <1>1 DEF Counting
<1>3. /\ Rank = <<5, Cardinality(Counting), Len(queue) + 1 - head, Cardinality(todo)>>
      /\ Rank' = <<5, Cardinality(Counting), Len(queue) + 1 - (head + 1), Cardinality(todo')>>
  BY <1>1, <1>2 DEF Rank
<1>4. QED
  BY <1>3 DEF Lower, BaseType

\* in_degree comes down to 0 once: an artifact that is queued counts no more.
LEMMA DecrementLowers == BaseType /\ SortInv /\ Decrement => Lower(Rank', Rank)
<1> SUFFICES ASSUME BaseType, SortInv, Decrement PROVE Lower(Rank', Rank)
  OBVIOUS
<1>1. PICK e \in todo :
        /\ todo' = todo \ {e}
        /\ degree' = [degree EXCEPT ![To(e)] = @ - 1]
        /\ queue' = IF degree'[To(e)] = 0 THEN Append(queue, To(e)) ELSE queue
  BY DEF Decrement
<1>2. /\ pc = "sort" /\ pc' = "sort" /\ UNCHANGED <<config, list, head>>
  BY DEF Decrement
<1>3. PICK x \in Artifacts : x = To(e) /\ x \in Range(list)
  BY EdgeType DEF BaseType, Edges, To, Range
<1>4. /\ degree[x] \in Int /\ degree'[x] = degree[x] - 1
      /\ \A a \in Artifacts : a # x => degree'[a] = degree[a]
  BY <1>1, <1>3 DEF BaseType
<1>5. Range(list) \subseteq Artifacts
  BY DEF BaseType, Range
<1>6. Counting' \subseteq Counting
  BY <1>2, <1>4, <1>5 DEF Counting
<1>7. /\ Rank = <<5, Cardinality(Counting), Len(queue) + 1 - head, Cardinality(todo)>>
      /\ Rank' = <<5, Cardinality(Counting'), Len(queue') + 1 - head, Cardinality(todo')>>
  BY <1>2 DEF Rank
<1>8. CASE degree'[x] = 0
  <2>1. x \in Counting \ Counting'
    BY <1>2, <1>3, <1>4, <1>8 DEF Counting
  <2>2. Cardinality(Counting') < Cardinality(Counting)
    BY <1>6, <2>1, SortIsFinite, Fewer
  <2>3. QED
    BY <1>7, <2>2 DEF Lower
<1>9. CASE degree'[x] # 0
  <2>1. queue' = queue
    BY <1>1, <1>3, <1>9
  <2>2. Counting' = Counting
    <3>1. x \in Counting => x \in Counting'
      BY <1>2, <1>3, <1>4, <1>9 DEF Counting
    <3>2. QED
      BY <3>1, <1>2, <1>4, <1>5, <1>6 DEF Counting
  <2>3. Cardinality(todo') < Cardinality(todo)
    BY <1>1, SortIsFinite, Fewer
  <2>4. QED
    BY <1>7, <2>1, <2>2, <2>3 DEF Lower
<1>10. QED
  BY <1>8, <1>9

LEMMA LeftLowers ==
  ASSUME BaseType, NEW n \in Nat, at <= n, at' = at + 1
  PROVE  Left(n)' < Left(n)
BY DEF Left, BaseType

\* The steps of the loops over lists.
LEMMA LoopLowers ==
  ASSUME BaseType, GraphInv, LoopInv, TestInv,
         Seed \/ SkipStep \/ RunStep \/ PassOver \/ Compile \/ LinkNothing \/ Link \/ RunTest
  PROVE  Lower(Rank', Rank)
<1>1. Len(list) \in Nat /\ Len(queue) \in Nat /\ Len(config.steps) \in Nat
  <2>1. config.steps \in Seq([ins : SUBSET Files, outs : SUBSET Files])
    BY ConfigType DEF BaseType
  <2>2. QED
    BY <2>1 DEF BaseType
<1>2. CASE Seed
  <2>1. pc = "seed" /\ pc' = "seed" /\ at <= Len(list) /\ at' = at + 1 /\ list' = list
    BY <1>2 DEF Seed
  <2>2. Left(Len(list))' < Left(Len(list))
    BY <1>1, <2>1, LeftLowers DEF Left
  <2>3. QED
    BY <2>1, <2>2 DEF Rank, Lower
<1>3. CASE SkipStep \/ RunStep
  <2>1. /\ pc = "custom" /\ pc' = "custom" /\ at <= Len(config.steps) /\ at' = at + 1
        /\ config' = config
    BY <1>3 DEF SkipStep, RunStep, AtStep
  <2>2. Left(Len(config.steps))' < Left(Len(config.steps))
    BY <1>1, <2>1, LeftLowers DEF Left
  <2>3. QED
    BY <2>1, <2>2 DEF Rank, Lower
<1>4. ASSUME pc \in {"compile", "link", "test"}, pc' \in {"compile", "link", "test"},
             queue' = queue, at <= Len(queue), at' = at + 1
      PROVE  Lower(Rank', Rank)
  <2>1. Left(Len(queue))' < Left(Len(queue))
    BY <1>1, <1>4, LeftLowers DEF Left
  <2>2. /\ Rank = <<3, Left(Len(queue)), Stage(pc), 0>>
        /\ Rank' = <<3, Left(Len(queue))', Stage(pc'), 0>>
    BY <1>4 DEF Rank
  <2>3. QED
    BY <2>1, <2>2 DEF Lower
<1>5. ASSUME pc \in {"compile", "link", "test"}, pc' \in {"compile", "link", "test"},
             queue' = queue, at' = at, Stage(pc') < Stage(pc)
      PROVE  Lower(Rank', Rank)
  <2>1. Left(Len(queue))' = Left(Len(queue))
    BY <1>5 DEF Left
  <2>2. /\ Rank = <<3, Left(Len(queue)), Stage(pc), 0>>
        /\ Rank' = <<3, Left(Len(queue))', Stage(pc'), 0>>
    BY <1>5 DEF Rank
  <2>3. QED
    BY <2>1, <2>2, <1>5 DEF Lower
<1>6. CASE PassOver
  BY <1>4, <1>6 DEF PassOver, AtArtifact, sortVars
<1>7. CASE Compile
  BY <1>5, <1>7 DEF Compile, ToBuild, Stage, sortVars, loopVars
<1>8. CASE LinkNothing \/ Link
  <2>1. pc = "link" /\ queue' = queue /\ AfterLink
    BY <1>8 DEF LinkNothing, Link, sortVars
  <2>2. at <= Len(queue)
    BY <2>1 DEF GraphInv, BaseType
  <2>3. CASE command = "test"
    BY <1>5, <2>1, <2>3 DEF AfterLink, Stage
  <2>4. CASE command # "test"
    BY <1>4, <2>1, <2>2, <2>4 DEF AfterLink
  <2>5. QED
    BY <2>3, <2>4
<1>9. CASE RunTest
  <2>1. pc = "test" /\ pc' = "compile" /\ at' = at + 1 /\ queue' = queue
    BY <1>9 DEF RunTest, sortVars
  <2>2. at <= Len(queue)
    BY <2>1 DEF LoopInv, TestInv, BaseType
  <2>3. QED
    BY <1>4, <2>1, <2>2
<1>10. QED
  BY <1>2, <1>3, <1>6, <1>7, <1>8, <1>9

LEMMA CommandStepLowers ==
  ASSUME BaseType, SortInv, GraphInv, LoopInv, TestInv, CommandStep, BaseType'
  PROVE  Lower(Rank', Rank)
<1>1. CASE Return \/ ConfigFails \/ NoTests \/ SortStart \/ Seeded \/ Resolve \/ StepFails
           \/ StepsDone \/ CompileFails \/ LinkFails \/ TestFails \/ LoopDone \/ RunFirst
  <2>1. \/ pc = "done" /\ pc' = "idle"
        \/ pc = "config" /\ pc' \in {"done", "seed"}
        \/ pc = "seed" /\ pc' = "sort"
        \/ pc = "sort" /\ pc' \in {"custom", "compile"}
        \/ pc = "custom" /\ pc' \in {"done", "compile"}
        \/ pc \in {"compile", "link", "test"} /\ pc' \in {"run", "done"}
        \/ pc = "run" /\ pc' = "done"
    BY <1>1 DEF Return, Exit, ConfigFails, NoTests, SortStart, Seeded, Resolve, StepFails,
       StepsDone, CompileFails, LinkFails, TestFails, LoopDone, RunFirst, Finish,
       AtStep, ToBuild
  <2>2. Phase(pc') < Phase(pc)
    BY <2>1 DEF Phase
  <2>3. QED
    BY <2>2, NextPhase
<1>2. CASE Seed \/ SkipStep \/ RunStep \/ PassOver \/ Compile \/ LinkNothing \/ Link \/ RunTest
  BY <1>2, LoopLowers
<1>3. CASE Pop \/ Decrement
  BY <1>3, PopLowers, DecrementLowers
<1>4. QED
  BY <1>1, <1>2, <1>3 DEF CommandStep

\* No command goes on for ever, whatever is declared: each of its steps brings it
\* closer to its end, through cyclic graphs and tests that are listed twice too.
THEOREM CommandsAreFinite ==
  Spec => /\ [](Rank \in RankSet)
          /\ [][CommandStep => Lower(Rank', Rank)]_vars
<1>1. BaseType /\ SortInv /\ GraphInv /\ LoopInv /\ TestInv /\ BaseType' /\ [Next]_vars
        => [CommandStep => Lower(Rank', Rank)]_vars
  BY CommandStepLowers
<1>2. QED
  BY <1>1, RankType, Loops, History, PTL DEF Spec
==============================================================================
