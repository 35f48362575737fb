------------------------ MODULE ParallelCompile_proofs ------------------------
(*************************************************************************)
(* Proofs about ParallelCompile, for every finite set of tasks, every    *)
(* number of slots and every --jobs.                                     *)
(*************************************************************************)
EXTENDS ParallelCompile, FiniteSetTheorems, TLAPS, Ranks

USE AsyncAssumption, CompileAssumption

LEMMA TypeInit == Init => TypeOK
BY DEF Init, TypeOK, TableInit, TableTypeOK, PCs, Stages, Tasks, Ids

LEMMA TypeStep == ASSUME TypeOK, [Next]_vars PROVE TypeOK'
<1>0. UNCHANGED args
  BY DEF Next, Spkg, CompilerExits, vars, args
<1> USE <1>0 DEF TypeOK, TableTypeOK, PCs, Stages, Tasks, At, args
<1>1. ASSUME NEW t \in Tasks, SerialHit(t) \/ PrefilterHit(t) PROVE TypeOK'
  BY <1>1 DEF SerialHit, PrefilterHit, CacheHit, Move, tableVars
<1>2. ASSUME NEW t \in Tasks, SerialCompile(t) PROVE TypeOK'
  BY <1>2 DEF SerialCompile, Move, Record, Succeeded, tableVars
<1>3. ASSUME NEW t \in Tasks, SerialFails(t) PROVE TypeOK'
  BY <1>3 DEF SerialFails, Move, Return, tableVars, fileVars
<1>4. ASSUME NEW t \in Tasks, PrefilterMiss(t) PROVE TypeOK'
  BY <1>4 DEF PrefilterMiss, Move, tableVars, fileVars
<1>5. ASSUME NEW t \in Tasks, StartNext(t) PROVE TypeOK'
  BY <1>5 DEF StartNext, StartCmd, Move, fileVars
<1>6. ASSUME NEW t \in Tasks, StartNextFails(t) PROVE TypeOK'
  BY <1>6 DEF StartNextFails, StartCmdFails, Move, tableVars, fileVars
<1>7. ASSUME NEW t \in Tasks, Reap(t) PROVE TypeOK'
  BY <1>7 DEF Reap, WaitReturns, FreeSlot, Record, Succeeded, Move, Exits
<1>8. ASSUME NEW t \in Tasks, Keep(t) PROVE TypeOK'
  BY <1>8 DEF Keep, WaitReturnsNil, WaitFails, FreeSlot, Move, tableVars, fileVars
<1>9. ASSUME SerialDone \/ PrefilterDone PROVE TypeOK'
  BY <1>9 DEF SerialDone, PrefilterDone, Return, tableVars, schedVars, fileVars
<1>10. ASSUME StartNextDone PROVE TypeOK'
  BY <1>10 DEF StartNextDone, tableVars, schedVars, fileVars
<1>11. ASSUME NextPass PROVE TypeOK'
  BY <1>11 DEF NextPass, tableVars, fileVars
<1>12. ASSUME Finish PROVE TypeOK'
  BY <1>12 DEF Finish, Return, tableVars, schedVars, fileVars
<1>13. ASSUME NEW i \in Ids, CompilerExits(i) PROVE TypeOK'
  BY <1>13 DEF CompilerExits, ChildExits, InUse, FreeIds, Exits, schedVars, fileVars
<1>14. CASE UNCHANGED vars
  BY <1>14 DEF vars, tableVars, schedVars, fileVars
<1>15. QED
  BY <1>1, <1>2, <1>3, <1>4, <1>5, <1>6, <1>7, <1>8, <1>9, <1>10, <1>11,
     <1>12, <1>13, <1>14 DEF Next, Spkg

\* Every variable keeps its type, whatever SIGCHLD does: spkg's lists, the
\* table of asynchronous commands and the children.
THEOREM TypeCorrect == Spec => []TypeOK
BY TypeInit, TypeStep, PTL DEF Spec

-------------------------------------------------------------------------------
\* The list "running" never grows beyond --jobs: only start_next adds to it,
\* one entry at a time and only when there is room.
LEMMA RunningBoundStep ==
  ASSUME TypeOK, RunningBound, [Next]_vars
  PROVE  RunningBound'
<1>0. UNCHANGED args
  BY DEF Next, Spkg, CompilerExits, vars, args
<1>1. IsFiniteSet(Running) /\ Cardinality(Running) \in Nat
  <2>1. Running \subseteq Tasks
    BY DEF Running
  <2>2. QED
    BY <2>1, FS_Subset, FS_CardinalityType DEF Tasks
<1>2. ASSUME Running' \subseteq Running PROVE RunningBound'
  <2>1. Cardinality(Running') <= Cardinality(Running)
    BY <1>1, <1>2, FS_Subset
  <2>2. IsFiniteSet(Running') /\ Cardinality(Running') \in Nat
    BY <1>1, <1>2, FS_Subset, FS_CardinalityType
  <2>3. QED
    BY <1>0, <1>1, <2>1, <2>2 DEF RunningBound, TypeOK, args
<1>3. ASSUME NEW t \in Tasks, StartNext(t) PROVE RunningBound'
  <2>1. Running' = Running \cup {t} /\ t \notin Running
    BY <1>3 DEF StartNext, Move, Running, At, TypeOK, Stages
  <2>2. Cardinality(Running') = Cardinality(Running) + 1
    BY <1>1, <2>1, FS_AddElement
  <2>3. QED
    BY <1>0, <1>1, <1>3, <2>2 DEF StartNext, Room, RunningBound, TypeOK, args
<1>4. CASE \E t \in Tasks : StartNext(t)
  BY <1>3, <1>4
<1>5. CASE ~ \E t \in Tasks : StartNext(t)
  <2>1. Running' \subseteq Running
    BY <1>5 DEF Next, Spkg, vars, schedVars, fileVars, Running, At, TypeOK, Stages,
        SerialHit, SerialCompile, SerialFails, SerialDone, CacheHit, PrefilterHit,
        PrefilterMiss, PrefilterDone, StartNextFails, StartNextDone, Reap, Keep,
        NextPass, Finish, CompilerExits, Move
  <2>2. QED
    BY <1>2, <2>1
<1>6. QED
  BY <1>4, <1>5

-------------------------------------------------------------------------------
\* IInv without the conjuncts that have a lemma of their own.
Core == /\ StagesOfLoop /\ SlotOwnership
        /\ ExitedOkIsFresh /\ RecordedIsFresh /\ UnrecordedIsRunning
        /\ FinishedIsRecorded /\ SuccessIsFinished

LEMMA CoreStep ==
  ASSUME ~SigChldIgnored, TypeOK, Core, [Next]_vars
  PROVE  Core'
<1>0. UNCHANGED args
  BY DEF Next, Spkg, CompilerExits, vars, args
<1> USE <1>0 DEF args, Core, StagesOfLoop, SlotOwnership, ExitedOkIsFresh, RecordedIsFresh,
            UnrecordedIsRunning, FinishedIsRecorded, SuccessIsFinished,
            TypeOK, TableTypeOK, PCs, Stages, Tasks, At, Running, FreeIds, InUse
<1>1. ASSUME NEW t \in Tasks, SerialHit(t) \/ PrefilterHit(t) PROVE Core'
  BY <1>1 DEF SerialHit, PrefilterHit, CacheHit, Move, tableVars
<1>2. ASSUME NEW t \in Tasks, SerialCompile(t) PROVE Core'
  BY <1>2 DEF SerialCompile, Move, Record, Succeeded, tableVars
<1>3. ASSUME NEW t \in Tasks, SerialFails(t) PROVE Core'
  BY <1>3 DEF SerialFails, Move, Return, tableVars, fileVars
<1>4. ASSUME NEW t \in Tasks, PrefilterMiss(t) PROVE Core'
  BY <1>4 DEF PrefilterMiss, Move, tableVars, fileVars
<1>5. ASSUME NEW t \in Tasks, StartNext(t) PROVE Core'
  BY <1>5 DEF StartNext, StartCmd, FirstFree, Move, fileVars
<1>6. ASSUME NEW t \in Tasks, StartNextFails(t) PROVE Core'
  BY <1>6 DEF StartNextFails, StartCmdFails, Move, tableVars, fileVars
<1>7. ASSUME NEW t \in Tasks, Reap(t) PROVE Core'
  <2> DEFINE i == idOf[t]
  <2>1. PICK r \in Exits : /\ WaitReturns(i, r)
                           /\ anyFailed' = (anyFailed \/ (pc = "scan" /\ r = "failed"))
                           /\ Record(t, r, pc = "scan" /\ noCache)
    BY <1>7 DEF Reap
  <2>2. /\ pc \in {"scan", "drain"} /\ stage[t] = "running"
        /\ stage' = [stage EXCEPT ![t] = "finished"]
        /\ UNCHANGED <<pc, idOf, result, fresh>>
    BY <1>7 DEF Reap, Move
  <2>3. /\ i \in Ids /\ cmdOf[i] = t /\ child[i] = r
        /\ cmdOf' = [cmdOf EXCEPT ![i] = NoCmd]
        /\ child' = [child EXCEPT ![i] = "none"]
    BY <2>1, <2>2 DEF WaitReturns, FreeSlot
  <2>4. \A u \in Running' : u # t /\ u \in Running /\ idOf'[u] # i
    BY <2>2, <2>3
  <2>5. r = "ok" => t \in fresh
    BY <2>3
  <2>6. /\ fpSaved' = IF r = "ok" THEN fpSaved \cup {t} ELSE fpSaved
        /\ stored' \subseteq stored \cup {t}
        /\ r # "ok" => stored' = stored
    BY <2>1 DEF Record, Succeeded
  <2>7. SlotOwnership'
    BY <2>2, <2>3, <2>4
  <2>8. StagesOfLoop' /\ SuccessIsFinished'
    BY <2>1, <2>2
  <2>9. ExitedOkIsFresh' /\ RecordedIsFresh'
    BY <2>2, <2>3, <2>5, <2>6
  <2>10. UnrecordedIsRunning'
    BY <2>2, <2>3, <2>4, <2>6
  <2>11. FinishedIsRecorded'
    <3>1. SUFFICES ASSUME ~anyFailed', NEW u \in At("finished")'
                   PROVE  u \in fresh' /\ u \in fpSaved'
      BY DEF FinishedIsRecorded
    <3>2. ~anyFailed /\ ~(pc = "scan" /\ r = "failed")
      BY <2>1, <3>1, Zenon
    <3>3. r = "ok" /\ pc # "done"
      BY <2>2, <3>2 DEF Exits
    <3>4. CASE u = t
      BY <2>2, <2>5, <2>6, <3>3, <3>4
    <3>5. CASE u # t
      BY <2>2, <2>6, <3>1, <3>2, <3>3, <3>5
    <3>6. QED
      BY <3>4, <3>5
  <2>12. QED
    BY <2>7, <2>8, <2>9, <2>10, <2>11
<1>8. ASSUME NEW t \in Tasks, Keep(t) PROVE Core'
  BY <1>8 DEF Keep, WaitReturnsNil, WaitFails, FreeSlot, Move, tableVars, fileVars
<1>9. ASSUME SerialDone \/ PrefilterDone PROVE Core'
  <2>1. CASE SerialDone
    BY <2>1 DEF SerialDone, Return, tableVars, schedVars, fileVars
  <2>2. CASE PrefilterDone /\ At("pending") = {}
    BY <2>2 DEF PrefilterDone, Return, tableVars, schedVars, fileVars
  <2>3. CASE PrefilterDone /\ At("pending") # {}
    <3>1. pc = "prefilter" /\ pc' = "start" /\ maxJobs > 1
      BY <2>3 DEF PrefilterDone
    <3>2. QED
      BY <2>3, <3>1 DEF PrefilterDone, tableVars, schedVars, fileVars
  <2>4. QED
    BY <1>9, <2>1, <2>2, <2>3
<1>10. ASSUME StartNextDone PROVE Core'
  BY <1>10 DEF StartNextDone, tableVars, schedVars, fileVars
<1>11. ASSUME NextPass PROVE Core'
  BY <1>11 DEF NextPass, Restart, tableVars, fileVars
<1>12. ASSUME Finish PROVE Core'
  <2>1. /\ pc' = "done" /\ Running = {} /\ Running' = {}
        /\ UNCHANGED <<cmdOf, child, stage, idOf, anyFailed, fresh, fpSaved, stored>>
    BY <1>12 DEF Finish, Drained, Return, tableVars, schedVars, fileVars
  <2>2. result' => pc = "scan" /\ ~anyFailed
    BY <1>12, Zenon DEF Finish, Return
  <2>3. result' => At("pending") = {}
    <3>1. Cardinality(Running) = 0
      BY <2>1, FS_EmptySet
    <3>2. pc = "scan" => Room
      BY <3>1 DEF Room
    <3>3. QED
      BY <1>12, <2>2, <3>2 DEF Finish, Restart
  <2>4. result' => At("finished") = Tasks
    BY <2>1, <2>2, <2>3
  <2>5. StagesOfLoop' /\ SlotOwnership' /\ ExitedOkIsFresh' /\ RecordedIsFresh'
        /\ UnrecordedIsRunning'
    BY <2>1
  <2>6. FinishedIsRecorded' /\ SuccessIsFinished'
    BY <1>12, <2>1, <2>2, <2>4 DEF Finish
  <2>7. QED
    BY <2>5, <2>6
<1>13. ASSUME NEW i \in Ids, CompilerExits(i) PROVE Core'
  BY <1>13 DEF CompilerExits, ChildExits, Exits, schedVars, fileVars
<1>14. CASE UNCHANGED vars
  BY <1>14 DEF vars, tableVars, schedVars, fileVars
<1>15. QED
  BY <1>1, <1>2, <1>3, <1>4, <1>5, <1>6, <1>7, <1>8, <1>9, <1>10, <1>11,
     <1>12, <1>13, <1>14 DEF Next, Spkg

LEMMA InitIInv == Init => IInv
<1>1. SUFFICES ASSUME Init PROVE IInv
  OBVIOUS
<1>2. TypeOK
  BY <1>1, TypeInit
<1>3. Running = {} /\ FreeIds = Ids /\ At("unchecked") = Tasks
  BY <1>1 DEF Init, TableInit, Running, FreeIds, At
<1>4. Cardinality(Running) = 0
  BY <1>3, FS_EmptySet
<1>5. RunningBound
  BY <1>2, <1>4 DEF RunningBound, TypeOK
<1>6. SlotOwnership /\ ExitedOkIsFresh /\ RecordedIsFresh /\ UnrecordedIsRunning
  BY <1>1, <1>3 DEF Init, SlotOwnership, ExitedOkIsFresh, RecordedIsFresh,
     UnrecordedIsRunning
<1>7. StagesOfLoop /\ FinishedIsRecorded /\ SuccessIsFinished
  BY <1>1, <1>3 DEF Init, StagesOfLoop, FinishedIsRecorded, SuccessIsFinished, At
<1>8. QED
  BY <1>2, <1>5, <1>6, <1>7 DEF IInv

\* While SIGCHLD has its default disposition the inductive invariant holds.
THEOREM InductiveInvariant == ASSUME ~SigChldIgnored PROVE Spec => []IInv
<1>1. Init => IInv
  BY InitIInv
<1>2. IInv /\ [Next]_vars => IInv'
  <2>1. SUFFICES ASSUME IInv, [Next]_vars PROVE IInv'
    OBVIOUS
  <2>2. TypeOK'
    BY <2>1, TypeStep DEF IInv
  <2>3. RunningBound'
    BY <2>1, RunningBoundStep DEF IInv
  <2>4. Core'
    BY <2>1, CoreStep DEF IInv, Core
  <2>5. QED
    BY <2>2, <2>3, <2>4 DEF IInv, Core
<1>3. QED
  BY <1>1, <1>2, PTL DEF Spec

\* Every slot in use belongs to the entry of "running" that started it, and to
\* no other, so no compiler's result is credited to another task.
THEOREM OwnershipHolds == ASSUME ~SigChldIgnored PROVE Spec => []SlotOwnership
<1>1. IInv => SlotOwnership
  BY DEF IInv
<1>2. QED
  BY <1>1, InductiveInvariant, PTL

\* The slots in use are as many as their owners at most.
LEMMA SlotsAreOwned ==
  ASSUME IInv
  PROVE  /\ Cardinality(Ids \ FreeIds) \in Nat /\ Cardinality(Running) \in Nat
         /\ Cardinality(Ids \ FreeIds) <= Cardinality(Running)
<1>1. IsFiniteSet(Running)
  BY FS_Subset DEF Running, Tasks
<1> DEFINE owner == [i \in Ids \ FreeIds |-> cmdOf[i]]
<1>2. owner \in Injection(Ids \ FreeIds, Running)
  BY DEF IInv, SlotOwnership, Injection, IsInjective
<1>3. IsFiniteSet(Ids \ FreeIds) /\ Cardinality(Ids \ FreeIds) <= Cardinality(Running)
  BY <1>1, <1>2, FS_Injection DEF ExistsInjection
<1>4. QED
  BY <1>1, <1>3, FS_CardinalityType

\* At most --jobs compilers exist at a time.
THEOREM JobsBoundHolds == ASSUME ~SigChldIgnored PROVE Spec => []JobsBound
<1>1. IInv => JobsBound
  BY SlotsAreOwned DEF IInv, TypeOK, RunningBound, JobsBound
<1>2. QED
  BY <1>1, InductiveInvariant, PTL

\* A full table means that as many compilers run, so start_next, which wants fewer
\* than --jobs of them, runs out of slots only if --jobs is above the table's size.
THEOREM SlotForEveryJobHolds == ASSUME ~SigChldIgnored PROVE Spec => []SlotForEveryJob
<1>1. IInv => SlotForEveryJob
  <2>1. SUFFICES ASSUME IInv, Room, FreeIds = {} PROVE MaxAsync < maxJobs
    BY DEF SlotForEveryJob
  <2>2. Cardinality(Ids \ FreeIds) = MaxAsync
    BY <2>1, FS_Interval DEF Ids
  <2>3. QED
    BY <2>1, <2>2, SlotsAreOwned DEF Room, IInv, TypeOK
<1>2. QED
  BY <1>1, InductiveInvariant, PTL

\* What `spkg build` reports is true: a successful return has an object for
\* every task.
THEOREM SuccessHolds == ASSUME ~SigChldIgnored PROVE Spec => []SuccessIsComplete
<1>1. IInv => SuccessIsComplete
  BY DEF IInv, TypeOK, SuccessIsFinished, FinishedIsRecorded, SuccessIsComplete, At
<1>2. QED
  BY <1>1, InductiveInvariant, PTL

\* Every return, after a failure too, leaves no compiler running and no object
\* without its fingerprint.
THEOREM ReturnIsClean == ASSUME ~SigChldIgnored PROVE Spec => []NothingLeftBehind
<1>1. IInv => NothingLeftBehind
  BY DEF IInv, StagesOfLoop, SlotOwnership, UnrecordedIsRunning, NothingLeftBehind, FreeIds
<1>2. QED
  BY <1>1, InductiveInvariant, PTL

\* A fingerprint or a cache entry is saved only for an object that was written.
THEOREM RecordedHolds == ASSUME ~SigChldIgnored PROVE Spec => []RecordedIsFresh
<1>1. IInv => RecordedIsFresh
  BY DEF IInv
<1>2. QED
  BY <1>1, InductiveInvariant, PTL

\* No compiler is started after a failure.
THEOREM NoStartAfterFailureHolds ==
  ASSUME ~SigChldIgnored PROVE Spec => NoStartAfterFailure
<1>1. IInv /\ [Next]_vars => [anyFailed => FreeIds \subseteq FreeIds']_vars
  <2>1. SUFFICES ASSUME IInv, [Next]_vars, anyFailed PROVE FreeIds \subseteq FreeIds'
    OBVIOUS
  <2>2. pc # "start"
    BY <2>1 DEF IInv, StagesOfLoop
  <2>3. QED
    BY <2>1, <2>2 DEF IInv, TypeOK, TableTypeOK, Next, Spkg, vars, tableVars, FreeIds,
       SerialHit, SerialCompile, SerialFails, SerialDone, CacheHit, PrefilterHit,
       PrefilterMiss, PrefilterDone, StartNext, StartNextFails, StartNextDone, Reap, Keep,
       NextPass, Finish, CompilerExits, ChildExits, WaitReturns, WaitReturnsNil,
       WaitFails, FreeSlot
<1>2. QED
  BY <1>1, InductiveInvariant, PTL DEF Spec, NoStartAfterFailure

-------------------------------------------------------------------------------
(* How far the call is from its return.  Tasks go from list to list, compilers   *)
(* exit, and what is left is a pass over the compilers that still run.  The main *)
(* loop returns to start_next only for a place that a reaped compiler has left.  *)

Level(s) ==
    CASE s = "unchecked" -> 0 [] s = "pending" -> 1 [] s \in {"running", "kept"} -> 2
      [] s = "finished" -> 3
Levels == [t \in Tasks |-> Level(stage[t])]
Alive == {i \in Ids : child[i] = "running"}
Loop ==
    CASE pc = "done"  -> 0
      [] pc = "drain" -> 1
      [] pc = "scan"  -> IF At("pending") # {} /\ Room THEN 4 ELSE 2
      [] pc = "start" -> 3
      [] OTHER        -> 5

Rank == << Cardinality(Ahead(Tasks, 3, Levels)), Cardinality(Alive), Loop,
           Cardinality(At("running")) >>

AnotherPass == NextPass /\ ~Restart

LEMMA FiniteTasks ==
  /\ IsFiniteSet(Tasks)
  /\ IsFiniteSet(At("running")) /\ Cardinality(At("running")) \in Nat
  /\ IsFiniteSet(Alive) /\ Cardinality(Alive) \in Nat
<1>1. IsFiniteSet(Tasks) /\ IsFiniteSet(Ids)
  BY FS_Interval DEF Tasks, Ids
<1>2. IsFiniteSet(At("running")) /\ IsFiniteSet(Alive)
  BY <1>1, FS_Subset DEF At, Alive
<1>3. QED
  BY <1>1, <1>2, FS_CardinalityType

LEMMA RankType == TypeOK => Rank \in RankSet
<1>1. Cardinality(Ahead(Tasks, 3, Levels)) \in Nat
  BY FiniteTasks, AheadIsFinite
<1>2. TypeOK => Loop \in Nat
  BY DEF Loop, TypeOK, PCs
<1>3. QED
  BY <1>1, <1>2, FiniteTasks DEF Rank, RankSet

\* A task comes to a later list.
LEMMA TaskLowers ==
  ASSUME TypeOK, TypeOK', NEW t \in Tasks, NEW s \in Stages,
         Move(t, s), Level(stage[t]) < Level(s)
  PROVE  Lower(Rank', Rank)
<1>1. \A u \in Tasks : stage'[u] = IF u = t THEN s ELSE stage[u]
  BY DEF Move, TypeOK
<1>2. Levels \in [Tasks -> 0 .. 3] /\ Levels' \in [Tasks -> 0 .. 3]
  <2>1. \A p \in Stages : Level(p) \in 0 .. 3
    BY DEF Stages, Level
  <2>2. QED
    BY <2>1 DEF TypeOK, Levels
<1>3. /\ \A u \in Tasks : Levels[u] <= Levels'[u]
      /\ Levels[t] < Levels'[t]
  <2>1. \A u \in Tasks : Levels[u] = Level(stage[u]) /\ Levels'[u] = Level(stage'[u])
    BY DEF Levels
  <2>2. QED
    BY <1>1, <1>2, <2>1
<1>4. Cardinality(Ahead(Tasks, 3, Levels')) < Cardinality(Ahead(Tasks, 3, Levels))
  BY <1>2, <1>3, FiniteTasks, Advance
<1>5. QED
  BY <1>4 DEF Rank, Lower

\* What moves no task and no compiler is a change of the loop.
LEMMA LoopLowers ==
  ASSUME Levels' = Levels, Alive' = Alive, Loop' < Loop
  PROVE  Lower(Rank', Rank)
BY DEF Rank, Lower

LEMMA PassEnds ==
  ASSUME TypeOK, NextPass, UNCHANGED args
  PROVE  /\ Levels' = Levels /\ Alive' = Alive
         /\ At("pending")' = At("pending") /\ Running' = Running /\ (Room <=> Room')
<1>1. \A t \in Tasks :
        /\ Level(stage'[t]) = Level(stage[t])
        /\ stage'[t] = "pending" <=> stage[t] = "pending"
        /\ stage'[t] \in {"running", "kept"} <=> stage[t] \in {"running", "kept"}
  BY DEF NextPass, Level, TypeOK
<1>2. Levels' = Levels
  BY <1>1 DEF Levels
<1>3. At("pending")' = At("pending") /\ Running' = Running
  BY <1>1 DEF At, Running
<1>4. Alive' = Alive
  BY DEF NextPass, tableVars, Alive
<1>5. Room <=> Room'
  BY <1>3 DEF Room, args
<1>6. QED
  BY <1>2, <1>3, <1>4, <1>5

LEMMA StepLowers ==
  ASSUME TypeOK, TypeOK', [Next]_vars
  PROVE  [IF AnotherPass THEN \A k \in 1 .. 3 : Rank'[k] = Rank[k]
                         ELSE Lower(Rank', Rank)]_vars
<1> SUFFICES ASSUME Next
             PROVE  IF AnotherPass THEN \A k \in 1 .. 3 : Rank'[k] = Rank[k]
                                   ELSE Lower(Rank', Rank)
  OBVIOUS
<1>0. UNCHANGED args
  BY DEF Next, Spkg, CompilerExits, args
<1>1. ASSUME NEW t \in Tasks, SerialHit(t) \/ PrefilterHit(t) \/ SerialCompile(t)
                \/ SerialFails(t) \/ PrefilterMiss(t) \/ StartNext(t)
                \/ StartNextFails(t) \/ Reap(t)
      PROVE  Lower(Rank', Rank)
  <2>1. \/ stage[t] = "unchecked" /\ (Move(t, "finished") \/ Move(t, "pending"))
        \/ stage[t] = "pending" /\ (Move(t, "running") \/ Move(t, "finished"))
        \/ stage[t] = "running" /\ Move(t, "finished")
    BY <1>1 DEF SerialHit, PrefilterHit, CacheHit, SerialCompile, SerialFails,
       PrefilterMiss, StartNext, StartNextFails, Reap, At
  <2>2. \A s \in Stages : Move(t, s) /\ Level(stage[t]) < Level(s) => Lower(Rank', Rank)
    BY TaskLowers
  <2>3. {"pending", "running", "finished"} \subseteq Stages
    BY DEF Stages
  <2>4. QED
    BY <2>1, <2>2, <2>3 DEF Level
<1>2. ASSUME SerialDone \/ PrefilterDone \/ Finish PROVE Lower(Rank', Rank)
  <2>1. UNCHANGED <<stage, child>>
    BY <1>2 DEF SerialDone, PrefilterDone, Finish, schedVars, tableVars
  <2>2. Levels' = Levels /\ Alive' = Alive
    BY <2>1 DEF Levels, Alive
  <2>3. Loop' < Loop
    BY <1>2 DEF SerialDone, PrefilterDone, Finish, Return, Loop
  <2>4. QED
    BY <2>2, <2>3, LoopLowers
<1>3. ASSUME StartNextDone PROVE Lower(Rank', Rank)
  <2>1. UNCHANGED <<stage, child>>
    BY <1>3 DEF StartNextDone, schedVars, tableVars
  <2>2. /\ Levels' = Levels /\ Alive' = Alive
        /\ At("pending")' = At("pending") /\ Running' = Running
    BY <2>1 DEF Levels, Alive, At, Running
  <2>3. Loop = 3 /\ Loop' = 2
    BY <1>0, <1>3, <2>2 DEF StartNextDone, Loop, Room, args
  <2>4. QED
    BY <2>2, <2>3, LoopLowers
<1>4. ASSUME NextPass, Restart PROVE Lower(Rank', Rank)
  <2>1. Loop = 4 /\ Loop' = 3
    BY <1>4 DEF NextPass, Restart, Loop
  <2>2. QED
    BY <1>0, <1>4, <2>1, PassEnds, LoopLowers
<1>5. ASSUME AnotherPass PROVE \A k \in 1 .. 3 : Rank'[k] = Rank[k]
  <2>1. pc' = pc
    BY <1>5 DEF AnotherPass, NextPass
  <2>2. Loop' = Loop
    BY <1>0, <1>5, <2>1, PassEnds DEF AnotherPass, Loop
  <2>3. QED
    BY <1>0, <1>5, <2>2, PassEnds DEF AnotherPass, Rank
<1>6. ASSUME NEW t \in Tasks, Keep(t) PROVE Lower(Rank', Rank)
  <2>1. \A u \in Tasks : stage'[u] = IF u = t THEN "kept" ELSE stage[u]
    BY <1>6 DEF Keep, Move, TypeOK
  <2>2. stage[t] = "running" /\ pc' = pc
    BY <1>6 DEF Keep, At
  <2>3. Levels' = Levels
    <3>1. \A u \in Tasks : Level(stage'[u]) = Level(stage[u])
      BY <2>1, <2>2 DEF Level
    <3>2. QED
      BY <3>1 DEF Levels
  <2>4. At("pending")' = At("pending") /\ Running' = Running
    BY <2>1, <2>2 DEF At, Running
  <2>5. Alive' = Alive
    BY <1>6 DEF Keep, WaitReturnsNil, WaitFails, FreeSlot, InUse, FreeIds, Exits, Alive,
       tableVars, TypeOK, TableTypeOK
  <2>6. Loop' = Loop
    BY <1>0, <2>2, <2>4 DEF Loop, Room, args
  <2>7. At("running")' \subseteq At("running") /\ t \in At("running") \ At("running")'
    BY <2>1, <2>2 DEF At
  <2>8. Cardinality(At("running")') < Cardinality(At("running"))
    BY <2>7, FiniteTasks, Fewer
  <2>9. QED
    BY <2>3, <2>5, <2>6, <2>8 DEF Rank, Lower
<1>7. ASSUME NEW i \in Ids, CompilerExits(i) PROVE Lower(Rank', Rank)
  <2>1. Levels' = Levels
    BY <1>7 DEF CompilerExits, schedVars, Levels
  <2>2. Alive' \subseteq Alive /\ i \in Alive \ Alive'
    BY <1>7 DEF CompilerExits, ChildExits, Exits, Alive, TypeOK, TableTypeOK
  <2>3. Cardinality(Alive') < Cardinality(Alive)
    BY <2>2, FiniteTasks, Fewer
  <2>4. QED
    BY <2>1, <2>3 DEF Rank, Lower
<1>8. ASSUME ~AnotherPass PROVE Lower(Rank', Rank)
  BY <1>1, <1>2, <1>3, <1>4, <1>6, <1>7, <1>8 DEF Next, Spkg, AnotherPass
<1>9. QED
  BY <1>5, <1>8

\* compile_tasks_parallel does not go round for ever by itself: all that it and the
\* compilers do brings it closer to its return, save for another pass over compilers
\* that run, and no such pass undoes anything.
THEOREM OnlyPassesRepeat ==
  Spec => /\ [](Rank \in RankSet)
          /\ [][IF AnotherPass THEN \A k \in 1 .. 3 : Rank'[k] = Rank[k]
                               ELSE Lower(Rank', Rank)]_vars
<1>1. TypeOK /\ TypeOK' /\ [Next]_vars =>
        [IF AnotherPass THEN \A k \in 1 .. 3 : Rank'[k] = Rank[k]
                        ELSE Lower(Rank', Rank)]_vars
  BY StepLowers
<1>2. QED
  BY <1>1, RankType, TypeCorrect, PTL DEF Spec
===============================================================================
