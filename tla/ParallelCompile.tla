--------------------------- MODULE ParallelCompile ---------------------------
(***************************************************************************)
(* compile_tasks_parallel (spkg_build.lua): the build of one artifact's    *)
(* out-of-date sources with at most maxJobs compiler processes.  spkg is   *)
(* one thread that polls the table of AsyncCommands; the compilers run and *)
(* exit at any moment.  A command stands for its task: compile_task_cmd    *)
(* makes one command per task and start_next starts each at most once.     *)
(*                                                                         *)
(* The Lua lists "pending" and "running" are the sets of tasks whose stage *)
(* says so: every property here holds whatever the order of the lists, so  *)
(* a step takes any member where the code takes the next one.              *)
(***************************************************************************)
EXTENDS AsyncCommands, FiniteSets

CONSTANT Jobs  \* the values of --jobs

ASSUME CompileAssumption == IsFiniteSet(Cmds) /\ Jobs \subseteq Nat

Tasks == Cmds

VARIABLES maxJobs,    \* --jobs
          noCache,    \* --no-cache
          pc,         \* which loop of compile_tasks_parallel is executing
          stage,      \* [Tasks -> Stages]: the Lua list that holds the task
          idOf,       \* [Tasks -> task id]: r.id of the task's entry
          anyFailed,  \* any_failed
          result,     \* the value returned
          fresh,      \* tasks whose .o was written in this call
          fpSaved,    \* tasks whose .o.fp was written in this call
          stored      \* tasks whose .o was given to cache_put in this call

args == <<maxJobs, noCache>>
schedVars == <<stage, idOf, anyFailed>>
fileVars == <<fpSaved, stored>>
vars == <<tableVars, args, pc, schedVars, result, fresh, fileVars>>

PCs == {"serial", "prefilter", "start", "scan", "drain", "done"}
Stages == {"unchecked", "pending", "running", "kept", "finished"}

TypeOK == /\ TableTypeOK
          /\ maxJobs \in Jobs /\ noCache \in BOOLEAN
          /\ pc \in PCs
          /\ stage \in [Tasks -> Stages]
          /\ idOf \in [Tasks -> Ids \cup {0}]
          /\ anyFailed \in BOOLEAN
          /\ result \in BOOLEAN
          /\ fresh \subseteq Tasks
          /\ fpSaved \subseteq Tasks
          /\ stored \subseteq Tasks

At(s) == {t \in Tasks : stage[t] = s}

\* The list "running" together with "new_running", which replaces it once the
\* current pass over it is complete.
Running == {t \in Tasks : stage[t] \in {"running", "kept"}}

Init == /\ TableInit
        /\ maxJobs \in Jobs /\ noCache \in BOOLEAN
        /\ pc = IF maxJobs <= 1 THEN "serial" ELSE "prefilter"
        /\ stage = [t \in Tasks |-> "unchecked"]
        /\ idOf = [t \in Tasks |-> 0]
        /\ anyFailed = FALSE
        /\ result = FALSE
        /\ fresh = {} /\ fpSaved = {} /\ stored = {}

Move(t, s) == stage' = [stage EXCEPT ![t] = s]

MutReturn(r) == pc' = "done" /\ result' = TRUE  \* the outcome is forgotten
Return(r) == pc' = "done" /\ result' = r

\* What is done with an exited compiler: save_fingerprint if it succeeded, and
\* cache_put unless "skip".
MutSucceeded(r) == r \in Exits  \* the result is not looked at
Succeeded(r) == r = "ok"
Record(t, r, skip) ==
    /\ fpSaved' = IF Succeeded(r) THEN fpSaved \cup {t} ELSE fpSaved
    /\ stored' = IF Succeeded(r) /\ ~skip THEN stored \cup {t} ELSE stored

\* A cache hit, in either mode: the object is copied and its fingerprint saved.
CacheHit(t) == /\ ~noCache
               /\ t \in At("unchecked")
               /\ Move(t, "finished")
               /\ fresh' = fresh \cup {t}
               /\ fpSaved' = fpSaved \cup {t}
               /\ UNCHANGED <<tableVars, pc, idOf, anyFailed, result, stored>>

(***************************************************************************)
(* max_jobs <= 1: compile_task, one task after the other, each compiler    *)
(* run to its end by run_cmd.                                              *)
(***************************************************************************)
SerialHit(t) == pc = "serial" /\ CacheHit(t)

SerialCompile(t) == /\ pc = "serial"
                    /\ t \in At("unchecked")
                    /\ Move(t, "finished")
                    /\ fresh' = fresh \cup {t}
                    /\ Record(t, "ok", noCache)
                    /\ UNCHANGED <<tableVars, pc, idOf, anyFailed, result>>

\* There is no compiler, run_cmd cannot run it, or it fails.
SerialFails(t) == /\ pc = "serial"
                  /\ t \in At("unchecked")
                  /\ Move(t, "finished")
                  /\ Return(FALSE)
                  /\ UNCHANGED <<tableVars, idOf, anyFailed, fresh, fileVars>>

SerialDone == /\ pc = "serial"
              /\ At("unchecked") = {}
              /\ Return(TRUE)
              /\ UNCHANGED <<tableVars, schedVars, fresh, fileVars>>

(***************************************************************************)
(* max_jobs > 1: the tasks the cache answers come first.                   *)
(***************************************************************************)
PrefilterHit(t) == pc = "prefilter" /\ CacheHit(t)

PrefilterMiss(t) == /\ pc = "prefilter"
                    /\ t \in At("unchecked")
                    /\ Move(t, "pending")
                    /\ UNCHANGED <<tableVars, pc, idOf, anyFailed, result, fresh, fileVars>>

PrefilterDone == /\ pc = "prefilter"
                 /\ At("unchecked") = {}
                 /\ IF At("pending") = {}
                    THEN Return(TRUE)
                    ELSE pc' = "start" /\ UNCHANGED result
                 /\ UNCHANGED <<tableVars, schedVars, fresh, fileVars>>

(***************************************************************************)
(* start_next: fill "running" up to max_jobs.                              *)
(***************************************************************************)
MutRoom == Cardinality(Running) <= maxJobs  \* one too many
Room == Cardinality(Running) < maxJobs

StartNext(t) == /\ pc = "start" /\ t \in At("pending") /\ Room
                /\ \E i \in Ids : /\ StartCmd(t, i)
                                  /\ idOf' = [idOf EXCEPT ![t] = i]
                /\ Move(t, "running")
                /\ UNCHANGED <<pc, anyFailed, result, fresh, fileVars>>

\* Nothing was started (StartCmdFails): the task has already been taken off the
\* list, and what runs is drained before returning.
StartNextFails(t) == /\ pc = "start" /\ t \in At("pending") /\ Room
                     /\ StartCmdFails
                     /\ Move(t, "finished")
                     /\ anyFailed' = TRUE
                     /\ pc' = "drain"
                     /\ UNCHANGED <<idOf, result, fresh, fileVars>>

StartNextDone == /\ pc = "start"
                 /\ At("pending") = {} \/ ~Room
                 /\ pc' = "scan"
                 /\ UNCHANGED <<tableVars, schedVars, result, fresh, fileVars>>

(***************************************************************************)
(* One call of wait_task in a pass over "running": the main loop (scan)    *)
(* and drain_running (drain).  drain_running ignores failures and calls    *)
(* cache_put whatever --no-cache says.                                     *)
(***************************************************************************)
Reap(t) == /\ pc \in {"scan", "drain"}
           /\ t \in At("running")
           /\ \E r \in Exits : /\ WaitReturns(idOf[t], r)
                               /\ anyFailed' = (anyFailed \/ (pc = "scan" /\ r = "failed"))
                               /\ Record(t, r, pc = "scan" /\ noCache)
           /\ Move(t, "finished")
           /\ UNCHANGED <<pc, idOf, result, fresh>>

Keep(t) == /\ pc \in {"scan", "drain"}
           /\ t \in At("running")
           /\ WaitReturnsNil(idOf[t])
           /\ Move(t, "kept")
           /\ UNCHANGED <<pc, idOf, anyFailed, result, fresh, fileVars>>

\* At the end of a pass of the main loop start_next is called again if there is
\* room, something to start, and no failure so far.
MutRestart == pc = "scan" /\ At("pending") # {} /\ Room  \* failure forgotten
Restart == pc = "scan" /\ At("pending") # {} /\ Room /\ ~anyFailed

\* The end of a pass after which the loop goes on.
NextPass == /\ pc \in {"scan", "drain"}
            /\ At("running") = {}
            /\ At("kept") # {} \/ Restart
            /\ pc' = IF Restart THEN "start" ELSE pc
            /\ stage' = [t \in Tasks |-> IF stage[t] = "kept" THEN "running" ELSE stage[t]]
            /\ UNCHANGED <<tableVars, idOf, anyFailed, result, fresh, fileVars>>

\* "running" is empty: leave the loop and return.
MutDrained == pc = "drain" \/ Running = {}  \* a failed start returns at once
Drained == Running = {}

Finish == /\ pc \in {"scan", "drain"}
          /\ Drained
          /\ ~Restart
          /\ Return(pc = "scan" /\ ~anyFailed)
          /\ UNCHANGED <<tableVars, schedVars, fresh, fileVars>>

\* A compiler exits; one that succeeds has written its .o (and .d).
CompilerExits(i) ==
    /\ \E r \in Exits :
         /\ ChildExits(i, r)
         /\ fresh' = IF r = "ok" THEN fresh \cup {cmdOf[i]} ELSE fresh
    /\ UNCHANGED <<args, pc, schedVars, result, fileVars>>

Spkg == /\ UNCHANGED args
        /\ \/ \E t \in Tasks : \/ SerialHit(t) \/ SerialCompile(t) \/ SerialFails(t)
                               \/ PrefilterHit(t) \/ PrefilterMiss(t)
                               \/ StartNext(t) \/ StartNextFails(t)
                               \/ Reap(t) \/ Keep(t)
           \/ SerialDone \/ PrefilterDone \/ StartNextDone
           \/ NextPass \/ Finish

Next == Spkg \/ \E i \in Ids : CompilerExits(i)

\* spkg is never descheduled for ever, and every compiler exits: there is no
\* timeout on a local compilation, so its end is the compiler's own promise.
Fairness == WF_vars(Spkg) /\ \A i \in Ids : WF_vars(CompilerExits(i))

Spec == Init /\ [][Next]_vars
FairSpec == Spec /\ Fairness
------------------------------------------------------------------------------
(***************************************************************************)
(* The inductive invariant behind the safety properties.                   *)
(***************************************************************************)
\* Which lists can be non-empty in which loop.
StagesOfLoop ==
    /\ pc = "serial" => \A t \in Tasks : stage[t] \in {"unchecked", "finished"}
    /\ pc = "prefilter" => \A t \in Tasks : stage[t] \in {"unchecked", "pending", "finished"}
    /\ pc \in {"start", "scan", "drain"} => At("unchecked") = {}
    /\ pc \in {"prefilter", "start", "scan", "drain"} => maxJobs > 1
    /\ pc = "start" => At("kept") = {}
    /\ pc \in {"serial", "prefilter", "start"} => ~anyFailed
    /\ pc = "drain" => anyFailed
    /\ pc = "done" => Running = {}

RunningBound == Cardinality(Running) <= maxJobs

\* A compiler that exited with success has written its object.
ExitedOkIsFresh == \A i \in Ids \ FreeIds : child[i] = "ok" => cmdOf[i] \in fresh

\* An object without fingerprint belongs to a compiler nobody has reaped.
UnrecordedIsRunning ==
    \A t \in fresh \ fpSaved : t \in Running /\ child[idOf[t]] = "ok"

\* As long as nothing has failed, what is finished is recorded.
FinishedIsRecorded ==
    ~anyFailed /\ (pc # "done" \/ result) =>
        \A t \in At("finished") : t \in fresh /\ t \in fpSaved

SuccessIsFinished == pc = "done" /\ result => At("finished") = Tasks /\ ~anyFailed
------------------------------------------------------------------------------
\* The entries of "running" and the slots in use correspond one to one: an
\* entry owns a slot that runs its own compiler, no two entries own the same
\* slot, and no slot is in use without an owner.  This is what keeps the
\* result of one compiler from being credited to another task's object.
SlotOwnership ==
    /\ \A t \in Running : idOf[t] \in Ids /\ cmdOf[idOf[t]] = t
    /\ \A i \in Ids \ FreeIds : cmdOf[i] \in Running /\ idOf[cmdOf[i]] = i

\* No more than --jobs compilers exist at a time, reaped or not.
JobsBound == Cardinality(Ids \ FreeIds) <= maxJobs

\* As long as --jobs is no larger than the table of commands, every compiler that
\* start_next wants to run finds a free slot: none is lost to a failed start, a
\* failed compiler or a drained one, and the exited ones that nobody has polled
\* count as running.  Nothing keeps --jobs below the size of the table: with more
\* jobs a build in which no compiler fails may end in failure for want of a slot.
SlotForEveryJob ==
    pc = "start" /\ At("pending") # {} /\ Room /\ FreeIds = {} => MaxAsync < maxJobs

\* A build that reports success has written the object and the fingerprint of
\* every task: none was dropped between the lists, and none that failed was
\* forgotten.
SuccessIsComplete == pc = "done" /\ result => fresh = Tasks /\ fpSaved = Tasks

\* A fingerprint, or a cache entry, is only ever saved for an object that was
\* written in this build (needs_compile takes the fingerprint as the promise
\* that the object matches the flags).
RecordedIsFresh == fpSaved \cup stored \subseteq fresh

\* On every return, error returns included, no compiler is left behind and no
\* finished object is left without its fingerprint (it would be compiled again).
NothingLeftBehind == pc = "done" => FreeIds = Ids /\ fresh \subseteq fpSaved

IInv == /\ TypeOK /\ StagesOfLoop /\ SlotOwnership
        /\ RunningBound /\ ExitedOkIsFresh /\ RecordedIsFresh /\ UnrecordedIsRunning
        /\ FinishedIsRecorded /\ SuccessIsFinished

\* Once a compiler or a start has failed no further compiler is started.
NoStartAfterFailure == [][anyFailed => FreeIds \subseteq FreeIds']_vars

\* compile_tasks_parallel returns, whatever fails.
Termination == <>(pc = "done")

==============================================================================
