----------------------- MODULE DistributedCompile_proofs -----------------------
(**************************************************************************)
(* Proofs about DistributedCompile, for any number of tasks, any lists of *)
(* servers and any number of slots.                                       *)
(**************************************************************************)
EXTENDS DistributedCompile, FiniteSetTheorems, SequenceTheorems, TLAPS, Ranks

USE AsyncAssumption, DistributedAssumption

------------------------------------------------------------------------------
\* Where requests may go: the rotations through healthy stay inside it.
LEMMA ModType == ASSUME NEW a \in Nat, NEW n \in Nat \ {0} PROVE a % n \in 0 .. n - 1
OBVIOUS

LEMMA NodeForType ==
  ASSUME TypeOK, healthy # <<>>, NEW t \in Tasks, NEW k \in Nat \ {0}
  PROVE  NodeFor(t, k) \in 1 .. Len(healthy)
<1>1. Len(healthy) \in Nat \ {0} /\ t + k - 2 \in Nat
  BY DEF TypeOK, Tasks
<1>2. (t + k - 2) % Len(healthy) \in 0 .. Len(healthy) - 1
  BY <1>1, ModType
<1>3. QED
  BY <1>1, <1>2 DEF NodeFor

LEMMA CandidateType ==
  ASSUME TypeOK, healthy # <<>>, NEW o \in Nat
  PROVE  Candidate(o) \in 1 .. Len(healthy)
<1>1. Len(healthy) \in Nat \ {0} /\ nodeIdx + o \in Nat
  BY DEF TypeOK
<1>2. (nodeIdx + o) % Len(healthy) \in 0 .. Len(healthy) - 1
  BY <1>1, ModType
<1>3. QED
  BY <1>1, <1>2 DEF Candidate

------------------------------------------------------------------------------
\* What bounds the attempts: before the requests there are none; a task that is
\* tried again, or has its turn in the loop without curl, has attempts left.
Loops == {"collect", "submit", "wait", "results", "sequential", "posting"}
AttemptsLeft ==
    /\ pc \in Loops => healthy # <<>>
    /\ pc \in {"start", "health", "collect"} => \A t \in Tasks : attempt[t] = 0
    /\ \A t \in Tasks : stage[t] = "retry" => MayRetry(t)
    /\ pc = "sequential" => \A t \in At("unsent") : MayRetry(t)
    /\ pc = "posting" => \A t \in At("unsent") : MayRetry(t) \/ Current(t)

TInv == TypeOK /\ AttemptsLeft

LEMMA InitTInv == Init => TInv
<1>1. Init => TypeOK
  <2>1. SUFFICES ASSUME Init PROVE TypeOK
    OBVIOUS
  <2>2. nodes \in Seq(Nodes) /\ Len(nodes) \in Nat /\ healthy = <<>>
    BY <2>1 DEF Init
  <2>a. Len(healthy) = 0
    BY <2>2
  <2>3. TableTypeOK
    BY <2>1 DEF Init, TableInit, TableTypeOK
  <2>4. resp \in [Tasks -> Seq(Contents)] /\ asked \in [Tasks -> SUBSET Nodes]
    BY <2>1 DEF Init
  <2>5. pc \in PCs /\ stage \in [Tasks -> Stages] /\ answer \in [Tasks -> Answers]
    BY <2>1 DEF Init, PCs, Stages, Answers
  <2>6. checked = 0 /\ count = 0 /\ nodeIdx = 0 /\ recorded = {} /\ result = FALSE
    BY <2>1 DEF Init
  <2>7. idOf \in [Tasks -> Ids \cup {0}] /\ attempt \in [Tasks -> 0 .. 0]
        /\ outFile \in [Tasks -> Nat] /\ node \in [Tasks -> 0 .. 0]
    BY <2>1 DEF Init
  <2>8. nodes \in NodeLists /\ customs \in Customs /\ healthy \in Seq(Nodes)
    BY <2>1, <2>2, EmptySeq DEF Init
  <2>9. checked \in 0 .. Len(nodes) /\ Len(healthy) <= checked /\ count \in 0 .. MaxTasks
    BY <2>2, <2>a, <2>6
  <2>10. /\ attempt \in [Tasks -> 0 .. Len(healthy)] /\ node \in [Tasks -> 0 .. Len(healthy)]
         /\ nodeIdx \in 0 .. Len(healthy) /\ recorded \subseteq Tasks /\ result \in BOOLEAN
    <3>1. 0 .. Len(healthy) = 0 .. 0
      BY <2>a
    <3>2. nodeIdx \in 0 .. 0
      BY <2>6
    <3>3. recorded \subseteq Tasks /\ result \in BOOLEAN
      BY <2>6, Zenon
    <3>4. QED
      BY <2>7, <3>1, <3>2, <3>3, Zenon
  <2>11. QED
    BY <2>3, <2>4, <2>5, <2>7, <2>8, <2>9, <2>10 DEF TypeOK
<1>2. Init => AttemptsLeft
  BY DEF Init, AttemptsLeft, Loops
<1>3. QED
  BY <1>1, <1>2 DEF TInv

\* What a start does to the types.
LEMMA SendType ==
  ASSUME TypeOK, healthy # <<>>, NEW t \in Tasks, NEW k \in 1 .. Len(healthy),
         Send(t, k), UNCHANGED setupVars
  PROVE  /\ TableTypeOK'
         /\ idOf' \in [Tasks -> Ids \cup {0}]
         /\ attempt' \in [Tasks -> 0 .. Len(healthy)] /\ attempt' = [attempt EXCEPT ![t] = k]
         /\ resp' \in [Tasks -> Seq(Contents)]
         /\ outFile' \in [Tasks -> Nat]
         /\ node' \in [Tasks -> 0 .. Len(healthy)]
         /\ asked' \in [Tasks -> SUBSET Nodes]
<1>1. NodeFor(t, k) \in 1 .. Len(healthy)
  BY NodeForType
<1>2. healthy[NodeFor(t, k)] \in Nodes
  BY <1>1 DEF TypeOK
<1>3. NewFile(t) \in Nat
  BY DEF NewFile, TypeOK
<1>4. Append(resp[t], "none") \in Seq(Contents)
  BY DEF TypeOK, Contents
<1>5. /\ attempt' = [attempt EXCEPT ![t] = k]
      /\ resp' = [resp EXCEPT ![t] = Append(@, "none")]
      /\ outFile' = [outFile EXCEPT ![t] = NewFile(t)]
      /\ node' = [node EXCEPT ![t] = NodeFor(t, k)]
      /\ asked' = [asked EXCEPT ![t] = @ \cup {healthy[NodeFor(t, k)]}]
  BY DEF Send
<1>6. TableTypeOK' /\ idOf' \in [Tasks -> Ids \cup {0}]
  <2>1. CASE \E i \in Ids : StartCmd(t, i) /\ idOf' = [idOf EXCEPT ![t] = NewHandle(t, i)]
    BY <2>1 DEF StartCmd, NewHandle, TypeOK, TableTypeOK, Tasks
  <2>2. CASE StartCmdFails /\ idOf' = [idOf EXCEPT ![t] = 0]
    BY <2>2 DEF StartCmdFails, tableVars, TypeOK, TableTypeOK
  <2>3. QED
    BY <2>1, <2>2 DEF Send
<1>7. resp' \in [Tasks -> Seq(Contents)] /\ outFile' \in [Tasks -> Nat]
  BY <1>3, <1>4, <1>5 DEF TypeOK
<1>8. node' \in [Tasks -> 0 .. Len(healthy)] /\ attempt' \in [Tasks -> 0 .. Len(healthy)]
  BY <1>1, <1>5 DEF TypeOK
<1>9. asked' \in [Tasks -> SUBSET Nodes]
  BY <1>2, <1>5 DEF TypeOK
<1>10. QED
  BY <1>5, <1>6, <1>7, <1>8, <1>9

\* What a curl leaves in its file is a sequence of contents again.
LEMMA ReplaceLast ==
  ASSUME NEW s \in Seq(Contents), NEW c \in Contents
  PROVE  /\ [s EXCEPT ![Len(s)] = c] \in Seq(Contents)
         /\ Len([s EXCEPT ![Len(s)] = c]) = Len(s)
         /\ \A k \in 1 .. Len(s) :
               [s EXCEPT ![Len(s)] = c][k] = IF k = Len(s) THEN c ELSE s[k]
<1>1. CASE Len(s) = 0
  <2>1. DOMAIN s = {} /\ s \in [1 .. 0 -> Contents]
    BY <1>1, LenProperties
  <2>2. [s EXCEPT ![Len(s)] = c] = s
    <3>1. [s EXCEPT ![Len(s)] = c] \in [1 .. 0 -> Contents]
      BY <2>1
    <3>2. QED
      BY <2>1, <3>1
  <2>3. [s EXCEPT ![Len(s)] = c] \in Seq(Contents) /\ Len([s EXCEPT ![Len(s)] = c]) = Len(s)
    BY <2>2, Zenon
  <2>4. 1 .. Len(s) = {}
    BY <1>1
  <2>5. QED
    BY <2>3, <2>4, Zenon
<1>2. CASE Len(s) # 0
  <2>1. Len(s) \in 1 .. Len(s)
    BY <1>2
  <2>2. QED
    BY <2>1, ExceptSeq
<1>3. QED
  BY <1>1, <1>2

LEMMA TInvStep == ASSUME TInv, [Next]_vars PROVE TInv'
<1> USE DEF TInv, AttemptsLeft
<1>a. TypeOK
  OBVIOUS
<1>1. ASSUME Unconfigured \/ ConfigFails \/ Configured PROVE TInv'
  BY <1>1 DEF Unconfigured, ConfigFails, Configured, Goto, Return, tableVars, setupVars, sendVars,
     TypeOK, TableTypeOK, PCs, Loops, MayRetry
<1>2. ASSUME NEW ok \in BOOLEAN, CheckHealth(ok) PROVE TInv'
  <2>1. /\ checked' = checked + 1 /\ checked < Len(nodes) /\ pc = "health"
        /\ healthy' = IF ok THEN Append(healthy, nodes[checked + 1]) ELSE healthy
        /\ UNCHANGED <<cmdOf, child, nodes, customs, pc, count, stage, idOf, attempt, resp,
                       outFile, node, asked, nodeIdx, answer, recorded, result>>
    BY <1>2 DEF CheckHealth, tableVars, sendVars, endVars
  <2>2. nodes \in Seq(Nodes) /\ nodes[checked + 1] \in Nodes
    BY <2>1 DEF TypeOK
  <2>3. healthy' \in Seq(Nodes) /\ Len(healthy') \in {Len(healthy), Len(healthy) + 1}
        /\ Len(healthy') <= checked'
    BY <2>1, <2>2 DEF TypeOK, TableTypeOK
  <2>4. TypeOK'
    BY <2>1, <2>2, <2>3 DEF TypeOK, TableTypeOK
  <2>5. \A t \in Tasks : MayRetry(t) => MayRetry(t)'
    BY <2>1, <2>3 DEF MayRetry, TypeOK
  <2>6. QED
    BY <2>1, <2>4, <2>5 DEF Loops
<1>3. ASSUME HealthDone PROVE TInv'
  BY <1>3 DEF HealthDone, Goto, tableVars, setupVars, sendVars,
     TypeOK, TableTypeOK, PCs, Loops, MayRetry
<1>4. ASSUME NEW n \in 0 .. MaxTasks, Collect(n) PROVE TInv'
  <2>1. /\ pc = "collect" /\ pc' \in {"link", "submit", "sequential"} /\ count' = n
        /\ UNCHANGED <<cmdOf, child, nodes, customs, checked, healthy, stage, idOf, attempt, resp,
                       outFile, node, asked, nodeIdx, answer, recorded, result>>
    BY <1>4 DEF Collect, Goto, tableVars, sendVars
  <2>2. TypeOK'
    BY <2>1 DEF TypeOK, TableTypeOK, PCs
  <2>3. \A t \in Tasks : MayRetry(t)'
    BY <2>1 DEF MayRetry, TypeOK, Loops
  <2>4. \A t \in At("unsent")' : t \in Tasks
    BY <2>2 DEF At, TypeOK, Tasks
  <2>5. QED
    BY <2>1, <2>2, <2>3, <2>4 DEF Loops
<1>5. ASSUME CollectFails \/ SubmitDone \/ ResultsDone \/ SequentialDone PROVE TInv'
  BY <1>5 DEF CollectFails, SubmitDone, ResultsDone, SequentialDone, Goto, Return,
     tableVars, setupVars, sendVars, TypeOK, TableTypeOK, PCs, Loops, MayRetry
<1>6. ASSUME NEW t \in Tasks, Submit(t) PROVE TInv'
  <2>1. pc = "submit" /\ healthy # <<>> /\ Send(t, 1)
        /\ stage' = [stage EXCEPT ![t] = "waiting"]
        /\ UNCHANGED <<nodes, customs, checked, healthy, count, pc, nodeIdx, answer, recorded, result>>
    BY <1>6 DEF Submit, Move, setupVars, endVars, Loops
  <2>2. Len(healthy) \in Nat \ {0}
    BY <2>1 DEF TypeOK
  <2>3. TypeOK' /\ attempt' = [attempt EXCEPT ![t] = 1]
    BY SMTT(30), <1>a, <2>1, <2>2, SendType DEF TypeOK, Stages, setupVars
  <2>4. QED
    BY <2>1, <2>3 DEF MayRetry, TypeOK, Loops
<1>7. ASSUME NEW t \in Tasks, Retry(t) PROVE TInv'
  <2>1. pc = "wait" /\ healthy # <<>> /\ Send(t, attempt[t] + 1) /\ MayRetry(t)
        /\ stage' = [stage EXCEPT ![t] = "kept"]
        /\ UNCHANGED <<nodes, customs, checked, healthy, count, pc, nodeIdx, answer, recorded, result>>
    BY <1>7 DEF Retry, Move, setupVars, endVars, Loops, At
  <2>2. attempt[t] + 1 \in 1 .. Len(healthy)
    BY <2>1 DEF TypeOK, MayRetry
  <2>3. TypeOK' /\ attempt' = [attempt EXCEPT ![t] = attempt[t] + 1]
    BY <1>a, <2>1, <2>2, SendType DEF TypeOK, Stages, setupVars
  <2>4. QED
    BY <2>1, <2>3 DEF MayRetry, TypeOK, Loops
<1>8. ASSUME NEW t \in Tasks, PollAnswered(t) \/ PollFailed(t) PROVE TInv'
  <2>1. /\ pc = "wait" /\ TableTypeOK'
        /\ \E s \in {"retry", "ended"} :
              stage' = [stage EXCEPT ![t] = s] /\ (s = "retry" => MayRetry(t))
        /\ answer' = answer \/ \E a \in {"object", "failed"} : answer' = [answer EXCEPT ![t] = a]
        /\ UNCHANGED <<nodes, customs, checked, healthy, count, pc, idOf, attempt, resp, outFile,
                       node, asked, nodeIdx, recorded, result>>
    BY <1>8 DEF PollAnswered, PollFailed, Polling, Move, WaitReturns, FreeSlot, TypeOK, TableTypeOK,
       setupVars, sendVars
  <2>2. stage' \in [Tasks -> Stages]
    <3>1. PICK s \in {"retry", "ended"} : stage' = [stage EXCEPT ![t] = s]
      BY <2>1
    <3>2. s \in Stages /\ stage \in [Tasks -> Stages]
      BY DEF TypeOK, Stages
    <3>3. QED
      BY <3>1, <3>2
  <2>3. answer' \in [Tasks -> Answers]
    <3>1. answer \in [Tasks -> Answers] /\ {"object", "failed"} \subseteq Answers
      BY DEF TypeOK, Answers
    <3>2. QED
      BY <2>1, <3>1
  <2>4. TypeOK'
    BY <2>1, <2>2, <2>3 DEF TypeOK
  <2>5. QED
    BY <2>1, <2>4 DEF MayRetry, TypeOK, Loops
<1>9. ASSUME NEW t \in Tasks, PollNil(t) PROVE TInv'
  <2>1. /\ pc = "wait" /\ TableTypeOK' /\ stage' = [stage EXCEPT ![t] = "kept"]
        /\ UNCHANGED <<nodes, customs, checked, healthy, count, pc, idOf, attempt, resp, outFile,
                       node, asked, nodeIdx, answer, recorded, result>>
    BY <1>9 DEF PollNil, Polling, Move, WaitReturnsNil, WaitFails, FreeSlot, tableVars,
       TypeOK, TableTypeOK, setupVars, sendVars, endVars
  <2>2. TypeOK'
    BY <2>1 DEF TypeOK, Stages
  <2>3. QED
    BY <2>1, <2>2 DEF MayRetry, TypeOK, Loops
<1>10. ASSUME NEW t \in Tasks, PollRaises(t) \/ WriteResult(t) \/ FailResult(t) PROVE TInv'
  <2>1. pc' \in {"raised", "results", "done"} /\ (pc' = "results" => pc = "results")
        /\ recorded' \in SUBSET Tasks /\ result' \in BOOLEAN
        /\ UNCHANGED <<cmdOf, child, nodes, customs, checked, healthy, count, stage, idOf, attempt,
                       resp, outFile, node, asked, nodeIdx, answer>>
    BY <1>10 DEF PollRaises, WriteResult, FailResult, Goto, Return, tableVars, setupVars, sendVars,
       TypeOK
  <2>2. QED
    BY <2>1 DEF TypeOK, TableTypeOK, PCs, MayRetry, Loops
<1>11. ASSUME NextPass PROVE TInv'
  BY <1>11 DEF NextPass, tableVars, setupVars, sendVars, endVars,
     TypeOK, TableTypeOK, Stages, MayRetry, Loops, Tasks
<1>12. ASSUME Cleanup PROVE TInv'
  <2>1. /\ pc = "wait" /\ pc' = "results" /\ resp' \in [Tasks -> Seq(Contents)]
        /\ UNCHANGED <<cmdOf, child, nodes, customs, checked, healthy, count, stage, idOf, attempt,
                       outFile, node, asked, nodeIdx, answer, recorded, result>>
    BY <1>12 DEF Cleanup, Goto, tableVars, setupVars
  <2>2. QED
    BY <2>1 DEF TypeOK, TableTypeOK, PCs, MayRetry, Loops
<1>13. ASSUME NEW t \in Tasks, NEW o \in 0 .. Len(healthy) - 1, Post(t, o) PROVE TInv'
  <2>1. /\ pc = "sequential" /\ pc' = "posting" /\ t \in At("unsent") /\ MayRetry(t) /\ healthy # <<>>
        /\ node' = [node EXCEPT ![t] = Candidate(o)]
        /\ asked' = [asked EXCEPT ![t] = @ \cup {healthy[Candidate(o)]}]
        /\ attempt' = [attempt EXCEPT ![t] = @ + 1]
        /\ UNCHANGED <<cmdOf, child, nodes, customs, checked, healthy, count, stage, idOf, resp,
                       outFile, nodeIdx, answer, recorded, result>>
    BY <1>13 DEF Post, Current, Goto, tableVars, setupVars, Loops
  <2>2. Candidate(o) \in 1 .. Len(healthy) /\ healthy[Candidate(o)] \in Nodes
    <3>1. o \in Nat
      BY DEF TypeOK
    <3>2. Candidate(o) \in 1 .. Len(healthy)
      BY <1>a, <2>1, <3>1, CandidateType
    <3>3. QED
      BY <3>2 DEF TypeOK
  <2>3. attempt[t] + 1 \in 0 .. Len(healthy)
    BY <2>1 DEF MayRetry, TypeOK
  <2>4. TypeOK'
    BY SMTT(30), <2>1, <2>2, <2>3 DEF TypeOK, TableTypeOK, PCs
  <2>5. Current(t)' /\ At("unsent")' = At("unsent")
    BY <1>13, <2>1 DEF Post, Current, At
  <2>6. \A u \in Tasks \ {t} : MayRetry(u) => MayRetry(u)'
    BY <2>1 DEF MayRetry, TypeOK
  <2>7. At("unsent") \subseteq Tasks
    BY DEF At, TypeOK, Tasks
  <2>8. QED
    BY <2>1, <2>4, <2>5, <2>6, <2>7 DEF At, Loops
<1>14. ASSUME NEW t \in Tasks, PostAnswered(t) PROVE TInv'
  <2>1. /\ pc = "posting" /\ pc' = "sequential" /\ Current(t)
        /\ answer' = [answer EXCEPT ![t] = "object"] /\ recorded' = recorded \cup {t}
        /\ nodeIdx' = node[t] /\ stage' = [stage EXCEPT ![t] = "ended"]
        /\ UNCHANGED <<cmdOf, child, nodes, customs, checked, healthy, count, idOf, attempt, resp,
                       outFile, node, asked, result>>
    BY <1>14 DEF PostAnswered, Posting, Move, Goto, tableVars, setupVars, sendVars
  <2>2. TypeOK'
    BY <2>1 DEF TypeOK, TableTypeOK, PCs, Stages, Answers
  <2>3. ASSUME NEW u \in At("unsent")' PROVE MayRetry(u)'
    <3>1. u \in At("unsent") /\ u # t
      BY <2>1, <2>3 DEF At, TypeOK, Tasks
    <3>2. ~ Current(u)
      BY <2>1, <3>1 DEF Current, At, TypeOK
    <3>3. QED
      BY <2>1, <3>1, <3>2 DEF MayRetry
  <2>4. QED
    BY <2>1, <2>2, <2>3 DEF MayRetry, TypeOK, Loops
<1>15. ASSUME NEW t \in Tasks, PostFailed(t) PROVE TInv'
  <2>1. /\ pc = "posting" /\ Current(t)
        /\ \/ pc' = "sequential" /\ MayRetry(t) /\ answer' = answer /\ result' = result
           \/ pc' = "done" /\ answer' = [answer EXCEPT ![t] = "failed"] /\ result' = FALSE
        /\ UNCHANGED <<cmdOf, child, nodes, customs, checked, healthy, count, stage, idOf, attempt,
                       resp, outFile, node, asked, nodeIdx, recorded>>
    BY <1>15 DEF PostFailed, Posting, Goto, Return, tableVars, setupVars, sendVars
  <2>2. TypeOK'
    BY <2>1 DEF TypeOK, TableTypeOK, PCs, Answers
  <2>3. \A u \in At("unsent") : Current(u) => u = t
    BY <2>1 DEF Current, At, TypeOK
  <2>4. QED
    BY <2>1, <2>2, <2>3 DEF MayRetry, At, Loops
<1>16. ASSUME NEW t \in Tasks, NoNodeLeft(t) PROVE TInv'
  BY <1>16 DEF NoNodeLeft, Return, tableVars, setupVars, sendVars,
     TypeOK, TableTypeOK, PCs, Answers, MayRetry, Loops
<1>17. ASSUME Link PROVE TInv'
  BY <1>17 DEF Link, Return, tableVars, setupVars, sendVars, TypeOK, TableTypeOK, PCs, MayRetry, Loops
<1>18. ASSUME NEW i \in Ids, CurlExits(i) PROVE TInv'
  <2>1. PICK c \in Contents : Reply(i, c)
    BY <1>18 DEF CurlExits
  <2>2. cmdOf[i] \in Tasks /\ TableTypeOK'
    BY <2>1 DEF Reply, ChildExits, InUse, FreeIds, TypeOK, TableTypeOK, Tasks
  <2>3. resp' = [resp EXCEPT ![cmdOf[i]] = [@ EXCEPT ![Len(@)] = c]]
    BY <2>1 DEF Reply
  <2>4. resp' \in [Tasks -> Seq(Contents)]
    <3>1. resp[cmdOf[i]] \in Seq(Contents)
      BY <2>2 DEF TypeOK
    <3>2. [resp[cmdOf[i]] EXCEPT ![Len(resp[cmdOf[i]])] = c] \in Seq(Contents)
      BY <3>1, ReplaceLast
    <3>3. QED
      BY <2>3, <3>2 DEF TypeOK
  <2>5. UNCHANGED <<nodes, customs, checked, healthy, count, pc, stage, idOf, attempt, outFile,
                    node, asked, nodeIdx, answer, recorded, result>>
    BY <1>18 DEF CurlExits, setupVars, endVars
  <2>6. TypeOK'
    BY <2>2, <2>4, <2>5 DEF TypeOK
  <2>7. QED
    BY <2>5, <2>6 DEF MayRetry, At, Current, Loops
<1>19. CASE UNCHANGED vars
  BY <1>19 DEF vars, tableVars, setupVars, sendVars, endVars, TypeOK, TableTypeOK, MayRetry,
     At, Current, Loops
<1>20. QED
  BY <1>1, <1>2, <1>3, <1>4, <1>5, <1>6, <1>7, <1>8, <1>9, <1>10, <1>11, <1>12, <1>13,
     <1>14, <1>15, <1>16, <1>17, <1>18, <1>19 DEF Next, Spkg, Internal, HearsOf

\* Every variable of the coordinator keeps its type; in particular no attempt
\* names a server beyond the healthy ones.
THEOREM TypeCorrect == Spec => []TypeOK
<1>1. Spec => []TInv
  BY InitTInv, TInvStep, PTL DEF Spec
<1>2. TInv => TypeOK
  BY DEF TInv
<1>3. QED
  BY <1>1, <1>2, PTL

------------------------------------------------------------------------------
\* Which lists can be non-empty in which part of execute_distributed.
Unstarted == {"start", "health", "collect"}
Parallel == {"submit", "wait", "raised"}
Live(t) == stage[t] \in {"waiting", "kept"}
StagesOfLoop ==
    /\ \A t \in Tasks : stage[t] # "unsent" => t \in 1 .. count
    /\ pc \in Unstarted => \A t \in Tasks : stage[t] = "unsent"
    /\ pc \notin Parallel => \A t \in Tasks : stage[t] \in {"unsent", "ended"}
    /\ pc = "submit" => \A t \in Tasks : stage[t] \in {"unsent", "waiting"}
    /\ pc \in {"wait", "results"} => \A t \in 1 .. count : stage[t] # "unsent"

\* What is in the response files.  Only the last one may hold an object, and
\* only after its curl has exited with 0.
NoObject(t, n) == \A k \in 1 .. n : resp[t][k] # "object"
FilesOfTask ==
    /\ \A t \in Tasks : stage[t] = "unsent" \/ pc \notin Parallel => resp[t] = <<>>
    /\ \A t \in Tasks : Live(t) => /\ Len(resp[t]) # 0 /\ outFile[t] = Len(resp[t])
                                   /\ NoObject(t, Len(resp[t]) - 1)
    /\ \A t \in Tasks : Live(t) /\ (idOf[t] = 0 \/ child[idOf[t]] # "ok") =>
                           NoObject(t, Len(resp[t]))
    /\ \A t \in Tasks : stage[t] = "retry" => NoObject(t, Len(resp[t]))

\* What is known of a task's result.
Results ==
    /\ pc \in Unstarted \cup {"submit"} =>
          \A t \in Tasks : stage[t] = "unsent" => answer[t] = "none"
    /\ \A t \in Tasks : Live(t) \/ stage[t] = "retry" => answer[t] = "none"
    /\ \A t \in Tasks : pc = "wait" /\ stage[t] = "ended" =>
          (answer[t] = "object" <=> ~ NoObject(t, Len(resp[t])))
    /\ \A t \in recorded : stage[t] = "ended" /\ answer[t] = "object"
    /\ pc \in {"sequential", "posting"} => At("ended") \subseteq recorded
    /\ pc = "link" => 1 .. count \subseteq recorded

Core == StagesOfLoop /\ CurlOwnership /\ FilesOfTask /\ Results /\ SuccessIsComplete

\* Whom a task has asked: in parallel mode the servers of its attempts; without
\* curl a new name every time.
AskedInTurn(t) == asked[t] = {healthy[NodeFor(t, k)] : k \in 1 .. attempt[t]}
AskedOnce(t) == /\ asked[t] \subseteq Elements(healthy)
                /\ IsFiniteSet(asked[t]) /\ Cardinality(asked[t]) = attempt[t]
Asking ==
    /\ \A t \in Tasks : answer[t] = "failed" => stage[t] = "ended" \/ pc = "done"
    /\ pc \in Unstarted => \A t \in Tasks : asked[t] = {} /\ answer[t] = "none"
    /\ pc = "submit" => \A t \in Tasks : stage[t] = "unsent" => attempt[t] = 0
    /\ pc \in {"submit", "wait"} => \A t \in Tasks : AskedInTurn(t)
    /\ pc \in {"sequential", "posting"} => \A t \in At("unsent") : AskedOnce(t)
    /\ GivenUpOnlyAfterAll

IInv == TInv /\ Core /\ Asking

LEMMA InitCore == Init => Core
<1>1. SUFFICES ASSUME Init PROVE Core
  OBVIOUS
<1>2. FreeIds = Ids /\ Sent = {} /\ recorded = {} /\ pc = "start"
  BY <1>1 DEF Init, TableInit, FreeIds, Sent
<1>3. \A t \in Tasks : stage[t] = "unsent" /\ resp[t] = <<>> /\ answer[t] = "none"
  BY <1>1 DEF Init
<1>4. CurlOwnership /\ StagesOfLoop
  BY <1>2, <1>3 DEF CurlOwnership, StagesOfLoop, Parallel
<1>5. FilesOfTask /\ Results /\ SuccessIsComplete
  BY <1>2, <1>3 DEF FilesOfTask, Results, SuccessIsComplete, Live
<1>6. QED
  BY <1>4, <1>5 DEF Core

\* A start gives the task a slot of its own, or none, and a new file.
LEMMA SendCore ==
  ASSUME TypeOK, CurlOwnership, NEW t \in 1 .. count, ~Live(t), NEW k \in Nat, Send(t, k),
         count' = count, NEW s \in {"waiting", "kept"}, stage' = [stage EXCEPT ![t] = s]
  PROVE  /\ CurlOwnership'
         /\ resp' = [resp EXCEPT ![t] = Append(@, "none")]
         /\ outFile' = [outFile EXCEPT ![t] = Len(resp[t]) + 1]
         /\ idOf'[t] = 0 \/ child'[idOf'[t]] = "running"
         /\ \A u \in Tasks \ {t} : idOf'[u] = idOf[u]
         /\ \A u \in Sent : child'[idOf[u]] = child[idOf[u]]
<1>1. t \in Tasks /\ t \notin Sent
  BY DEF TypeOK, Tasks, Sent, Live
<1>2. /\ resp' = [resp EXCEPT ![t] = Append(@, "none")]
      /\ outFile' = [outFile EXCEPT ![t] = Len(resp[t]) + 1]
  BY DEF Send, NewFile
<1>4. CASE \E i \in Ids : StartCmd(t, i) /\ idOf' = [idOf EXCEPT ![t] = NewHandle(t, i)]
  <2>1. PICK i \in Ids : StartCmd(t, i) /\ idOf' = [idOf EXCEPT ![t] = NewHandle(t, i)]
    BY <1>4
  <2>2. /\ cmdOf[i] = NoCmd /\ cmdOf' = [cmdOf EXCEPT ![i] = t]
        /\ child' = [child EXCEPT ![i] = "running"] /\ idOf' = [idOf EXCEPT ![t] = i]
    BY <2>1 DEF StartCmd, FirstFree, FreeIds, NewHandle
  <2>3. i # 0 /\ t # NoCmd /\ \A u \in Sent : u # NoCmd /\ u \in Tasks
    BY SMTT(30), <1>1 DEF Ids, Tasks, Sent, TypeOK
  <2>4. Sent' = Sent \cup {t}
    BY <1>1, <2>2, <2>3 DEF Sent, TypeOK, Tasks
  <2>5. \A u \in Sent : idOf[u] # i /\ idOf'[u] = idOf[u] /\ u # t /\ idOf[u] \in Ids
    BY SMTT(30), <1>1, <2>2, <2>3 DEF CurlOwnership, TypeOK, Sent
  <2>6. CurlOwnership'
    <3>1. \A u \in Sent' : cmdOf'[idOf'[u]] = u
      BY <1>1, <2>2, <2>4, <2>5 DEF CurlOwnership, TypeOK, TableTypeOK
    <3>2. ASSUME NEW j \in Ids, cmdOf'[j] # NoCmd
          PROVE  cmdOf'[j] \in Sent' /\ idOf'[cmdOf'[j]] = j
      <4>1. CASE j = i
        BY <1>1, <2>2, <2>4, <4>1 DEF TypeOK, TableTypeOK
      <4>2. CASE j # i
        <5>1. cmdOf'[j] = cmdOf[j] /\ cmdOf[j] \in Sent /\ idOf[cmdOf[j]] = j
          BY <2>2, <3>2, <4>2 DEF CurlOwnership, FreeIds, TypeOK, TableTypeOK
        <5>2. QED
          BY <2>4, <2>5, <5>1
      <4>3. QED
        BY <4>1, <4>2
    <3>3. QED
      BY <3>1, <3>2 DEF CurlOwnership, FreeIds
  <2>7. QED
    BY <1>1, <1>2, <2>2, <2>5, <2>6 DEF TypeOK, TableTypeOK
<1>5. CASE StartCmdFails /\ idOf' = [idOf EXCEPT ![t] = 0]
  <2>1. UNCHANGED <<cmdOf, child>>
    BY <1>5 DEF StartCmdFails, tableVars
  <2>2. Sent' = Sent /\ \A u \in Sent : idOf'[u] = idOf[u]
    BY <1>1, <1>5 DEF Sent, TypeOK, Tasks
  <2>3. CurlOwnership'
    BY <2>1, <2>2 DEF CurlOwnership, FreeIds
  <2>4. QED
    BY <1>1, <1>2, <1>5, <2>1, <2>3 DEF TypeOK
<1>6. QED
  BY <1>4, <1>5 DEF Send

\* ... so its files are in order.
LEMMA SendFiles ==
  ASSUME TypeOK, StagesOfLoop, CurlOwnership, FilesOfTask, pc \in Parallel, UNCHANGED pc,
         NEW t \in 1 .. count, ~Live(t), NoObject(t, Len(resp[t])),
         NEW k \in Nat, Send(t, k),
         count' = count, NEW s \in {"waiting", "kept"}, stage' = [stage EXCEPT ![t] = s]
  PROVE  FilesOfTask'
<1>1. /\ resp' = [resp EXCEPT ![t] = Append(@, "none")]
      /\ outFile' = [outFile EXCEPT ![t] = Len(resp[t]) + 1]
      /\ idOf'[t] = 0 \/ child'[idOf'[t]] = "running"
      /\ \A u \in Tasks \ {t} : idOf'[u] = idOf[u]
      /\ \A u \in Sent : child'[idOf[u]] = child[idOf[u]]
  BY SendCore
<1>2. t \in Tasks /\ resp[t] \in Seq(Contents)
  BY DEF TypeOK, Tasks
<1>3. /\ resp'[t] = Append(resp[t], "none") /\ outFile'[t] = Len(resp[t]) + 1
      /\ \A u \in Tasks \ {t} : resp'[u] = resp[u] /\ outFile'[u] = outFile[u]
      /\ stage'[t] = s /\ \A u \in Tasks \ {t} : stage'[u] = stage[u]
  BY <1>1, <1>2 DEF TypeOK
<1>4. Len(resp'[t]) = Len(resp[t]) + 1 /\ \A n \in 1 .. Len(resp[t]) : resp'[t][n] = resp[t][n]
  BY <1>2, <1>3
<1>5. resp'[t][Len(resp[t]) + 1] = "none" /\ Len(resp[t]) \in Nat
  BY <1>2, <1>3
<1>6. \A n \in 1 .. Len(resp'[t]) : resp'[t][n] # "object"
  <2>1. \A n \in 1 .. Len(resp[t]) + 1 : n \in 1 .. Len(resp[t]) \/ n = Len(resp[t]) + 1
    BY <1>5
  <2>2. \A n \in 1 .. Len(resp[t]) + 1 : resp'[t][n] # "object"
    BY <1>4, <1>5, <2>1 DEF NoObject
  <2>3. QED
    BY <1>4, <2>2
<1>7. ASSUME NEW u \in Tasks \ {t}
      PROVE  /\ Live(u)' <=> Live(u)
             /\ \A n \in Nat : (\A m \in 1 .. n : resp'[u][m] # "object") <=> NoObject(u, n)
             /\ resp'[u] = resp[u] /\ outFile'[u] = outFile[u]
             /\ Live(u) => (idOf'[u] = 0 \/ child'[idOf'[u]] # "ok" <=> idOf[u] = 0 \/ child[idOf[u]] # "ok")
  <2>1. Live(u) /\ idOf[u] # 0 => u \in Sent
    BY DEF Sent, Live, StagesOfLoop
  <2>2. QED
    BY <1>1, <1>3, <2>1 DEF Live, NoObject
<1>8. \A u \in Tasks : stage'[u] = "unsent" \/ pc' \notin Parallel => resp'[u] = <<>>
  BY <1>3 DEF FilesOfTask
<1>9. ASSUME NEW u \in Tasks, Live(u)'
      PROVE  /\ Len(resp'[u]) # 0 /\ outFile'[u] = Len(resp'[u])
             /\ \A n \in 1 .. Len(resp'[u]) - 1 : resp'[u][n] # "object"
             /\ idOf'[u] = 0 \/ child'[idOf'[u]] # "ok" =>
                   \A n \in 1 .. Len(resp'[u]) : resp'[u][n] # "object"
  <2>1. CASE u = t
    <3>1. Len(resp'[t]) # 0 /\ outFile'[t] = Len(resp'[t])
      BY <1>3, <1>4, <1>5
    <3>2. \A n \in 1 .. Len(resp'[t]) - 1 : n \in 1 .. Len(resp'[t])
      BY <1>4, <1>5
    <3>3. QED
      BY <1>6, <2>1, <3>1, <3>2, Zenon
  <2>2. CASE u # t
    <3>1. Live(u) /\ resp[u] \in Seq(Contents) /\ Len(resp[u]) \in Nat \ {0}
      BY <1>7, <1>9, <2>2 DEF TypeOK, FilesOfTask
    <3>2. NoObject(u, Len(resp[u]) - 1) /\ outFile[u] = Len(resp[u])
          /\ (idOf[u] = 0 \/ child[idOf[u]] # "ok" => NoObject(u, Len(resp[u])))
      BY <3>1 DEF FilesOfTask
    <3>3. QED
      BY <1>7, <2>2, <3>1, <3>2 DEF NoObject
  <2>3. QED
    BY <2>1, <2>2
<1>10. ASSUME NEW u \in Tasks, stage'[u] = "retry"
       PROVE  \A n \in 1 .. Len(resp'[u]) : resp'[u][n] # "object"
  <2>1. u # t /\ stage[u] = "retry"
    BY <1>3, <1>10
  <2>2. QED
    BY <1>7, <2>1 DEF FilesOfTask, NoObject
<1>11. QED
  BY <1>8, <1>9, <1>10 DEF FilesOfTask, NoObject

\* wait_task has returned t's result: nobody else's slot is freed.
LEMMA ReapCore ==
  ASSUME TypeOK, StagesOfLoop, CurlOwnership, FilesOfTask, NEW t \in At("waiting"),
         NEW r \in Exits, WaitReturns(idOf[t], r),
         NEW s \in {"retry", "ended"}, stage' = [stage EXCEPT ![t] = s],
         s = "retry" => NoObject(t, Len(resp[t])),
         pc \in Parallel, UNCHANGED <<idOf, resp, outFile, count, pc>>
  PROVE  CurlOwnership' /\ FilesOfTask' /\ idOf[t] \in Ids /\ child[idOf[t]] = r
<1>1. t \in Tasks /\ stage[t] = "waiting"
  BY DEF At, TypeOK, Tasks
<1> DEFINE j == idOf[t]
<1>2. PICK i \in Ids : i = idOf[t]
  BY DEF WaitReturns, InUse
<1>3. cmdOf[i] # NoCmd /\ i \in Ids \ FreeIds
  BY <1>2 DEF WaitReturns, InUse, FreeIds
<1>4. t \in Sent
  <2>1. i # 0
    BY DEF Ids
  <2>2. t \in 1 .. count
    BY DEF At
  <2>3. QED
    BY <1>1, <1>2, <2>1, <2>2 DEF Sent
<1>5. /\ cmdOf' = [cmdOf EXCEPT ![i] = NoCmd]
      /\ child' = [child EXCEPT ![i] = "none"] /\ child[i] = r
  BY <1>2 DEF WaitReturns, FreeSlot
<1>6. Sent' = Sent \ {t}
  <2>1. 1 .. count \subseteq Tasks /\ 1 .. count' = 1 .. count
    BY DEF TypeOK, Tasks
  <2>2. stage'[t] = s /\ \A u \in Tasks \ {t} : stage'[u] = stage[u]
    BY <1>1 DEF TypeOK
  <2>3. s \notin {"waiting", "kept"} /\ idOf' = idOf
    OBVIOUS
  <2>4. QED
    BY <1>1, <2>1, <2>2, <2>3 DEF Sent
<1>7. \A u \in Sent \ {t} : idOf[u] # i
  BY <1>2, <1>4 DEF CurlOwnership
<1>8. CurlOwnership'
  <2>1. \A u \in Sent \ {t} : idOf[u] \in Ids /\ cmdOf'[idOf[u]] = u
    BY <1>5, <1>7 DEF CurlOwnership, Sent, TypeOK, TableTypeOK, Tasks
  <2>2. ASSUME NEW k \in Ids, cmdOf'[k] # NoCmd
        PROVE  cmdOf'[k] \in Sent \ {t} /\ idOf[cmdOf'[k]] = k
    <3>1. k # i /\ cmdOf'[k] = cmdOf[k] /\ k \in Ids \ FreeIds
      BY <1>5, <2>2 DEF TypeOK, TableTypeOK, FreeIds
    <3>2. QED
      BY <1>2, <3>1 DEF CurlOwnership
  <2>3. QED
    BY <1>6, <2>1, <2>2 DEF CurlOwnership, FreeIds
<1>9. FilesOfTask'
  <2>1. \A u \in Tasks \ {t} : stage'[u] = stage[u]
    BY <1>1 DEF TypeOK
  <2>2. stage'[t] = s
    BY <1>1 DEF TypeOK
  <2>3. \A u \in Tasks \ {t} : Live(u) /\ idOf[u] # 0 => child'[idOf[u]] = child[idOf[u]]
    BY <1>5, <1>7 DEF Live, Sent, StagesOfLoop, TypeOK, TableTypeOK
  <2>4. QED
    BY <2>1, <2>2, <2>3 DEF FilesOfTask, Live, NoObject
<1>10. QED
  BY <1>2, <1>5, <1>8, <1>9

LEMMA CoreStep ==
  ASSUME ~SigChldIgnored, TInv, Core, [Next]_vars
  PROVE  Core'
<1>a. TypeOK /\ TypeOK'
  BY TInvStep DEF TInv
<1> USE DEF Core
<1>1. ASSUME Unconfigured \/ ConfigFails \/ Configured \/ HealthDone PROVE Core'
  <2>1. /\ pc \in {"start", "health"} /\ pc' \in {"local", "done", "raised", "health", "collect"}
        /\ (pc' = "done" => ~result')
        /\ UNCHANGED <<cmdOf, child, count, stage, idOf, resp, outFile, answer, recorded>>
    BY <1>1 DEF Unconfigured, ConfigFails, Configured, HealthDone, Goto, Return, tableVars, setupVars,
       sendVars
  <2>2. CurlOwnership'
    BY <2>1 DEF CurlOwnership, Sent, FreeIds
  <2>3. StagesOfLoop' /\ FilesOfTask'
    BY <2>1 DEF StagesOfLoop, FilesOfTask, Parallel, Unstarted, Live, NoObject
  <2>4. Results' /\ SuccessIsComplete'
    BY <2>1 DEF Results, SuccessIsComplete, Live, Unstarted, At
  <2>5. QED
    BY <2>2, <2>3, <2>4
<1>2. ASSUME NEW ok \in BOOLEAN, CheckHealth(ok) PROVE Core'
  <2>1. UNCHANGED <<cmdOf, child, count, pc, stage, idOf, resp, outFile, answer, recorded, result>>
    BY <1>2 DEF CheckHealth, tableVars, sendVars, endVars
  <2>2. QED
    BY <2>1 DEF CurlOwnership, Sent, FreeIds, StagesOfLoop, FilesOfTask, Results,
       SuccessIsComplete, Live, NoObject, At
<1>3. ASSUME NEW n \in 0 .. MaxTasks, Collect(n) PROVE Core'
  <2>1. /\ pc = "collect" /\ pc' \in {"link", "submit", "sequential"} /\ count' = n
        /\ pc' = "link" => n = 0
        /\ UNCHANGED <<cmdOf, child, stage, idOf, resp, outFile, answer, recorded, result>>
    BY <1>3 DEF Collect, Goto, tableVars, sendVars
  <2>2. \A t \in Tasks : stage[t] = "unsent" /\ resp[t] = <<>>
    BY <2>1 DEF StagesOfLoop, FilesOfTask, Unstarted
  <2>3. recorded = {}
    BY <1>a, <2>2 DEF Results, TypeOK
  <2>4. n \in 0 .. MaxTasks /\ 1 .. n \subseteq Tasks /\ 1 .. count \subseteq Tasks
    BY <1>a DEF Tasks, TypeOK
  <2>5. Sent = {} /\ Sent' = {} /\ (pc' = "link" => 1 .. count' = {})
    BY <2>1, <2>2, <2>4 DEF Sent
  <2>6. CurlOwnership'
    BY <2>1, <2>5 DEF CurlOwnership, FreeIds
  <2>7. StagesOfLoop' /\ FilesOfTask'
    BY <2>1, <2>2, <2>4 DEF StagesOfLoop, FilesOfTask, Parallel, Unstarted, Live, NoObject
  <2>8. Results' /\ SuccessIsComplete'
    BY <2>1, <2>2, <2>3, <2>4, <2>5 DEF Results, SuccessIsComplete, Live, At, Unstarted
  <2>9. QED
    BY <2>6, <2>7, <2>8
<1>4. ASSUME CollectFails \/ SubmitDone \/ ResultsDone \/ SequentialDone \/ Link PROVE Core'
  <2>1. /\ UNCHANGED <<cmdOf, child, count, stage, idOf, resp, outFile, answer, recorded>>
        /\ \/ pc = "collect" /\ pc' = "done" /\ ~result'
           \/ pc = "submit" /\ pc' = "wait" /\ At("unsent") = {} /\ result' = result
           \/ pc = "results" /\ pc' = "link" /\ AllVisited /\ result' = result
           \/ pc = "sequential" /\ pc' = "link" /\ At("unsent") = {} /\ result' = result
           \/ pc = "link" /\ pc' = "done"
    BY <1>4 DEF CollectFails, SubmitDone, ResultsDone, SequentialDone, Link, Goto, Return, tableVars,
       setupVars, sendVars
  <2>2. 1 .. count \subseteq Tasks
    BY <1>a DEF Tasks, TypeOK
  <2>3. CurlOwnership'
    BY <2>1 DEF CurlOwnership, Sent, FreeIds
  <2>4. StagesOfLoop' /\ FilesOfTask'
    BY <2>1, <2>2 DEF StagesOfLoop, FilesOfTask, Parallel, Unstarted, Live, NoObject, At
  <2>5. At("unsent") = {} /\ pc = "sequential" => 1 .. count \subseteq recorded
    BY <2>2 DEF StagesOfLoop, Results, Parallel, At
  <2>6. pc' = "link" => 1 .. count \subseteq recorded
    BY <2>1, <2>5 DEF AllVisited
  <2>7. Results'
    BY <2>1, <2>2, <2>6 DEF Results, Live, At, StagesOfLoop, Unstarted
  <2>8. SuccessIsComplete'
    BY <2>1, <2>6 DEF Results, SuccessIsComplete
  <2>9. QED
    BY <2>3, <2>4, <2>7, <2>8
<1>5. ASSUME NEW t \in Tasks, Submit(t) PROVE Core'
  <2>1. /\ pc = "submit" /\ t \in 1 .. count /\ stage[t] = "unsent" /\ Send(t, 1)
        /\ stage' = [stage EXCEPT ![t] = "waiting"]
        /\ UNCHANGED <<count, pc, answer, recorded, result>>
    BY <1>5 DEF Submit, Move, At, setupVars, endVars
  <2>2. ~Live(t) /\ NoObject(t, Len(resp[t]))
    BY <2>1 DEF Live, FilesOfTask, NoObject
  <2>3. pc \in Parallel
    BY <2>1 DEF Parallel
  <2>4. CurlOwnership'
    BY <1>a, <2>1, <2>2, SendCore
  <2>5. FilesOfTask'
    BY <1>a, <2>1, <2>2, <2>3, SendFiles
  <2>6. StagesOfLoop'
    BY <1>a, <2>1 DEF StagesOfLoop, Parallel, Unstarted, TypeOK
  <2>7. answer[t] = "none" /\ t \notin recorded
    BY <2>1 DEF Results
  <2>8. Results' /\ SuccessIsComplete'
    BY <1>a, <2>1, <2>7 DEF Results, SuccessIsComplete, Live, TypeOK, Unstarted
  <2>9. QED
    BY <2>4, <2>5, <2>6, <2>8
<1>6. ASSUME NEW t \in Tasks, Retry(t) PROVE Core'
  <2>1. /\ pc = "wait" /\ t \in 1 .. count /\ stage[t] = "retry" /\ Send(t, attempt[t] + 1)
        /\ stage' = [stage EXCEPT ![t] = "kept"]
        /\ UNCHANGED <<count, pc, answer, recorded, result>>
    BY <1>6 DEF Retry, Move, At, setupVars, endVars
  <2>2. ~Live(t) /\ NoObject(t, Len(resp[t])) /\ attempt[t] + 1 \in Nat
    BY SMTT(30), <1>a, <2>1 DEF Live, FilesOfTask, NoObject, TypeOK
  <2>3. pc \in Parallel
    BY <2>1 DEF Parallel
  <2>4. CurlOwnership'
    BY <1>a, <2>1, <2>2, SendCore
  <2>5. FilesOfTask'
    BY <1>a, <2>1, <2>2, <2>3, SendFiles
  <2>6. answer[t] = "none" /\ t \notin recorded
    BY <2>1 DEF Results
  <2>7. \A u \in Tasks \ {t} : resp'[u] = resp[u] /\ stage'[u] = stage[u]
    BY <1>a, <2>1 DEF Send, TypeOK
  <2>8. stage'[t] = "kept" /\ recorded \subseteq Tasks /\ 1 .. count \subseteq Tasks
    BY SMTT(30), <1>a, <2>1 DEF TypeOK, Tasks
  <2>9. StagesOfLoop'
    BY <2>1, <2>7, <2>8 DEF StagesOfLoop, Parallel, Unstarted
  <2>10. Results'
    <3>1. \A u \in Tasks : Live(u)' \/ stage'[u] = "retry" => answer[u] = "none"
      BY <2>6, <2>7 DEF Results, Live
    <3>2. \A u \in Tasks : stage'[u] = "ended" =>
             (answer[u] = "object" <=> ~ NoObject(u, Len(resp[u])))'
      BY <2>1, <2>7, <2>8 DEF Results, NoObject
    <3>3. \A u \in recorded : stage'[u] = "ended" /\ answer[u] = "object"
      BY <2>6, <2>7, <2>8 DEF Results
    <3>4. QED
      BY <2>1, <3>1, <3>2, <3>3 DEF Results, Unstarted
  <2>11. SuccessIsComplete'
    BY <2>1 DEF SuccessIsComplete
  <2>12. QED
    BY <2>4, <2>5, <2>9, <2>10, <2>11
<1>7. ASSUME NEW t \in Tasks, PollAnswered(t) \/ PollFailed(t) PROVE Core'
  <2>1. PICK r \in Exits : /\ WaitReturns(idOf[t], r)
                           /\ \/ PollAnswered(t) /\ Answered(t, r)
                              \/ PollFailed(t) /\ ~Answered(t, r)
    <3>1. CASE PollAnswered(t)
      <4>1. \E r \in Exits : WaitReturns(idOf[t], r) /\ Answered(t, r)
        BY <3>1 DEF PollAnswered
      <4>2. QED
        BY <3>1, <4>1
    <3>2. CASE PollFailed(t)
      <4>1. \E r \in Exits : WaitReturns(idOf[t], r) /\ ~Answered(t, r)
        BY <3>2 DEF PollFailed
      <4>2. QED
        BY <3>2, <4>1
    <3>3. QED
      BY <1>7, <3>1, <3>2
  <2>2. /\ pc = "wait" /\ t \in At("waiting")
        /\ UNCHANGED <<count, pc, idOf, resp, outFile, recorded, result>>
    BY <1>7 DEF PollAnswered, PollFailed, Polling, setupVars, sendVars
  <2>3. PICK s \in {"retry", "ended"} :
          /\ stage' = [stage EXCEPT ![t] = s]
          /\ s = "retry" => answer' = answer
          /\ s = "ended" => answer' = [answer EXCEPT ![t] = IF Answered(t, r) THEN "object" ELSE "failed"]
          /\ s = "retry" => ~Answered(t, r)
    BY <2>1 DEF PollAnswered, PollFailed, Move
  <2>4. stage[t] = "waiting" /\ Live(t) /\ answer[t] = "none" /\ t \notin recorded
    BY <2>2 DEF At, Live, Results
  <2>5. r = "failed" => child[idOf[t]] = "failed"
    BY <2>1 DEF WaitReturns
  <2>6. Answered(t, r) <=> ~ NoObject(t, Len(resp[t]))
    <3>1. outFile[t] = Len(resp[t]) /\ Len(resp[t]) \in Nat \ {0} /\ NoObject(t, Len(resp[t]) - 1)
      BY <1>a, <2>4 DEF FilesOfTask, TypeOK
    <3>2. r = "failed" => NoObject(t, Len(resp[t]))
      BY <2>4, <2>5 DEF FilesOfTask
    <3>3. \A k \in 1 .. Len(resp[t]) : k = Len(resp[t]) \/ k \in 1 .. Len(resp[t]) - 1
      BY <3>1
    <3>4. r = "ok" \/ r = "failed"
      BY DEF Exits
    <3>5. Len(resp[t]) \in 1 .. Len(resp[t])
      BY <3>1
    <3>6. QED
      BY <3>1, <3>2, <3>3, <3>4, <3>5 DEF Answered, NoObject
  <2>7. CurlOwnership' /\ FilesOfTask'
    <3>1. pc \in Parallel /\ (s = "retry" => NoObject(t, Len(resp[t])))
      BY <2>2, <2>3, <2>6 DEF Parallel
    <3>2. QED
      BY <1>a, <2>1, <2>2, <2>3, <3>1, ReapCore
  <2>8. /\ stage'[t] = s /\ \A u \in Tasks \ {t} : stage'[u] = stage[u] /\ answer'[u] = answer[u]
        /\ s = "ended" => answer'[t] = IF Answered(t, r) THEN "object" ELSE "failed"
    BY <1>a, <2>3 DEF TypeOK
  <2>9. recorded \subseteq Tasks /\ 1 .. count \subseteq Tasks
    BY <1>a DEF TypeOK, Tasks
  <2>10. StagesOfLoop'
    BY <2>2, <2>4, <2>8, <2>9 DEF StagesOfLoop, Parallel, Unstarted
  <2>11. Results'
    <3>1. \A u \in Tasks : Live(u)' \/ stage'[u] = "retry" => answer'[u] = "none"
      BY <2>3, <2>4, <2>8 DEF Results, Live
    <3>2. \A u \in Tasks : stage'[u] = "ended" =>
             (answer[u] = "object" <=> ~ NoObject(u, Len(resp[u])))'
      <4>1. CASE s = "ended"
        BY <2>2, <2>6, <2>8, <4>1 DEF Results, NoObject
      <4>2. CASE s = "retry"
        BY <2>2, <2>8, <4>2 DEF Results, NoObject
      <4>3. QED
        BY <4>1, <4>2
    <3>3. \A u \in recorded : stage'[u] = "ended" /\ answer'[u] = "object"
      BY <2>4, <2>8, <2>9 DEF Results
    <3>4. QED
      BY <2>2, <3>1, <3>2, <3>3 DEF Results, Unstarted
  <2>12. SuccessIsComplete'
    BY <2>2 DEF SuccessIsComplete
  <2>13. QED
    BY <2>7, <2>10, <2>11, <2>12
<1>8. ASSUME NEW t \in Tasks, PollNil(t) PROVE Core'
  <2>1. /\ pc = "wait" /\ t \in 1 .. count /\ stage[t] = "waiting"
        /\ stage' = [stage EXCEPT ![t] = "kept"]
        /\ UNCHANGED <<cmdOf, child, count, pc, idOf, resp, outFile, answer, recorded, result>>
    BY <1>8 DEF PollNil, Polling, At, Move, WaitReturnsNil, WaitFails, tableVars, setupVars,
       sendVars, endVars
  <2>2. /\ \A u \in Tasks : Live(u)' <=> Live(u)
        /\ \A u \in Tasks : Live(u) \/ stage'[u] = stage[u]
        /\ stage'[t] = "kept" /\ \A u \in Tasks \ {t} : stage'[u] = stage[u]
    BY <1>a, <2>1 DEF Live, TypeOK
  <2>3. 1 .. count \subseteq Tasks /\ recorded \subseteq Tasks
    BY <1>a DEF TypeOK, Tasks
  <2>4. Sent' = Sent
    BY <2>1, <2>2, <2>3 DEF Sent, Live
  <2>5. CurlOwnership'
    BY <2>1, <2>4 DEF CurlOwnership, FreeIds
  <2>6. StagesOfLoop'
    BY <2>1, <2>2, <2>3 DEF StagesOfLoop, Parallel, Unstarted
  <2>7. FilesOfTask'
    BY <2>1, <2>2 DEF FilesOfTask, NoObject, Live, Parallel
  <2>8. Results' /\ SuccessIsComplete'
    BY <2>1, <2>2, <2>3 DEF Results, SuccessIsComplete, Live, NoObject, Unstarted
  <2>9. QED
    BY <2>5, <2>6, <2>7, <2>8
<1>9. ASSUME NEW t \in Tasks, PollRaises(t) \/ FailResult(t) \/ NoNodeLeft(t) PROVE Core'
  <2>1. /\ UNCHANGED <<cmdOf, child, count, stage, idOf, resp, outFile, recorded>>
        /\ \/ pc = "wait" /\ pc' = "raised" /\ answer' = answer
           \/ pc = "results" /\ pc' = "done" /\ ~result' /\ answer' = answer
           \/ /\ pc = "sequential" /\ pc' = "done" /\ ~result' /\ stage[t] = "unsent"
              /\ answer' = [answer EXCEPT ![t] = "failed"]
    <3>1. CASE PollRaises(t)
      BY <3>1 DEF PollRaises, Goto, tableVars, setupVars, sendVars, Polling
    <3>2. CASE FailResult(t)
      BY <3>2 DEF FailResult, Return, tableVars, setupVars, sendVars
    <3>3. CASE NoNodeLeft(t)
      BY <3>3 DEF NoNodeLeft, Current, At, Return, tableVars, setupVars, sendVars
    <3>4. QED
      BY <1>9, <3>1, <3>2, <3>3
  <2>2. CurlOwnership' /\ StagesOfLoop' /\ FilesOfTask'
    BY <2>1 DEF CurlOwnership, Sent, FreeIds, StagesOfLoop, FilesOfTask, Live, NoObject, Parallel,
       Unstarted
  <2>3. recorded \subseteq Tasks /\ \A u \in Tasks : stage[u] # "unsent" => answer'[u] = answer[u]
    BY <1>a, <2>1 DEF TypeOK
  <2>4. Results' /\ SuccessIsComplete'
    BY <2>1, <2>3 DEF Results, SuccessIsComplete, Live, NoObject, Unstarted
  <2>5. QED
    BY <2>2, <2>4
<1>10. ASSUME NextPass PROVE Core'
  <2>1. /\ pc = "wait"
        /\ stage' = [t \in Tasks |-> IF stage[t] = "kept" THEN "waiting" ELSE stage[t]]
        /\ UNCHANGED <<cmdOf, child, count, pc, idOf, resp, outFile, answer, recorded, result>>
    BY <1>10 DEF NextPass, tableVars, setupVars, sendVars, endVars
  <2>2. /\ \A u \in Tasks : Live(u)' <=> Live(u)
        /\ \A u \in Tasks : stage'[u] \in {"waiting", "kept"} \/ stage'[u] = stage[u]
        /\ \A u \in Tasks : ~Live(u) => stage'[u] = stage[u]
    BY <2>1 DEF Live
  <2>3. 1 .. count \subseteq Tasks /\ recorded \subseteq Tasks
    BY <1>a DEF TypeOK, Tasks
  <2>4. Sent' = Sent
    BY <2>1, <2>2, <2>3 DEF Sent, Live
  <2>5. CurlOwnership'
    BY <2>1, <2>4 DEF CurlOwnership, FreeIds
  <2>6. StagesOfLoop'
    BY <2>1, <2>2, <2>3 DEF StagesOfLoop, Parallel, Unstarted, Live
  <2>7. FilesOfTask'
    BY <2>1, <2>2 DEF FilesOfTask, NoObject, Live, Parallel
  <2>8. Results' /\ SuccessIsComplete'
    BY <2>1, <2>2, <2>3 DEF Results, SuccessIsComplete, Live, NoObject, Unstarted
  <2>9. QED
    BY <2>5, <2>6, <2>7, <2>8
<1>11. ASSUME Cleanup PROVE Core'
  <2>1. /\ pc = "wait" /\ pc' = "results" /\ NoneLeft /\ resp' = [t \in Tasks |-> <<>>]
        /\ UNCHANGED <<cmdOf, child, count, stage, idOf, outFile, answer, recorded, result>>
    BY <1>11 DEF Cleanup, Goto, tableVars, setupVars
  <2>2. \A t \in Tasks : stage[t] \in {"unsent", "ended"} /\ ~Live(t)
    BY <1>a, <2>1 DEF NoneLeft, At, StagesOfLoop, TypeOK, Stages, Live
  <2>3. CurlOwnership'
    BY <2>1 DEF CurlOwnership, Sent, FreeIds
  <2>4. StagesOfLoop' /\ FilesOfTask'
    BY <2>1, <2>2 DEF StagesOfLoop, FilesOfTask, Parallel, Unstarted, Live
  <2>5. Results' /\ SuccessIsComplete'
    BY <2>1, <2>2 DEF Results, SuccessIsComplete, Live, Unstarted
  <2>6. QED
    BY <2>3, <2>4, <2>5
<1>12. ASSUME NEW t \in Tasks, WriteResult(t) PROVE Core'
  <2>1. /\ pc = "results" /\ t \in 1 .. count /\ answer[t] = "object" /\ recorded' = recorded \cup {t}
        /\ UNCHANGED <<cmdOf, child, count, pc, stage, idOf, resp, outFile, answer, result>>
    BY <1>12 DEF WriteResult, tableVars, setupVars, sendVars
  <2>2. stage[t] = "ended"
    BY <2>1 DEF StagesOfLoop, Parallel
  <2>3. CurlOwnership' /\ StagesOfLoop' /\ FilesOfTask'
    <3>1. CurlOwnership'
      BY <2>1 DEF CurlOwnership, Sent, FreeIds
    <3>2. StagesOfLoop'
      BY <2>1 DEF StagesOfLoop, Parallel, Unstarted
    <3>3. FilesOfTask'
      BY <2>1 DEF FilesOfTask, Live, NoObject, Parallel
    <3>4. QED
      BY <3>1, <3>2, <3>3
  <2>4. Results' /\ SuccessIsComplete'
    BY <2>1, <2>2 DEF Results, SuccessIsComplete, Live, NoObject, Unstarted, At
  <2>5. QED
    BY <2>3, <2>4
<1>13. ASSUME NEW t \in Tasks, NEW o \in 0 .. Len(healthy) - 1, Post(t, o) PROVE Core'
  <2>1. /\ pc = "sequential" /\ pc' = "posting"
        /\ UNCHANGED <<cmdOf, child, count, stage, idOf, resp, outFile, answer, recorded, result>>
    BY <1>13 DEF Post, Goto, tableVars, setupVars
  <2>2. QED
    BY <2>1 DEF CurlOwnership, Sent, FreeIds, StagesOfLoop, FilesOfTask, Results,
       SuccessIsComplete, Live, NoObject, At, Parallel, Unstarted
<1>14. ASSUME NEW t \in Tasks, PostAnswered(t) PROVE Core'
  <2>1. /\ pc = "posting" /\ pc' = "sequential" /\ t \in 1 .. count /\ stage[t] = "unsent"
        /\ answer' = [answer EXCEPT ![t] = "object"] /\ recorded' = recorded \cup {t}
        /\ stage' = [stage EXCEPT ![t] = "ended"]
        /\ UNCHANGED <<cmdOf, child, count, idOf, resp, outFile, result>>
    BY <1>14 DEF PostAnswered, Posting, Current, At, Move, Goto, tableVars, setupVars, sendVars
  <2>2. /\ stage'[t] = "ended" /\ answer'[t] = "object"
        /\ \A u \in Tasks \ {t} : stage'[u] = stage[u] /\ answer'[u] = answer[u]
    BY <1>a, <2>1 DEF TypeOK
  <2>a. 1 .. count \subseteq Tasks /\ recorded \subseteq Tasks
    BY <1>a DEF TypeOK, Tasks
  <2>b. \A u \in Tasks : stage[u] \in {"unsent", "ended"}
    BY <2>1 DEF StagesOfLoop, Parallel
  <2>3. /\ 1 .. count \subseteq Tasks /\ recorded \subseteq Tasks
        /\ \A u \in Tasks : ~Live(u)' /\ ~Live(u)
    BY <2>2, <2>a, <2>b DEF Live
  <2>4. Sent' = {} /\ Sent = {}
    BY <2>1, <2>3 DEF Sent, Live
  <2>5. CurlOwnership'
    BY <2>1, <2>4 DEF CurlOwnership, FreeIds
  <2>6. StagesOfLoop' /\ FilesOfTask'
    BY <2>1, <2>2, <2>3 DEF StagesOfLoop, FilesOfTask, Parallel, Unstarted
  <2>7. Results' /\ SuccessIsComplete'
    BY <2>1, <2>2, <2>3 DEF Results, SuccessIsComplete, Unstarted, At, StagesOfLoop, Parallel
  <2>8. QED
    BY <2>5, <2>6, <2>7
<1>15. ASSUME NEW t \in Tasks, PostFailed(t) PROVE Core'
  <2>1. /\ pc = "posting" /\ stage[t] = "unsent"
        /\ \/ pc' = "sequential" /\ answer' = answer /\ result' = result
           \/ pc' = "done" /\ answer' = [answer EXCEPT ![t] = "failed"] /\ ~result'
        /\ UNCHANGED <<cmdOf, child, count, stage, idOf, resp, outFile, recorded>>
    BY <1>15 DEF PostFailed, Posting, Current, At, Goto, Return, tableVars, setupVars, sendVars
  <2>2. CurlOwnership' /\ StagesOfLoop' /\ FilesOfTask'
    BY <2>1 DEF CurlOwnership, Sent, FreeIds, StagesOfLoop, FilesOfTask, Live, NoObject, Parallel,
       Unstarted
  <2>3. recorded \subseteq Tasks /\ \A u \in Tasks : stage[u] # "unsent" => answer'[u] = answer[u]
    BY <1>a, <2>1 DEF TypeOK
  <2>4. Results' /\ SuccessIsComplete'
    BY <2>1, <2>3 DEF Results, SuccessIsComplete, Live, NoObject, Unstarted, At
  <2>5. QED
    BY <2>2, <2>4
<1>16. ASSUME NEW i \in Ids, CurlExits(i) PROVE Core'
  <2>1. PICK c \in Contents : Reply(i, c)
    BY <1>16 DEF CurlExits
  <2>2. PICK t \in Sent : t = cmdOf[i] /\ idOf[t] = i
    BY <2>1 DEF Reply, ChildExits, InUse, CurlOwnership
  <2>3. /\ child[i] = "running" /\ cmdOf' = cmdOf
        /\ child' = [child EXCEPT ![i] = IF c = "none" THEN "failed" ELSE "ok"]
        /\ resp' = [resp EXCEPT ![t] = [@ EXCEPT ![Len(@)] = c]]
        /\ UNCHANGED <<count, pc, stage, idOf, outFile, answer, recorded, result>>
    <3>1. resp' = [resp EXCEPT ![t] = [@ EXCEPT ![Len(@)] = c]]
      BY <2>1, <2>2 DEF Reply
    <3>2. /\ child[i] = "running" /\ cmdOf' = cmdOf
          /\ child' = [child EXCEPT ![i] = IF c = "none" THEN "failed" ELSE "ok"]
      BY <2>1 DEF Reply, ChildExits
    <3>3. UNCHANGED <<count, pc, stage, idOf, outFile, answer, recorded, result>>
      BY <1>16 DEF CurlExits, setupVars, endVars
    <3>4. QED
      BY <3>1, <3>2, <3>3
  <2>4. t \in Tasks /\ Live(t) /\ resp[t] \in Seq(Contents) /\ Len(resp[t]) \in Nat \ {0}
    <3>1. t \in Tasks /\ Live(t)
      BY <1>a, <2>2 DEF Sent, Live, TypeOK, Tasks
    <3>2. resp[t] \in Seq(Contents) /\ Len(resp[t]) # 0
      BY <1>a, <3>1 DEF TypeOK, FilesOfTask
    <3>3. QED
      BY <3>1, <3>2
  <2>5. /\ Len(resp'[t]) = Len(resp[t])
        /\ \A k \in 1 .. Len(resp[t]) : resp'[t][k] = IF k = Len(resp[t]) THEN c ELSE resp[t][k]
    <3>1. resp'[t] = [resp[t] EXCEPT ![Len(resp[t])] = c]
      BY <1>a, <2>3, <2>4 DEF TypeOK
    <3>2. QED
      BY <2>4, <3>1, ReplaceLast
  <2>6. \A u \in Tasks \ {t} : resp'[u] = resp[u]
    BY <1>a, <2>3 DEF TypeOK
  <2>7. \A u \in Tasks \ {t} : Live(u) /\ idOf[u] # 0 => child'[idOf[u]] = child[idOf[u]]
    <3>1. ASSUME NEW u \in Tasks \ {t}, Live(u), idOf[u] # 0 PROVE idOf[u] # i /\ idOf[u] \in Ids
      <4>1. u \in Sent
        BY <3>1 DEF Sent, Live, StagesOfLoop
      <4>2. QED
        BY SMTT(30), <1>a, <2>2, <3>1, <4>1 DEF CurlOwnership, TypeOK
    <3>2. QED
      BY <1>a, <2>3, <3>1 DEF TypeOK, TableTypeOK
  <2>8. NoObject(t, Len(resp[t]) - 1) /\ outFile[t] = Len(resp[t])
    BY <2>4 DEF FilesOfTask
  <2>9. /\ \A k \in 1 .. Len(resp[t]) - 1 : resp'[t][k] # "object"
        /\ c # "object" => \A k \in 1 .. Len(resp[t]) : resp'[t][k] # "object"
        /\ c = "object" => child'[i] = "ok"
    BY SMTT(30), <1>a, <2>3, <2>4, <2>5, <2>8 DEF NoObject, TypeOK, TableTypeOK
  <2>10. CurlOwnership' /\ StagesOfLoop'
    BY <2>3 DEF CurlOwnership, Sent, FreeIds, StagesOfLoop
  <2>11. pc \in Parallel
    BY <2>4 DEF StagesOfLoop, Live
  <2>12. FilesOfTask'
    <3>1. \A u \in Tasks : stage'[u] = "unsent" \/ pc' \notin Parallel => resp'[u] = <<>>
      BY <2>3, <2>4, <2>6, <2>11 DEF FilesOfTask, Live
    <3>2. ASSUME NEW u \in Tasks, Live(u)'
          PROVE  /\ Len(resp'[u]) # 0 /\ outFile'[u] = Len(resp'[u])
                 /\ \A k \in 1 .. Len(resp'[u]) - 1 : resp'[u][k] # "object"
                 /\ idOf'[u] = 0 \/ child'[idOf'[u]] # "ok" =>
                       \A k \in 1 .. Len(resp'[u]) : resp'[u][k] # "object"
      <4>1. CASE u = t
        <5>1. idOf'[t] = i /\ i # 0
          BY <2>2, <2>3 DEF Ids
        <5>2. outFile'[t] = Len(resp[t])
          BY <2>3, <2>8
        <5>3. QED
          BY <2>4, <2>5, <2>9, <4>1, <5>1, <5>2
      <4>2. CASE u # t
        BY <2>3, <2>6, <2>7, <3>2, <4>2 DEF FilesOfTask, Live, NoObject
      <4>3. QED
        BY <4>1, <4>2
    <3>3. ASSUME NEW u \in Tasks, stage'[u] = "retry"
          PROVE  \A k \in 1 .. Len(resp'[u]) : resp'[u][k] # "object"
      BY <2>3, <2>4, <2>6, <3>3 DEF FilesOfTask, Live, NoObject
    <3>4. QED
      BY <3>1, <3>2, <3>3 DEF FilesOfTask, NoObject
  <2>13. Results' /\ SuccessIsComplete'
    BY <2>3, <2>4, <2>6 DEF Results, SuccessIsComplete, Live, NoObject, At
  <2>14. QED
    BY <2>10, <2>12, <2>13
<1>17. CASE UNCHANGED vars
  BY <1>17 DEF vars, tableVars, setupVars, sendVars, endVars, CurlOwnership, Sent, FreeIds,
     StagesOfLoop, FilesOfTask, Results, SuccessIsComplete, Live, NoObject, At
<1>18. QED
  BY <1>1, <1>2, <1>3, <1>4, <1>5, <1>6, <1>7, <1>8, <1>9, <1>10, <1>11, <1>12, <1>13,
     <1>14, <1>15, <1>16, <1>17 DEF Next, Spkg, Internal, HearsOf

------------------------------------------------------------------------------
\* Counting on from anywhere, modulo n, meets every remainder.
LEMMA DivMod ==
  ASSUME NEW a \in Nat, NEW n \in Nat \ {0}
  PROVE  a \div n \in Nat /\ a % n \in 0 .. n - 1 /\ a = n * (a \div n) + (a % n)
OBVIOUS

LEMMA ModOfSum ==
  ASSUME NEW n \in Nat \ {0}, NEW q \in Nat, NEW r \in 0 .. n - 1
  PROVE  (n * q + r) % n = r
BY SMTT(60)

LEMMA Rotation ==
  ASSUME NEW a \in Nat, NEW n \in Nat \ {0}, NEW j \in 0 .. n - 1
  PROVE  \E m \in 0 .. n - 1 : (a + m) % n = j
<1>1. PICK q \in Nat, r \in 0 .. n - 1 : a = n * q + r
  BY ZenonT(40), DivMod
<1>2. CASE j >= r
  <2>1. a + (j - r) = n * q + j
    BY <1>1
  <2>2. (a + (j - r)) % n = j
    BY <2>1, ModOfSum
  <2>3. j - r \in 0 .. n - 1
    BY <1>2
  <2>4. QED
    BY <2>2, <2>3
<1>3. CASE j < r
  <2>1. a + (j - r + n) = n * (q + 1) + j /\ q + 1 \in Nat
    BY <1>1
  <2>2. (a + (j - r + n)) % n = j
    BY <2>1, ModOfSum
  <2>3. j - r + n \in 0 .. n - 1
    BY <1>3
  <2>4. QED
    BY <2>2, <2>3
<1>4. QED
  BY <1>2, <1>3

\* As many attempts as there are servers go to every one of them ...
LEMMA AttemptsCover ==
  ASSUME TypeOK, healthy # <<>>, NEW t \in Tasks
  PROVE  {healthy[NodeFor(t, k)] : k \in 1 .. Len(healthy)} = Elements(healthy)
<1>1. Len(healthy) \in Nat \ {0} /\ t - 1 \in Nat
  BY DEF TypeOK, Tasks
<1>2. \A k \in 1 .. Len(healthy) : NodeFor(t, k) \in 1 .. Len(healthy)
  BY <1>1, NodeForType
<1>3. ASSUME NEW i \in 1 .. Len(healthy)
      PROVE  \E k \in 1 .. Len(healthy) : NodeFor(t, k) = i
  <2>1. i - 1 \in 0 .. Len(healthy) - 1
    BY <1>1
  <2>2. PICK m \in 0 .. Len(healthy) - 1 : ((t - 1) + m) % Len(healthy) = i - 1
    <3>1. PICK n \in Nat \ {0}, a \in Nat : n = Len(healthy) /\ a = t - 1
      BY <1>1
    <3>2. \E m \in 0 .. n - 1 : (a + m) % n = i - 1
      BY <2>1, <3>1, Rotation
    <3>3. QED
      BY <3>1, <3>2
  <2>3. m + 1 \in 1 .. Len(healthy) /\ t + (m + 1) - 2 = (t - 1) + m
    BY <1>1, <2>2 DEF Tasks
  <2>4. NodeFor(t, m + 1) = i
    BY <2>2, <2>3 DEF NodeFor
  <2>5. QED
    BY <2>3, <2>4
<1>4. QED
  BY <1>2, <1>3 DEF Elements

\* ... and so does the loop without curl, when it finds nobody else to ask.
LEMMA CandidatesCover ==
  ASSUME TypeOK, healthy # <<>>, NEW t \in Tasks, Untried(t) = {}
  PROVE  Elements(healthy) \subseteq asked[t]
<1>1. Len(healthy) \in Nat \ {0} /\ nodeIdx \in Nat
  BY DEF TypeOK
<1>2. ASSUME NEW i \in 1 .. Len(healthy) PROVE healthy[i] \in asked[t]
  <2>1. i - 1 \in 0 .. Len(healthy) - 1
    BY <1>1
  <2>2. PICK o \in 0 .. Len(healthy) - 1 : (nodeIdx + o) % Len(healthy) = i - 1
    <3>1. PICK n \in Nat \ {0}, a \in Nat : n = Len(healthy) /\ a = nodeIdx
      BY <1>1
    <3>2. \E o \in 0 .. n - 1 : (a + o) % n = i - 1
      BY ZenonT(40), <2>1, <3>1, Rotation
    <3>3. QED
      BY <3>1, <3>2
  <2>3. Candidate(o) = i
    BY <2>2 DEF Candidate
  <2>4. QED
    BY <2>3 DEF Untried
<1>3. QED
  BY <1>2 DEF Elements

\* A task that has asked as many names as the list has entries has asked all.
LEMMA NamesCover ==
  ASSUME TypeOK, NEW t \in Tasks, AskedOnce(t), attempt[t] >= Len(healthy)
  PROVE  asked[t] = Elements(healthy)
<1>1. Len(healthy) \in Nat /\ attempt[t] \in Nat
  BY DEF TypeOK
<1> DEFINE f == [i \in 1 .. Len(healthy) |-> healthy[i]]
<1>2. f \in Surjection(1 .. Len(healthy), Elements(healthy))
  BY DEF Surjection, Elements
<1>3. IsFiniteSet(1 .. Len(healthy)) /\ Cardinality(1 .. Len(healthy)) = Len(healthy)
  <2>a. 1 \in Int /\ Len(healthy) \in Int
    BY <1>1
  <2>1. /\ IsFiniteSet(1 .. Len(healthy))
        /\ Cardinality(1 .. Len(healthy)) = IF 1 > Len(healthy) THEN 0 ELSE Len(healthy) - 1 + 1
    BY <2>a, FS_Interval, Zenon
  <2>2. QED
    BY <1>1, <2>1
<1> HIDE DEF f
<1>4. IsFiniteSet(Elements(healthy)) /\ Cardinality(Elements(healthy)) <= Cardinality(1 .. Len(healthy))
  BY <1>2, <1>3, FS_Surjection
<1>5. asked[t] \in SUBSET Elements(healthy)
  BY DEF AskedOnce
<1>6. /\ Cardinality(asked[t]) <= Cardinality(Elements(healthy))
      /\ Cardinality(Elements(healthy)) = Cardinality(asked[t]) => Elements(healthy) = asked[t]
  BY <1>4, <1>5, FS_Subset
<1>7. Cardinality(Elements(healthy)) \in Nat /\ Cardinality(asked[t]) = attempt[t]
  BY <1>4, FS_CardinalityType DEF AskedOnce
<1>8. QED
  BY <1>1, <1>3, <1>4, <1>6, <1>7

LEMMA InitAsking == Init => Asking
<1>1. SUFFICES ASSUME Init PROVE Asking
  OBVIOUS
<1>2. pc = "start" /\ \A t \in Tasks : asked[t] = {} /\ answer[t] = "none"
  BY <1>1 DEF Init
<1>3. QED
  BY <1>2 DEF Asking, GivenUpOnlyAfterAll

\* One more attempt asks the next server in turn.
LEMMA SendAsks ==
  ASSUME TypeOK, NEW t \in Tasks, AskedInTurn(t), Send(t, attempt[t] + 1), UNCHANGED healthy
  PROVE  /\ AskedInTurn(t)'
         /\ \A u \in Tasks \ {t} : asked'[u] = asked[u] /\ attempt'[u] = attempt[u]
<1> DEFINE n == attempt[t] + 1
<1>1. /\ attempt' = [attempt EXCEPT ![t] = n]
      /\ asked' = [asked EXCEPT ![t] = @ \cup {healthy[NodeFor(t, n)]}]
  BY DEF Send
<1>2. /\ attempt'[t] = n /\ asked'[t] = asked[t] \cup {healthy[NodeFor(t, n)]}
      /\ \A u \in Tasks \ {t} : asked'[u] = asked[u] /\ attempt'[u] = attempt[u]
  BY <1>1 DEF TypeOK
<1>3. 1 .. n = (1 .. attempt[t]) \cup {n}
  BY DEF TypeOK
<1>4. asked'[t] = {healthy[NodeFor(t, k)] : k \in 1 .. n}
  BY <1>2, <1>3 DEF AskedInTurn
<1>5. QED
  BY <1>2, <1>4 DEF AskedInTurn, NodeFor

LEMMA AskingStep ==
  ASSUME ~SigChldIgnored, TInv, Core, Asking, [Next]_vars
  PROVE  Asking'
<1>a. TypeOK /\ TypeOK' /\ AttemptsLeft
  BY TInvStep DEF TInv
<1>b. StagesOfLoop /\ Results
  BY DEF Core
<1> USE DEF Asking
<1>c. ASSUME UNCHANGED <<healthy, count, stage, attempt, asked>>,
             pc' = pc \/ pc' \notin Unstarted \cup {"submit", "wait", "sequential", "posting"},
             pc = "done" => pc' = "done",
             UNCHANGED answer
      PROVE  Asking'
  BY <1>c DEF GivenUpOnlyAfterAll, AskedInTurn, AskedOnce, NodeFor, Elements, At, Unstarted
<1>1. ASSUME Unconfigured \/ ConfigFails \/ Configured \/ HealthDone PROVE Asking'
  <2>1. /\ pc \in Unstarted /\ pc' \in {"local", "done", "raised", "health", "collect"}
        /\ UNCHANGED <<healthy, count, stage, attempt, asked, answer>>
    BY <1>1 DEF Unconfigured, ConfigFails, Configured, HealthDone, Goto, Return, tableVars, setupVars,
       sendVars, Unstarted
  <2>2. \A t \in Tasks : asked[t] = {} /\ answer[t] = "none"
    BY <2>1
  <2>3. QED
    BY <2>1, <2>2 DEF GivenUpOnlyAfterAll, Unstarted
<1>2. ASSUME NEW ok \in BOOLEAN, CheckHealth(ok) PROVE Asking'
  <2>1. pc = "health" /\ UNCHANGED <<pc, stage, attempt, asked, answer>>
    BY <1>2 DEF CheckHealth, tableVars, sendVars, endVars
  <2>2. \A t \in Tasks : asked[t] = {} /\ answer[t] = "none"
    BY <2>1 DEF Unstarted
  <2>3. QED
    BY <2>1, <2>2 DEF GivenUpOnlyAfterAll, Unstarted
<1>3. ASSUME NEW n \in 0 .. MaxTasks, Collect(n) PROVE Asking'
  <2>1. /\ pc = "collect" /\ pc' \in {"link", "submit", "sequential"}
        /\ UNCHANGED <<healthy, stage, attempt, asked, answer>>
    BY <1>3 DEF Collect, Goto, tableVars, sendVars
  <2>2. \A t \in Tasks : asked[t] = {} /\ answer[t] = "none" /\ attempt[t] = 0
    BY <1>a, <2>1 DEF Unstarted, AttemptsLeft
  <2>3. \A t \in Tasks : AskedInTurn(t)'
    BY <2>1, <2>2 DEF AskedInTurn
  <2>4. \A t \in Tasks : AskedOnce(t)'
    <3>1. IsFiniteSet({}) /\ Cardinality({}) = 0
      BY FS_EmptySet
    <3>2. QED
      BY <2>1, <2>2, <3>1 DEF AskedOnce
  <2>5. At("unsent")' \subseteq Tasks
    BY <1>a DEF At, TypeOK, Tasks
  <2>6. QED
    BY <2>1, <2>2, <2>3, <2>4, <2>5 DEF GivenUpOnlyAfterAll, Unstarted
<1>4. ASSUME CollectFails \/ ResultsDone \/ SequentialDone \/ Link PROVE Asking'
  <2>1. /\ pc \in {"collect", "results", "sequential", "link"} /\ pc' \in {"done", "link"}
        /\ UNCHANGED <<healthy, count, stage, attempt, asked, answer>>
    BY <1>4 DEF CollectFails, ResultsDone, SequentialDone, Link, Goto, Return, tableVars, setupVars,
       sendVars
  <2>2. QED
    BY <1>c, <2>1 DEF Unstarted
<1>5. ASSUME SubmitDone PROVE Asking'
  <2>1. /\ pc = "submit" /\ pc' = "wait"
        /\ UNCHANGED <<healthy, count, stage, attempt, asked, answer>>
    BY <1>5 DEF SubmitDone, Goto, tableVars, setupVars, sendVars
  <2>2. QED
    BY <2>1 DEF GivenUpOnlyAfterAll, AskedInTurn, NodeFor, Elements, Unstarted
<1>6. ASSUME NEW t \in Tasks, Submit(t) \/ Retry(t) PROVE Asking'
  <2>1. /\ pc \in {"submit", "wait"} /\ UNCHANGED <<healthy, pc, answer>>
        /\ Send(t, attempt[t] + 1) /\ stage[t] \in {"unsent", "retry"} /\ answer[t] = "none"
        /\ \E s \in {"waiting", "kept"} : stage' = [stage EXCEPT ![t] = s]
    <3>1. CASE Submit(t)
      <4>1. /\ pc = "submit" /\ stage[t] = "unsent" /\ Send(t, 1) /\ UNCHANGED <<healthy, pc, answer>>
            /\ stage' = [stage EXCEPT ![t] = "waiting"]
        BY <3>1 DEF Submit, At, Move, setupVars, endVars
      <4>2. attempt[t] = 0 /\ attempt[t] + 1 = 1 /\ answer[t] = "none"
        BY <1>b, <4>1 DEF Results
      <4>3. QED
        BY <4>1, <4>2
    <3>2. CASE Retry(t)
      BY <1>b, <3>2 DEF Retry, At, Move, setupVars, endVars, Results
    <3>3. QED
      BY <1>6, <3>1, <3>2
  <2>2. /\ AskedInTurn(t)'
        /\ \A u \in Tasks \ {t} : asked'[u] = asked[u] /\ attempt'[u] = attempt[u]
    BY <1>a, <2>1, SendAsks
  <2>3. \A u \in Tasks \ {t} : AskedInTurn(u)'
    BY <2>1, <2>2 DEF AskedInTurn, NodeFor
  <2>4. stage'[t] \in {"waiting", "kept"} /\ \A u \in Tasks \ {t} : stage'[u] = stage[u]
    BY <1>a, <2>1 DEF TypeOK
  <2>5. GivenUpOnlyAfterAll'
    BY <2>1, <2>2 DEF GivenUpOnlyAfterAll, Elements
  <2>6. QED
    BY <2>1, <2>2, <2>3, <2>4, <2>5 DEF Unstarted
<1>7. ASSUME NEW t \in Tasks, PollAnswered(t) PROVE Asking'
  <2>1. /\ pc = "wait" /\ UNCHANGED <<healthy, pc, attempt, asked>>
        /\ answer' = [answer EXCEPT ![t] = "object"] /\ stage' = [stage EXCEPT ![t] = "ended"]
    BY <1>7 DEF PollAnswered, Polling, Move, setupVars, sendVars
  <2>2. answer'[t] = "object" /\ \A u \in Tasks \ {t} : answer'[u] = answer[u] /\ stage'[u] = stage[u]
    BY <1>a, <2>1 DEF TypeOK
  <2>3. QED
    BY <2>1, <2>2 DEF GivenUpOnlyAfterAll, AskedInTurn, NodeFor, Elements, Unstarted
<1>8. ASSUME NEW t \in Tasks, PollFailed(t) PROVE Asking'
  <2>1. /\ pc = "wait" /\ UNCHANGED <<healthy, pc, attempt, asked>> /\ stage[t] = "waiting"
        /\ \/ answer' = answer /\ stage' = [stage EXCEPT ![t] = "retry"]
           \/ /\ answer' = [answer EXCEPT ![t] = "failed"] /\ stage' = [stage EXCEPT ![t] = "ended"]
              /\ ~MayRetry(t)
    BY <1>8 DEF PollFailed, Polling, At, Move, setupVars, sendVars
  <2>2. answer[t] = "none"
    BY <1>b, <2>1 DEF Results, Live
  <2>3. ~MayRetry(t) => asked[t] = Elements(healthy)
    <3>1. SUFFICES ASSUME ~MayRetry(t) PROVE asked[t] = Elements(healthy)
      OBVIOUS
    <3>2. attempt[t] = Len(healthy)
      BY SMTT(30), <1>a, <3>1 DEF MayRetry, TypeOK
    <3>3. healthy # <<>>
      BY <1>a, <2>1 DEF AttemptsLeft, Loops
    <3>4. AskedInTurn(t)
      BY <2>1
    <3>5. QED
      BY <1>a, <3>2, <3>3, <3>4, AttemptsCover DEF AskedInTurn
  <2>4. \A u \in Tasks \ {t} : answer'[u] = answer[u] /\ stage'[u] = stage[u]
    BY <1>a, <2>1 DEF TypeOK
  <2>5. answer'[t] = "failed" => stage'[t] = "ended" /\ ~MayRetry(t)
    BY <1>a, <2>1, <2>2 DEF TypeOK
  <2>6. QED
    BY <2>1, <2>3, <2>4, <2>5 DEF GivenUpOnlyAfterAll, AskedInTurn, NodeFor, Elements, Unstarted
<1>9. ASSUME NEW t \in Tasks, PollNil(t) PROVE Asking'
  <2>1. /\ pc = "wait" /\ UNCHANGED <<healthy, pc, attempt, asked, answer>> /\ stage[t] = "waiting"
        /\ stage' = [stage EXCEPT ![t] = "kept"]
    BY <1>9 DEF PollNil, Polling, At, Move, setupVars, sendVars, endVars
  <2>2. answer[t] = "none" /\ \A u \in Tasks \ {t} : stage'[u] = stage[u]
    BY <1>a, <1>b, <2>1 DEF Results, Live, TypeOK
  <2>3. QED
    BY <2>1, <2>2 DEF GivenUpOnlyAfterAll, AskedInTurn, NodeFor, Elements, Unstarted
<1>10. ASSUME NEW t \in Tasks, PollRaises(t) \/ WriteResult(t) \/ FailResult(t) PROVE Asking'
  <2>1. /\ UNCHANGED <<healthy, count, stage, attempt, asked, answer>>
        /\ pc' = pc \/ pc' \in {"raised", "done"}
        /\ pc # "done"
    BY <1>10 DEF PollRaises, WriteResult, FailResult, Polling, Goto, Return, setupVars, sendVars
  <2>2. QED
    BY <1>c, <2>1 DEF Unstarted
<1>11. ASSUME NextPass PROVE Asking'
  <2>1. /\ pc = "wait" /\ UNCHANGED <<healthy, pc, attempt, asked, answer>>
        /\ stage' = [t \in Tasks |-> IF stage[t] = "kept" THEN "waiting" ELSE stage[t]]
    BY <1>11 DEF NextPass, setupVars, sendVars, endVars
  <2>2. \A t \in Tasks : stage[t] = "ended" => stage'[t] = "ended"
    BY <2>1
  <2>3. QED
    BY <2>1, <2>2 DEF GivenUpOnlyAfterAll, AskedInTurn, NodeFor, Elements, Unstarted
<1>12. ASSUME Cleanup PROVE Asking'
  <2>1. /\ pc = "wait" /\ pc' = "results" /\ UNCHANGED <<healthy, count, stage, attempt, asked, answer>>
    BY <1>12 DEF Cleanup, Goto, setupVars
  <2>2. QED
    BY <1>c, <2>1 DEF Unstarted
<1>13. ASSUME NEW t \in Tasks, NEW o \in 0 .. Len(healthy) - 1, Post(t, o) PROVE Asking'
  <2>1. /\ pc = "sequential" /\ pc' = "posting" /\ t \in At("unsent") /\ o \in Untried(t)
        /\ asked' = [asked EXCEPT ![t] = @ \cup {healthy[Candidate(o)]}]
        /\ attempt' = [attempt EXCEPT ![t] = @ + 1]
        /\ UNCHANGED <<healthy, count, stage, answer>>
    BY <1>13 DEF Post, Current, Goto, setupVars
  <2>2. /\ asked'[t] = asked[t] \cup {healthy[Candidate(o)]} /\ attempt'[t] = attempt[t] + 1
        /\ \A u \in Tasks \ {t} : asked'[u] = asked[u] /\ attempt'[u] = attempt[u]
    BY <1>a, <2>1 DEF TypeOK
  <2>3. healthy[Candidate(o)] \in Elements(healthy) \ asked[t]
    <3>1. healthy # <<>> /\ o \in Nat
      BY <1>a, <2>1 DEF AttemptsLeft, Loops, TypeOK
    <3>2. Candidate(o) \in 1 .. Len(healthy)
      BY <1>a, <3>1, CandidateType
    <3>3. QED
      BY <2>1, <3>2 DEF Elements, Untried
  <2>4. AskedOnce(t)'
    <3>1. asked[t] \subseteq Elements(healthy) /\ IsFiniteSet(asked[t]) /\ Cardinality(asked[t]) = attempt[t]
      BY <2>1 DEF AskedOnce
    <3>2. PICK x \in Elements(healthy) \ asked[t] : asked'[t] = asked[t] \cup {x}
      BY <2>2, <2>3
    <3>3. IsFiniteSet(asked[t] \cup {x}) /\ Cardinality(asked[t] \cup {x}) = Cardinality(asked[t]) + 1
      BY <3>1, <3>2, FS_AddElement
    <3>4. asked'[t] \subseteq Elements(healthy) /\ IsFiniteSet(asked'[t])
      BY <3>1, <3>2, <3>3
    <3>5. Cardinality(asked'[t]) = attempt'[t]
      <4>1. Cardinality(asked'[t]) = Cardinality(asked[t] \cup {x})
        BY <3>2
      <4>2. QED
        BY <2>2, <3>1, <3>3, <4>1
    <3>6. Elements(healthy)' = Elements(healthy)
      BY <2>1 DEF Elements
    <3>7. QED
      BY <3>4, <3>5, <3>6 DEF AskedOnce
  <2>5. \A u \in At("unsent") \ {t} : AskedOnce(u)'
    <3>1. At("unsent") \subseteq Tasks
      BY <1>a DEF At, TypeOK, Tasks
    <3>2. QED
      BY <2>1, <2>2, <3>1 DEF AskedOnce, Elements
  <2>6. At("unsent")' = At("unsent")
    BY <2>1 DEF At
  <2>7. answer[t] # "failed"
    BY <2>1 DEF At
  <2>8. GivenUpOnlyAfterAll'
    BY <2>1, <2>2, <2>7 DEF GivenUpOnlyAfterAll, Elements
  <2>9. QED
    BY <2>1, <2>4, <2>5, <2>6, <2>7, <2>8 DEF Unstarted
<1>14. ASSUME NEW t \in Tasks, PostAnswered(t) PROVE Asking'
  <2>1. /\ pc = "posting" /\ pc' = "sequential"
        /\ answer' = [answer EXCEPT ![t] = "object"] /\ stage' = [stage EXCEPT ![t] = "ended"]
        /\ UNCHANGED <<healthy, count, attempt, asked>>
    BY <1>14 DEF PostAnswered, Posting, Move, Goto, setupVars, sendVars
  <2>2. /\ stage'[t] = "ended" /\ answer'[t] = "object"
        /\ \A u \in Tasks \ {t} : stage'[u] = stage[u] /\ answer'[u] = answer[u]
    BY <1>a, <2>1 DEF TypeOK
  <2>3. At("unsent")' \subseteq At("unsent")
    <3>1. 1 .. count \subseteq Tasks /\ count' = count
      BY <1>a, <2>1 DEF TypeOK, Tasks
    <3>2. \A u \in Tasks : stage'[u] = "unsent" => stage[u] = "unsent"
      BY <2>2
    <3>3. QED
      BY <3>1, <3>2 DEF At
  <2>4. QED
    BY <2>1, <2>2, <2>3 DEF GivenUpOnlyAfterAll, AskedOnce, Elements, Unstarted
<1>15. ASSUME NEW t \in Tasks, PostFailed(t) \/ NoNodeLeft(t) PROVE Asking'
  <2>1. /\ t \in At("unsent") /\ pc \in {"posting", "sequential"}
        /\ UNCHANGED <<healthy, count, stage, attempt, asked>>
        /\ \/ pc' = "sequential" /\ answer' = answer
           \/ /\ pc' = "done" /\ answer' = [answer EXCEPT ![t] = "failed"]
              /\ ~MayRetry(t) \/ Untried(t) = {}
    <3>1. CASE PostFailed(t)
      BY <3>1 DEF PostFailed, Posting, Current, Goto, Return, setupVars, sendVars
    <3>2. CASE NoNodeLeft(t)
      BY <3>2 DEF NoNodeLeft, Current, Return, setupVars, sendVars
    <3>3. QED
      BY <1>15, <3>1, <3>2
  <2>2. AskedOnce(t) /\ healthy # <<>>
    BY <1>a, <2>1 DEF AttemptsLeft, Loops
  <2>3. ~MayRetry(t) \/ Untried(t) = {} => asked[t] = Elements(healthy)
    <3>1. CASE ~MayRetry(t)
      <4>1. attempt[t] >= Len(healthy)
        BY SMTT(30), <1>a, <3>1 DEF MayRetry, TypeOK
      <4>2. QED
        BY <1>a, <2>2, <4>1, NamesCover
    <3>2. CASE Untried(t) = {}
      BY <1>a, <2>2, <3>2, CandidatesCover DEF AskedOnce
    <3>3. QED
      BY <3>1, <3>2
  <2>4. \A u \in Tasks \ {t} : answer'[u] = answer[u]
    BY <1>a, <2>1 DEF TypeOK
  <2>5. answer[t] # "failed"
    BY <2>1 DEF At
  <2>6. GivenUpOnlyAfterAll'
    BY <2>1, <2>3, <2>4 DEF GivenUpOnlyAfterAll, Elements
  <2>7. QED
    BY <2>1, <2>4, <2>5, <2>6 DEF AskedOnce, Elements, At, Unstarted
<1>16. ASSUME NEW i \in Ids, CurlExits(i) PROVE Asking'
  BY <1>c, <1>16 DEF CurlExits, setupVars, endVars
<1>17. CASE UNCHANGED vars
  BY <1>c, <1>17 DEF vars, setupVars, sendVars, endVars
<1>18. QED
  BY <1>1, <1>2, <1>3, <1>4, <1>5, <1>6, <1>7, <1>8, <1>9, <1>10, <1>11, <1>12, <1>13,
     <1>14, <1>15, <1>16, <1>17 DEF Next, Spkg, Internal, HearsOf

\* While SIGCHLD has its default disposition the inductive invariant holds.
THEOREM InductiveInvariant == ASSUME ~SigChldIgnored PROVE Spec => []IInv
<1>1. Init => IInv
  BY InitTInv, InitCore, InitAsking DEF IInv
<1>2. IInv /\ [Next]_vars => IInv'
  BY TInvStep, CoreStep, AskingStep DEF IInv
<1>3. QED
  BY <1>1, <1>2, PTL DEF Spec

\* A task and its curl own each other, over any number of retries: no task is
\* answered by another one's curl, none has two, no curl is forgotten.
THEOREM OwnershipHolds == ASSUME ~SigChldIgnored PROVE Spec => []CurlOwnership
<1>1. IInv => CurlOwnership
  BY DEF IInv, Core
<1>2. QED
  BY <1>1, InductiveInvariant, PTL

\* The coordinator believes of a request what the server answered: no object
\* is passed over, and none is made up from an earlier attempt's file.
THEOREM AnswersAreTrueHolds == ASSUME ~SigChldIgnored PROVE Spec => []AnswersAreTrue
<1>1. IInv => AnswersAreTrue
  <2>1. SUFFICES ASSUME IInv, pc = "wait", NEW t \in At("retry") \cup At("ended")
                 PROVE  answer[t] = "object" <=> \E k \in 1 .. Len(resp[t]) : resp[t][k] = "object"
    BY DEF AnswersAreTrue
  <2>2. t \in Tasks
    BY <2>1 DEF IInv, TInv, TypeOK, At, Tasks
  <2>3. QED
    BY <2>1, <2>2 DEF IInv, Core, FilesOfTask, Results, NoObject, At
<1>2. QED
  BY <1>1, InductiveInvariant, PTL

\* A task is given up only after every healthy server has been asked, in any
\* list of any length, with curl and without.
THEOREM GivenUpHolds == ASSUME ~SigChldIgnored PROVE Spec => []GivenUpOnlyAfterAll
<1>1. IInv => GivenUpOnlyAfterAll
  BY DEF IInv, Asking
<1>2. QED
  BY <1>1, InductiveInvariant, PTL

\* A distributed build that reports success has an object for every task, and
\* has written it.
THEOREM SuccessHolds == ASSUME ~SigChldIgnored PROVE Spec => []SuccessIsComplete
<1>1. IInv => SuccessIsComplete
  BY DEF IInv, Core
<1>2. QED
  BY <1>1, InductiveInvariant, PTL

\* No curl runs and no temporary file is left when the results are looked at,
\* and on every return, error returns included.
THEOREM ReturnIsClean == ASSUME ~SigChldIgnored PROVE Spec => []NothingLeftBehind
<1>1. IInv => NothingLeftBehind
  <2>1. SUFFICES ASSUME IInv, pc \in {"results", "link", "done"}
                 PROVE  FreeIds = Ids /\ \A t \in Tasks : resp[t] = <<>>
    BY DEF NothingLeftBehind
  <2>2. pc \notin Parallel
    BY <2>1 DEF Parallel
  <2>3. Sent = {}
    <3>1. 1 .. count \subseteq Tasks
      BY <2>1 DEF IInv, TInv, TypeOK, Tasks
    <3>2. \A t \in Tasks : stage[t] \in {"unsent", "ended"}
      BY <2>1, <2>2 DEF IInv, Core, StagesOfLoop
    <3>3. QED
      BY <3>1, <3>2 DEF Sent
  <2>4. QED
    BY <2>1, <2>2, <2>3 DEF IInv, Core, CurlOwnership, FilesOfTask, FreeIds
<1>2. QED
  BY <1>1, InductiveInvariant, PTL

------------------------------------------------------------------------------
(* How far execute_distributed is from its return, whatever the servers do.   *)
(* Each attempt takes a task further, a retry included, and there are as many *)
(* attempts as healthy servers; a curl that ended stays ended.                *)

Levels ==
    [t \in Tasks |-> IF stage[t] = "ended" THEN 2 * Len(healthy) + 1
                     ELSE IF stage[t] = "retry" THEN 2 * attempt[t] + 1
                     ELSE 2 * attempt[t]]
AheadOfTasks == Cardinality(Ahead(Tasks, 2 * Len(healthy) + 1, Levels))
Alive == {i \in Ids : child[i] = "running"}

Phase(p) ==
    CASE p = "start" -> 7 [] p = "health" -> 6 [] p = "collect" -> 5
      [] p \in {"submit", "sequential", "posting"} -> 4 [] p = "wait" -> 3
      [] p = "results" -> 2 [] p = "link" -> 1 [] p \in {"local", "raised", "done"} -> 0
WorkLeft ==
    CASE pc = "health"  -> Len(nodes) - checked
      [] pc = "submit"  -> Cardinality(At("unsent"))
      [] pc \in {"wait", "sequential", "posting"} -> AheadOfTasks
      [] pc = "results" -> Cardinality((1 .. count) \ recorded)
      [] OTHER          -> 0
Turn ==
    CASE pc = "wait"    -> Cardinality(At("waiting"))
      [] pc = "posting" -> 1
      [] OTHER          -> 0
Rank == <<Phase(pc), WorkLeft, Cardinality(Alive), Turn>>

LEMMA FiniteWork ==
  ASSUME TypeOK
  PROVE  /\ IsFiniteSet(Tasks) /\ AheadOfTasks \in Nat
         /\ \A s \in Stages : IsFiniteSet(At(s)) /\ Cardinality(At(s)) \in Nat
         /\ IsFiniteSet(Alive) /\ Cardinality(Alive) \in Nat
         /\ IsFiniteSet((1 .. count) \ recorded) /\ Cardinality((1 .. count) \ recorded) \in Nat
<1>1. IsFiniteSet(Tasks) /\ IsFiniteSet(Ids) /\ IsFiniteSet(1 .. count)
  BY FS_Interval DEF Tasks, Ids, TypeOK
<1>2. Len(healthy) \in Nat
  BY DEF TypeOK
<1>3. AheadOfTasks \in Nat
  BY <1>1, <1>2, AheadIsFinite DEF AheadOfTasks
<1>4. /\ \A s \in Stages : IsFiniteSet(At(s))
      /\ IsFiniteSet(Alive) /\ IsFiniteSet((1 .. count) \ recorded)
  BY <1>1, FS_Subset DEF At, Alive
<1>5. QED
  BY <1>1, <1>3, <1>4, FS_CardinalityType

LEMMA RankType == ASSUME TypeOK PROVE Rank \in RankSet
<1>1. Phase(pc) \in Nat
  BY DEF Phase, TypeOK, PCs
<1>2. WorkLeft \in Nat
  <2>1. Len(nodes) - checked \in Nat
    BY DEF TypeOK
  <2>2. Cardinality(At("unsent")) \in Nat
    BY FiniteWork DEF Stages
  <2>3. QED
    BY <2>1, <2>2, FiniteWork DEF WorkLeft
<1>3. Turn \in Nat
  <2>1. Cardinality(At("waiting")) \in Nat
    BY FiniteWork DEF Stages
  <2>2. QED
    BY <2>1 DEF Turn
<1>4. QED
  BY <1>1, <1>2, <1>3, FiniteWork DEF Rank, RankSet

LEMMA PhaseLowers ==
  ASSUME Phase(pc') < Phase(pc)
  PROVE  Lower(Rank', Rank)
BY DEF Rank, Lower

LEMMA WorkLowers ==
  ASSUME Phase(pc') = Phase(pc), WorkLeft' < WorkLeft
  PROVE  Lower(Rank', Rank)
BY DEF Rank, Lower

\* A task makes another attempt, or ends.
LEMMA TaskLowers ==
  ASSUME TypeOK, TypeOK', UNCHANGED healthy, NEW t \in Tasks,
         pc \in {"wait", "sequential", "posting"}, pc' \in {"wait", "sequential", "posting"},
         Phase(pc') = Phase(pc), Levels[t] < Levels'[t],
         \A u \in Tasks : u # t => stage'[u] = stage[u] /\ attempt'[u] = attempt[u]
  PROVE  Lower(Rank', Rank)
<1> DEFINE L == 2 * Len(healthy) + 1
<1>1. Len(healthy) \in Nat /\ L \in Nat
  <2>1. healthy \in Seq(Nodes)
    BY Zenon DEF TypeOK
  <2>2. QED
    BY <2>1
<1>2. Levels \in [Tasks -> 0 .. L] /\ Levels' \in [Tasks -> 0 .. L]
  <2>a. /\ attempt \in [Tasks -> 0 .. Len(healthy)]
        /\ attempt' \in [Tasks -> 0 .. Len(healthy)]
    BY Zenon DEF TypeOK
  <2>1. \A u \in Tasks : attempt[u] \in 0 .. Len(healthy) /\ attempt'[u] \in 0 .. Len(healthy)
    BY <2>a
  <2>2. \A k \in 0 .. Len(healthy) : 2 * k \in 0 .. L /\ 2 * k + 1 \in 0 .. L
    BY <1>1
  <2>3. L \in 0 .. L /\ L = 2 * Len(healthy) + 1 /\ L = 2 * Len(healthy') + 1
    BY <1>1
  <2> HIDE DEF L
  <2>4. /\ Levels = [u \in Tasks |-> IF stage[u] = "ended" THEN L
                                     ELSE IF stage[u] = "retry" THEN 2 * attempt[u] + 1
                                     ELSE 2 * attempt[u]]
        /\ Levels' = [u \in Tasks |-> IF stage'[u] = "ended" THEN L
                                      ELSE IF stage'[u] = "retry" THEN 2 * attempt'[u] + 1
                                      ELSE 2 * attempt'[u]]
    BY <2>3 DEF Levels
  <2>5. QED
    BY <2>1, <2>2, <2>3, <2>4
<1>3. \A u \in Tasks : u # t => Levels'[u] = Levels[u]
  BY DEF Levels
<1>4. \A u \in Tasks : Levels[u] <= Levels'[u]
  BY <1>2, <1>3
<1> HIDE DEF L
<1>5. Cardinality(Ahead(Tasks, L, Levels')) < Cardinality(Ahead(Tasks, L, Levels))
  BY <1>1, <1>2, <1>4, FiniteWork, Advance
<1>6. WorkLeft = Cardinality(Ahead(Tasks, L, Levels)) /\ WorkLeft' = Cardinality(Ahead(Tasks, L, Levels'))
  BY DEF WorkLeft, AheadOfTasks, L
<1>7. QED
  BY <1>5, <1>6, WorkLowers

LEMMA SubmitLowers ==
  ASSUME TypeOK, NEW t \in Tasks, Submit(t)
  PROVE  Lower(Rank', Rank)
<1>1. At("unsent")' \subseteq At("unsent") /\ t \in At("unsent") \ At("unsent")'
  BY DEF Submit, Move, At, TypeOK, setupVars
<1>2. Cardinality(At("unsent")') < Cardinality(At("unsent"))
  BY <1>1, FiniteWork, Fewer DEF Stages
<1>3. pc = "submit" /\ pc' = "submit"
  BY DEF Submit
<1>4. QED
  BY <1>2, <1>3, WorkLowers DEF WorkLeft

LEMMA AttemptLowers ==
  ASSUME TypeOK, TypeOK', NEW t \in Tasks,
         \/ PollAnswered(t) \/ PollFailed(t) \/ Retry(t) \/ PostAnswered(t)
         \/ \E o \in 0 .. Len(healthy) - 1 : Post(t, o)
  PROVE  Lower(Rank', Rank)
<1>1. UNCHANGED healthy
  BY DEF PollAnswered, PollFailed, Retry, PostAnswered, Post, setupVars
<1>2. attempt[t] \in Nat /\ attempt[t] <= Len(healthy) /\ Len(healthy) \in Nat
  BY DEF TypeOK
<1>3. CASE PollAnswered(t) \/ PollFailed(t)
  <2>1. /\ pc = "wait" /\ pc' = "wait" /\ UNCHANGED attempt /\ stage[t] = "waiting"
        /\ Move(t, "ended") \/ Move(t, "retry")
    BY <1>3 DEF PollAnswered, PollFailed, Polling, At, sendVars
  <2>2. stage'[t] \in {"ended", "retry"} /\ \A u \in Tasks : u # t => stage'[u] = stage[u]
    BY <2>1 DEF Move, TypeOK
  <2>3. Levels[t] < Levels'[t]
    BY <1>1, <1>2, <2>1, <2>2 DEF Levels
  <2>4. QED
    BY <1>1, <2>1, <2>2, <2>3, TaskLowers
<1>4. CASE Retry(t)
  <2>1. /\ pc = "wait" /\ pc' = "wait" /\ stage[t] = "retry" /\ Move(t, "kept")
        /\ attempt' = [attempt EXCEPT ![t] = attempt[t] + 1]
    BY <1>4 DEF Retry, Send, At
  <2>2. /\ stage'[t] = "kept" /\ attempt'[t] = attempt[t] + 1
        /\ \A u \in Tasks : u # t => stage'[u] = stage[u] /\ attempt'[u] = attempt[u]
    BY <2>1 DEF Move, TypeOK
  <2>3. Levels[t] < Levels'[t]
    BY <1>1, <1>2, <2>1, <2>2 DEF Levels
  <2>4. QED
    BY <1>1, <2>1, <2>2, <2>3, TaskLowers
<1>5. CASE PostAnswered(t)
  <2>1. /\ pc = "posting" /\ pc' = "sequential" /\ UNCHANGED attempt
        /\ stage[t] = "unsent" /\ Move(t, "ended")
    BY <1>5 DEF PostAnswered, Posting, Current, At, Goto, sendVars
  <2>2. stage'[t] = "ended" /\ \A u \in Tasks : u # t => stage'[u] = stage[u]
    BY <2>1 DEF Move, TypeOK
  <2>3. Levels[t] < Levels'[t]
    BY <1>1, <1>2, <2>1, <2>2 DEF Levels
  <2>4. QED
    BY <1>1, <2>1, <2>2, <2>3, TaskLowers DEF Phase
<1>6. CASE \E o \in 0 .. Len(healthy) - 1 : Post(t, o)
  <2>1. /\ pc = "sequential" /\ pc' = "posting" /\ stage[t] = "unsent" /\ UNCHANGED stage
        /\ attempt' = [attempt EXCEPT ![t] = @ + 1]
    BY <1>6 DEF Post, Current, At, Goto
  <2>2. /\ attempt'[t] = attempt[t] + 1
        /\ \A u \in Tasks : u # t => attempt'[u] = attempt[u]
    BY <2>1 DEF TypeOK
  <2>3. Levels[t] < Levels'[t]
    BY <1>1, <1>2, <2>1, <2>2 DEF Levels
  <2>4. QED
    BY <1>1, <2>1, <2>2, <2>3, TaskLowers DEF Phase
<1>7. QED
  BY <1>3, <1>4, <1>5, <1>6

\* Steps that change neither a task nor a child.
LEMMA SmallStepLowers ==
  ASSUME TypeOK, TypeOK',
         \/ \E ok \in BOOLEAN : CheckHealth(ok)
         \/ \E t \in Tasks : WriteResult(t) \/ (PostFailed(t) /\ pc' = "sequential")
  PROVE  Lower(Rank', Rank)
<1>1. CASE \E ok \in BOOLEAN : CheckHealth(ok)
  <2>1. /\ pc = "health" /\ pc' = "health" /\ UNCHANGED nodes
        /\ checked < Len(nodes) /\ checked' = checked + 1
    BY <1>1 DEF CheckHealth
  <2>2. WorkLeft' < WorkLeft
    BY <2>1 DEF WorkLeft, TypeOK
  <2>3. QED
    BY <2>1, <2>2, WorkLowers
<1>2. CASE \E t \in Tasks : WriteResult(t)
  <2>1. PICK t \in (1 .. count) \ recorded :
          pc = "results" /\ pc' = "results" /\ recorded' = recorded \cup {t} /\ count' = count
    BY <1>2 DEF WriteResult, setupVars
  <2>2. /\ (1 .. count') \ recorded' \subseteq (1 .. count) \ recorded
        /\ t \notin (1 .. count') \ recorded'
    BY <2>1
  <2>3. Cardinality((1 .. count') \ recorded') < Cardinality((1 .. count) \ recorded)
    BY <2>1, <2>2, FiniteWork, Fewer
  <2>4. QED
    BY <2>1, <2>3, WorkLowers DEF WorkLeft
<1>3. CASE \E t \in Tasks : PostFailed(t) /\ pc' = "sequential"
  <2>1. pc = "posting" /\ pc' = "sequential" /\ UNCHANGED <<child, stage, attempt, healthy>>
    BY <1>3 DEF PostFailed, Posting, tableVars, setupVars, sendVars
  <2>2. Levels' = Levels /\ Alive' = Alive
    BY <2>1 DEF Levels, Alive
  <2>3. Phase(pc') = Phase(pc) /\ WorkLeft' = WorkLeft
    BY <2>1, <2>2 DEF Phase, WorkLeft, AheadOfTasks
  <2>4. Turn = 1 /\ Turn' = 0
    BY <2>1 DEF Turn
  <2>5. QED
    BY <2>2, <2>3, <2>4 DEF Rank, Lower
<1>4. QED
  BY <1>1, <1>2, <1>3

LEMMA PollNilLowers ==
  ASSUME TypeOK, NEW t \in Tasks, PollNil(t)
  PROVE  Lower(Rank', Rank)
<1>1. /\ pc = "wait" /\ pc' = "wait" /\ stage[t] = "waiting" /\ t \in 1 .. count
      /\ UNCHANGED <<attempt, healthy, count>>
  BY DEF PollNil, Polling, At, setupVars, sendVars
<1>2. \A u \in Tasks : stage'[u] = IF u = t THEN "kept" ELSE stage[u]
  BY DEF PollNil, Move, TypeOK
<1>3. Levels' = Levels
  BY <1>1, <1>2 DEF Levels
<1>4. Alive' = Alive
  BY DEF PollNil, WaitReturnsNil, WaitFails, FreeSlot, InUse, FreeIds, Exits, Alive,
     tableVars, TypeOK, TableTypeOK
<1>5. At("waiting")' \subseteq At("waiting") /\ t \in At("waiting") \ At("waiting")'
  <2>1. 1 .. count \subseteq Tasks
    BY DEF TypeOK, Tasks
  <2>2. QED
    BY <1>1, <1>2, <2>1 DEF At
<1>6. Cardinality(At("waiting")') < Cardinality(At("waiting"))
  BY <1>5, FiniteWork, Fewer DEF Stages
<1>7. WorkLeft' = WorkLeft /\ Turn' < Turn
  BY <1>1, <1>3, <1>6 DEF WorkLeft, AheadOfTasks, Turn
<1>8. QED
  BY <1>1, <1>4, <1>7 DEF Rank, Lower

LEMMA CurlLowers ==
  ASSUME TypeOK, NEW i \in Ids, CurlExits(i)
  PROVE  Lower(Rank', Rank)
<1>1. UNCHANGED <<pc, nodes, checked, healthy, count, stage, attempt, recorded>>
  BY DEF CurlExits, setupVars, endVars
<1>2. Alive' \subseteq Alive /\ i \in Alive \ Alive'
  BY DEF CurlExits, Reply, ChildExits, Alive, TypeOK, TableTypeOK
<1>3. Cardinality(Alive') < Cardinality(Alive)
  BY <1>2, FiniteWork, Fewer
<1>4. Levels' = Levels /\ At("unsent")' = At("unsent") /\ At("waiting")' = At("waiting")
  BY <1>1 DEF Levels, At
<1>5. WorkLeft' = WorkLeft /\ Turn' = Turn
  BY <1>1, <1>4 DEF WorkLeft, AheadOfTasks, Turn
<1>6. QED
  BY <1>1, <1>3, <1>5 DEF Rank, Lower

LEMMA PassKeeps ==
  ASSUME TypeOK, NextPass
  PROVE  \A k \in 1 .. 3 : Rank'[k] = Rank[k]
<1>1. pc = "wait" /\ UNCHANGED <<pc, child, healthy, attempt>>
  BY DEF NextPass, tableVars, setupVars, sendVars
<1>2. \A t \in Tasks : stage'[t] = IF stage[t] = "kept" THEN "waiting" ELSE stage[t]
  BY DEF NextPass
<1>3. Levels' = Levels /\ Alive' = Alive
  BY <1>1, <1>2 DEF Levels, Alive
<1>4. WorkLeft' = WorkLeft
  BY <1>1, <1>3 DEF WorkLeft, AheadOfTasks
<1>5. QED
  BY <1>1, <1>3, <1>4 DEF Rank

\* The steps from one part of execute_distributed to the next.
LEMMA PartLowers ==
  ASSUME \/ Unconfigured \/ ConfigFails \/ Configured \/ HealthDone \/ CollectFails
         \/ \E n \in 0 .. MaxTasks : Collect(n)
         \/ SubmitDone \/ Cleanup \/ ResultsDone \/ SequentialDone \/ Link
         \/ \E t \in Tasks : \/ PollRaises(t) \/ FailResult(t) \/ NoNodeLeft(t)
                             \/ PostFailed(t) /\ pc' # "sequential"
  PROVE  Lower(Rank', Rank)
<1>1. \/ pc = "start" /\ pc' \in {"local", "done", "raised", "health"}
      \/ pc = "health" /\ pc' \in {"local", "collect"}
      \/ pc = "collect" /\ pc' \in {"link", "submit", "sequential", "done"}
      \/ pc = "submit" /\ pc' = "wait"
      \/ pc = "wait" /\ pc' \in {"results", "raised"}
      \/ pc = "results" /\ pc' \in {"link", "done"}
      \/ pc \in {"sequential", "posting"} /\ pc' \in {"link", "done"}
      \/ pc = "link" /\ pc' = "done"
  <2>1. CASE Unconfigured \/ ConfigFails \/ Configured \/ HealthDone \/ CollectFails
    BY <2>1 DEF Unconfigured, ConfigFails, Configured, HealthDone, CollectFails, Goto, Return
  <2>2. CASE \E n \in 0 .. MaxTasks : Collect(n)
    BY <2>2 DEF Collect, Goto
  <2>3. CASE SubmitDone \/ Cleanup \/ ResultsDone \/ SequentialDone \/ Link
    BY <2>3 DEF SubmitDone, Cleanup, ResultsDone, SequentialDone, Link, Goto, Return
  <2>4. CASE \E t \in Tasks : \/ PollRaises(t) \/ FailResult(t) \/ NoNodeLeft(t)
                              \/ PostFailed(t) /\ pc' # "sequential"
    BY <2>4 DEF PollRaises, Polling, FailResult, NoNodeLeft, PostFailed, Posting, Goto, Return
  <2>5. QED
    BY <2>1, <2>2, <2>3, <2>4
<1>2. Phase(pc') < Phase(pc)
  BY <1>1 DEF Phase
<1>3. QED
  BY <1>2, PhaseLowers

LEMMA StepLowers ==
  ASSUME TypeOK, TypeOK', Next, ~NextPass
  PROVE  Lower(Rank', Rank)
<1>1. CASE \E i \in Ids : CurlExits(i)
  BY <1>1, CurlLowers
<1>2. CASE \E ok \in BOOLEAN : CheckHealth(ok)
  BY <1>2, SmallStepLowers
<1>3. CASE \E t \in Tasks : HearsOf(t)
  BY <1>3, AttemptLowers, SmallStepLowers, PartLowers DEF HearsOf
<1>4. CASE Internal
  BY <1>4, SubmitLowers, AttemptLowers, PollNilLowers, SmallStepLowers, PartLowers DEF Internal
<1>5. QED
  BY <1>1, <1>2, <1>3, <1>4 DEF Next, Spkg

\* execute_distributed does not go round for ever by itself, whatever the servers
\* answer: all that it and the curls do brings it closer to its return, retries and
\* the Lua errors included, save for another pass over curls that run.
THEOREM OnlyPassesRepeat ==
  Spec => /\ [](Rank \in RankSet)
          /\ [][IF NextPass THEN \A k \in 1 .. 3 : Rank'[k] = Rank[k]
                            ELSE Lower(Rank', Rank)]_vars
<1>1. TypeOK /\ TypeOK' /\ [Next]_vars =>
        [IF NextPass THEN \A k \in 1 .. 3 : Rank'[k] = Rank[k] ELSE Lower(Rank', Rank)]_vars
  BY StepLowers, PassKeeps
<1>2. QED
  BY <1>1, RankType, TypeCorrect, PTL DEF Spec
==============================================================================
