-------------------------- MODULE DistributedCompile --------------------------
(***************************************************************************)
(* execute_distributed (spkg_build.lua): the coordinator of a distributed  *)
(* build.  It drops the compile servers that do not answer /health, sends  *)
(* every out-of-date source to one of the others, tries the next server    *)
(* when a request fails, writes the objects it was sent and links.         *)
(*                                                                         *)
(* With curl installed all requests are curl processes in the table of     *)
(* AsyncCommands, one per task at a time, each with its own file for the   *)
(* response (_distribute_parallel); otherwise they are blocking http_post  *)
(* calls, one task after the other.  The network and the servers appear as *)
(* the way a request may end: with an object, with an error reply, or with *)
(* neither (refused, reset, timed out, dropped by the server).             *)
(*                                                                         *)
(* As in ParallelCompile the list "pending" is a set.  A task is its index *)
(* in all_tasks, which the choice of the server depends on.                *)
(***************************************************************************)
EXTENDS AsyncCommands, Sequences, FiniteSets

CONSTANTS MaxTasks,  \* the most tasks a build may have
          Nodes,     \* compile servers
          NodeLists, \* the lists parse_nodes may return (duplicates are kept)
          Customs    \* may config.spkg declare custom steps? a set of BOOLEANs

ASSUME DistributedAssumption ==
    /\ MaxTasks \in Nat /\ Cmds = 1 .. MaxTasks
    /\ NodeLists \subseteq Seq(Nodes)
    /\ Customs \subseteq BOOLEAN

Tasks == Cmds

VARIABLES nodes,    \* SPKG_NODES, or spkg_nodes.json
          customs,  \* #b._custom_steps > 0
          pc,       \* which part of execute_distributed is executing
          checked,  \* how many nodes were sent /health
          healthy,  \* those that answered
          count,    \* #all_tasks
          stage,    \* [Tasks -> Stages]: where the task's entry is
          idOf,     \* [Tasks -> task id]: p.handle, 0 for nil
          attempt,  \* [Tasks -> Nat]: p.attempt, attempt
          resp,     \* [Tasks -> Seq(Contents)]: the response file of each attempt
          outFile,  \* [Tasks -> Nat]: p.out_file, an index of resp[t]
          node,     \* [Tasks -> Nat]: p.node, try_idx, as its index in healthy
          asked,    \* [Tasks -> SUBSET Nodes]: tried; in parallel mode a history
          nodeIdx,  \* node_idx, the node the last success came from
          answer,   \* [Tasks -> Answers]: results, task_ok
          recorded, \* tasks whose .o, .o.fp, .d and cache entry were written
          result    \* the value returned

setupVars == <<nodes, customs, checked, healthy, count>>
sendVars == <<idOf, attempt, resp, outFile, node, asked>>
endVars == <<nodeIdx, answer, recorded, result>>
vars == <<tableVars, setupVars, pc, stage, sendVars, endVars>>

PCs == {"start", "health", "collect", "submit", "wait", "results",
        "sequential", "posting", "link", "local", "raised", "done"}
Stages == {"unsent", "waiting", "kept", "retry", "ended"}
Contents == {"none", "object", "error"}
Answers == {"none", "object", "failed"}

TypeOK == /\ TableTypeOK
          /\ nodes \in NodeLists /\ customs \in Customs
          /\ pc \in PCs
          /\ checked \in 0 .. Len(nodes)
          /\ healthy \in Seq(Nodes) /\ Len(healthy) <= checked
          /\ count \in 0 .. MaxTasks
          /\ stage \in [Tasks -> Stages]
          /\ idOf \in [Tasks -> Ids \cup {0}]
          /\ attempt \in [Tasks -> 0 .. Len(healthy)]
          /\ resp \in [Tasks -> Seq(Contents)]
          /\ outFile \in [Tasks -> Nat]
          /\ node \in [Tasks -> 0 .. Len(healthy)]
          /\ asked \in [Tasks -> SUBSET Nodes]
          /\ nodeIdx \in 0 .. Len(healthy)
          /\ answer \in [Tasks -> Answers]
          /\ recorded \subseteq Tasks
          /\ result \in BOOLEAN

At(s) == {t \in 1 .. count : stage[t] = s}
Move(t, s) == stage' = [stage EXCEPT ![t] = s]
Goto(p) == pc' = p /\ UNCHANGED result
Return(r) == pc' = "done" /\ result' = r
Elements(s) == {s[i] : i \in 1 .. Len(s)}

Init == /\ TableInit
        /\ nodes \in NodeLists /\ customs \in Customs
        /\ pc = "start" /\ checked = 0 /\ healthy = <<>> /\ count = 0
        /\ stage = [t \in Tasks |-> "unsent"]
        /\ idOf = [t \in Tasks |-> 0]
        /\ attempt = [t \in Tasks |-> 0]
        /\ resp = [t \in Tasks |-> <<>>]
        /\ outFile = [t \in Tasks |-> 0]
        /\ node = [t \in Tasks |-> 0]
        /\ asked = [t \in Tasks |-> {}]
        /\ nodeIdx = 0 /\ answer = [t \in Tasks |-> "none"]
        /\ recorded = {} /\ result = FALSE

(***************************************************************************)
(* Configuration, custom steps and the health checks.                      *)
(***************************************************************************)
\* Without nodes the build is _do_build's (IncrementalBuild).
Unconfigured == /\ pc = "start" /\ nodes = <<>>
                /\ Goto("local")
                /\ UNCHANGED <<tableVars, setupVars, stage, sendVars, nodeIdx, answer, recorded>>

\* config.spkg or a dependency's configuration fails, or a fetch does.
ConfigFails == /\ pc = "start" /\ nodes # <<>>
               /\ Return(FALSE)
               /\ UNCHANGED <<tableVars, setupVars, stage, sendVars, nodeIdx, answer, recorded>>

\* execute_custom_steps is a local function declared further down in the file:
\* here the name is an undefined global, and calling it is a Lua error.
Configured == /\ pc = "start" /\ nodes # <<>>
              /\ Goto(IF customs THEN "raised" ELSE "health")
              /\ UNCHANGED <<tableVars, setupVars, stage, sendVars, nodeIdx, answer, recorded>>

CheckHealth(ok) == /\ pc = "health" /\ checked < Len(nodes)
                   /\ checked' = checked + 1
                   /\ healthy' = IF ok THEN Append(healthy, nodes[checked + 1]) ELSE healthy
                   /\ UNCHANGED <<tableVars, nodes, customs, pc, count, stage, sendVars, endVars>>

HealthDone == /\ pc = "health" /\ checked = Len(nodes)
              /\ Goto(IF healthy = <<>> THEN "local" ELSE "collect")
              /\ UNCHANGED <<tableVars, setupVars, stage, sendVars, nodeIdx, answer, recorded>>

\* needs_compile picks the tasks; their sources and headers are read.
Collect(n) == /\ pc = "collect"
              /\ count' = n
              /\ IF n = 0 THEN Goto("link") ELSE \E p \in {"submit", "sequential"} : Goto(p)
              /\ UNCHANGED <<tableVars, nodes, customs, checked, healthy, stage, sendVars,
                             nodeIdx, answer, recorded>>

\* A source cannot be read.
CollectFails == /\ pc = "collect"
                /\ Return(FALSE)
                /\ UNCHANGED <<tableVars, setupVars, stage, sendVars, nodeIdx, answer, recorded>>

(***************************************************************************)
(* _distribute_parallel.                                                   *)
(***************************************************************************)
MutNodeFor(t, k) == ((t - 1) % Len(healthy)) + 1  \* the same node again
NodeFor(t, k) == ((t + k - 2) % Len(healthy)) + 1

MutNewFile(t) == 1  \* a retry keeps p.out_file
NewFile(t) == Len(resp[t]) + 1

MutNewHandle(t, i) == IF idOf[t] = 0 THEN i ELSE idOf[t]  \* ... keeps p.handle
NewHandle(t, i) == i

\* Start the curl of the k-th attempt; the handle is nil if that fails.
Send(t, k) == /\ attempt' = [attempt EXCEPT ![t] = k]
              /\ resp' = [resp EXCEPT ![t] = Append(@, "none")]
              /\ outFile' = [outFile EXCEPT ![t] = NewFile(t)]
              /\ node' = [node EXCEPT ![t] = NodeFor(t, k)]
              /\ asked' = [asked EXCEPT ![t] = @ \cup {healthy[NodeFor(t, k)]}]
              /\ \/ \E i \in Ids : StartCmd(t, i) /\ idOf' = [idOf EXCEPT ![t] = NewHandle(t, i)]
                 \/ StartCmdFails /\ idOf' = [idOf EXCEPT ![t] = 0]

Submit(t) == /\ pc = "submit"
             /\ t \in At("unsent") /\ \A u \in At("unsent") : t <= u
             /\ Send(t, 1)
             /\ Move(t, "waiting")
             /\ UNCHANGED <<setupVars, pc, endVars>>

SubmitDone == /\ pc = "submit" /\ At("unsent") = {}
              /\ Goto("wait")
              /\ UNCHANGED <<tableVars, setupVars, stage, sendVars, nodeIdx, answer, recorded>>

\* One call of wait_task in a pass over "pending"; a failed attempt is sent to
\* the next node (Retry) before the pass goes on.
Polling(t) == pc = "wait" /\ t \in At("waiting") /\ At("retry") = {}

MutMayRetry(t) == attempt[t] <= Len(healthy)  \* one attempt too many
MayRetry(t) == attempt[t] < Len(healthy)

Answered(t, r) == r = "ok" /\ resp[t][outFile[t]] = "object"

PollAnswered(t) == /\ Polling(t)
                   /\ \E r \in Exits : WaitReturns(idOf[t], r) /\ Answered(t, r)
                   /\ answer' = [answer EXCEPT ![t] = "object"]
                   /\ Move(t, "ended")
                   /\ UNCHANGED <<setupVars, pc, sendVars, nodeIdx, recorded, result>>

PollFailed(t) == /\ Polling(t)
                 /\ \E r \in Exits : WaitReturns(idOf[t], r) /\ ~Answered(t, r)
                 /\ IF MayRetry(t)
                    THEN Move(t, "retry") /\ UNCHANGED answer
                    ELSE Move(t, "ended") /\ answer' = [answer EXCEPT ![t] = "failed"]
                 /\ UNCHANGED <<setupVars, pc, sendVars, nodeIdx, recorded, result>>

PollNil(t) == /\ Polling(t) /\ idOf[t] # 0
              /\ WaitReturnsNil(idOf[t])
              /\ Move(t, "kept")
              /\ UNCHANGED <<setupVars, pc, sendVars, endVars>>

\* wait_task(nil) is a Lua error: its argument must be an integer.
PollRaises(t) == /\ Polling(t) /\ idOf[t] = 0
                 /\ Goto("raised")
                 /\ UNCHANGED <<tableVars, setupVars, stage, sendVars, nodeIdx, answer, recorded>>

Retry(t) == /\ pc = "wait" /\ t \in At("retry")
            /\ Send(t, attempt[t] + 1)
            /\ Move(t, "kept")
            /\ UNCHANGED <<setupVars, pc, endVars>>

NextPass == /\ pc = "wait" /\ At("waiting") \cup At("retry") = {} /\ At("kept") # {}
            /\ stage' = [t \in Tasks |-> IF stage[t] = "kept" THEN "waiting" ELSE stage[t]]
            /\ UNCHANGED <<tableVars, setupVars, pc, sendVars, endVars>>

\* Every task has its result: the temporary files are removed.
MutNoneLeft == At("waiting") \cup At("retry") = {}  \* still_pending forgotten
NoneLeft == At("waiting") \cup At("retry") \cup At("kept") = {}

Cleanup == /\ pc = "wait" /\ NoneLeft
           /\ resp' = [t \in Tasks |-> <<>>]
           /\ Goto("results")
           /\ UNCHANGED <<tableVars, setupVars, stage, idOf, attempt, outFile, node, asked,
                          nodeIdx, answer, recorded>>

\* The loop over results visits them in the order pairs() happens to choose.
WriteResult(t) == /\ pc = "results" /\ t \in (1 .. count) \ recorded
                  /\ answer[t] = "object"
                  /\ recorded' = recorded \cup {t}
                  /\ UNCHANGED <<tableVars, setupVars, pc, stage, sendVars, nodeIdx, answer, result>>

\* The first failure met ends the build; objects not yet visited are lost.
FailResult(t) == /\ pc = "results" /\ t \in 1 .. count
                 /\ answer[t] = "failed"
                 /\ Return(FALSE)
                 /\ UNCHANGED <<tableVars, setupVars, stage, sendVars, nodeIdx, answer, recorded>>

MutAllVisited == \A t \in 1 .. count : answer[t] = "object" => t \in recorded  \* failures are skipped
AllVisited == \A t \in 1 .. count : t \in recorded

ResultsDone == /\ pc = "results" /\ AllVisited
               /\ Goto("link")
               /\ UNCHANGED <<tableVars, setupVars, stage, sendVars, nodeIdx, answer, recorded>>

(***************************************************************************)
(* Without curl: http_post to one node after the other, starting with the  *)
(* one after the last that succeeded.                                      *)
(***************************************************************************)
Candidate(o) == ((nodeIdx + o) % Len(healthy)) + 1
Untried(t) == {o \in 0 .. Len(healthy) - 1 : healthy[Candidate(o)] \notin asked[t]}
Current(t) == t \in At("unsent") /\ \A u \in At("unsent") : t <= u

\* http_post has sent the request and waits, for up to 60 seconds.
Post(t, o) == /\ pc = "sequential" /\ Current(t)
              /\ o \in Untried(t) /\ \A p \in Untried(t) : o <= p
              /\ node' = [node EXCEPT ![t] = Candidate(o)]
              /\ asked' = [asked EXCEPT ![t] = @ \cup {healthy[Candidate(o)]}]
              /\ attempt' = [attempt EXCEPT ![t] = @ + 1]
              /\ Goto("posting")
              /\ UNCHANGED <<tableVars, setupVars, stage, idOf, resp, outFile,
                             nodeIdx, answer, recorded>>

Posting(t) == pc = "posting" /\ Current(t)

PostAnswered(t) == /\ Posting(t)
                   /\ answer' = [answer EXCEPT ![t] = "object"]
                   /\ recorded' = recorded \cup {t}
                   /\ nodeIdx' = node[t]
                   /\ Move(t, "ended")
                   /\ Goto("sequential")
                   /\ UNCHANGED <<tableVars, setupVars, sendVars>>

PostFailed(t) == /\ Posting(t)
                 /\ IF MayRetry(t)
                    THEN Goto("sequential") /\ UNCHANGED answer
                    ELSE answer' = [answer EXCEPT ![t] = "failed"] /\ Return(FALSE)
                 /\ UNCHANGED <<tableVars, setupVars, stage, sendVars, nodeIdx, recorded>>

\* The list names a node twice: all were tried before the attempts ran out.
NoNodeLeft(t) == /\ pc = "sequential" /\ Current(t) /\ Untried(t) = {}
                 /\ answer' = [answer EXCEPT ![t] = "failed"]
                 /\ Return(FALSE)
                 /\ UNCHANGED <<tableVars, setupVars, stage, sendVars, nodeIdx, recorded>>

SequentialDone == /\ pc = "sequential" /\ At("unsent") = {}
                  /\ Goto("link")
                  /\ UNCHANGED <<tableVars, setupVars, stage, sendVars, nodeIdx, answer, recorded>>

\* link_artifact for every artifact; it may fail.
Link == /\ pc = "link"
        /\ \E r \in BOOLEAN : Return(r)
        /\ UNCHANGED <<tableVars, setupVars, stage, sendVars, nodeIdx, answer, recorded>>

(***************************************************************************)
(* A curl exits: it has received and saved a whole response (an error      *)
(* status is one too, there is no -f), or it has failed.                   *)
(***************************************************************************)
Reply(i, c) == /\ ChildExits(i, IF c = "none" THEN "failed" ELSE "ok")
               /\ LET t == cmdOf[i]
                  IN  resp' = [resp EXCEPT ![t] = [@ EXCEPT ![Len(@)] = c]]

CurlExits(i) == /\ \E c \in Contents : Reply(i, c)
                /\ UNCHANGED <<setupVars, pc, stage, idOf, attempt, outFile, node, asked,
                               endVars>>

\* The steps that end an exchange with a server, apart from a curl's own.
HearsOf(t) == PostAnswered(t) \/ PostFailed(t)
Internal == \/ Unconfigured \/ ConfigFails \/ Configured
            \/ HealthDone \/ \E n \in 0 .. MaxTasks : Collect(n)
            \/ CollectFails \/ SubmitDone \/ NextPass \/ Cleanup \/ ResultsDone
            \/ \E t \in Tasks : \/ Submit(t) \/ Retry(t)
                                \/ PollAnswered(t) \/ PollFailed(t) \/ PollNil(t)
                                \/ PollRaises(t)
                                \/ WriteResult(t) \/ FailResult(t) \/ NoNodeLeft(t)
                                \/ \E o \in 0 .. Len(healthy) - 1 : Post(t, o)
            \/ SequentialDone \/ Link

Spkg == \/ Internal
        \/ \E ok \in BOOLEAN : CheckHealth(ok)
        \/ \E t \in Tasks : HearsOf(t)

Next == Spkg \/ \E i \in Ids : CurlExits(i)

\* spkg keeps running and every curl ends: --max-time 300 sees to that whatever
\* the servers do, so nothing is assumed of them.
Fairness == WF_vars(Spkg) /\ \A i \in Ids : WF_vars(CurlExits(i))

Spec == Init /\ [][Next]_vars
FairSpec == Spec /\ Fairness
------------------------------------------------------------------------------
Sent == {t \in 1 .. count : stage[t] \in {"waiting", "kept"} /\ idOf[t] # 0}

\* Between the first request and the last answer, a task being waited for and
\* the slot of its curl own each other, also after retries have moved the task
\* to other slots: no task is answered by another one's curl, and a task never
\* has two.
CurlOwnership == /\ \A t \in Sent : cmdOf[idOf[t]] = t
                 /\ \A i \in Ids \ FreeIds : cmdOf[i] \in Sent /\ idOf[cmdOf[i]] = i

\* What the coordinator believes of a request is what the server answered: no
\* object that was delivered is passed over by a retry or a failure, and no
\* task counts as answered without one.  Each attempt has a response file of
\* its own, and the one read must be the one the last curl wrote.
AnswersAreTrue ==
    pc = "wait" => \A t \in At("retry") \cup At("ended") :
        answer[t] = "object" <=> \E k \in 1 .. Len(resp[t]) : resp[t][k] = "object"

\* A task is given up only when every healthy node has been asked for it
\* (README, fault tolerance: round robin, an error when all nodes fail).
GivenUpOnlyAfterAll ==
    \A t \in Tasks : answer[t] = "failed" => asked[t] = Elements(healthy)

\* A distributed build that reports success has an answer with an object for
\* every task, and has written it.
SuccessIsComplete ==
    pc = "done" /\ result => \A t \in 1 .. count : answer[t] = "object" /\ t \in recorded

\* When the results are looked at, and on every return after that, no curl is
\* running and no temporary file is left.
NothingLeftBehind ==
    pc \in {"results", "link", "done"} => FreeIds = Ids /\ \A t \in Tasks : resp[t] = <<>>

\* The build ends, whatever the servers and the network do: it does not leave
\* these values of pc, so it is there again and again exactly when it gets there.
Termination == []<>(pc \in {"local", "raised", "done"})

==============================================================================
