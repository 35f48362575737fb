---------------------------- MODULE DistributedNodes ----------------------------
(***************************************************************************)
(* A distributed build and its servers: DistributedCompile, whose requests *)
(* may end in any way, with CompileNode in the place of that environment.  *)
(* Attempt k of task t is request <<t, k>>.  The network may lose what it  *)
(* carries, and a client may leave at any time (curl after 300 seconds,    *)
(* http_post after 60, http_get after 30): the server does not notice and  *)
(* compiles what it has read or has in its queue.  Other clients of a      *)
(* server appear as the time it takes.                                     *)
(***************************************************************************)
EXTENDS DistributedCompile, CompileNode

ASSUME CompositionAssumption ==
    /\ Servers \subseteq Nodes
    /\ \A ns \in NodeLists : Tasks \X (1 .. Len(ns)) \subseteq Requests

spkgVars == vars
systemVars == <<vars, nodeVars>>

RequestOf(t) == <<t, attempt[t]>>
ServerOf(t) == healthy[node[t]]

\* A server nobody is going to ask need not run.
SystemInit == Init /\ NodeInit /\ \A n \in Servers : life[n] = "up" <=> n \in Elements(nodes)

\* The coordinator has a client that waits for the answer to t's last request.
Waits(t) == \/ \E i \in Ids : cmdOf[i] = t /\ child[i] = "running"
            \/ Posting(t)

Arrive(t) == /\ Waits(t) /\ ServerOf(t) \in Servers
             /\ Deliver(ServerOf(t), RequestOf(t))
             /\ UNCHANGED spkgVars

\* The client has the whole reply.  json_parse_string cuts a string at 8191
\* characters, and what follows it does not parse any more: an object longer
\* than that is read as an error.
Hears(t, c) == Read(RequestOf(t), c = "object")

\* A node that runs another program answers what it likes.
HearsStranger(t) == ServerOf(t) \notin Servers /\ UNCHANGED nodeVars

\* Connection refused, reset or timed out: the client leaves.
HearsNothing(t) == ServerOf(t) \in Servers /\ Leave(RequestOf(t))

CurlEnds(i) ==
    /\ \E c \in Contents :
          /\ Reply(i, c)
          /\ \/ HearsStranger(cmdOf[i])
             \/ IF c = "none" THEN HearsNothing(cmdOf[i]) ELSE Hears(cmdOf[i], c)
    /\ UNCHANGED <<setupVars, pc, stage, idOf, attempt, outFile, node, asked, endVars>>

PostEnds(t) ==
    \/ PostAnswered(t) /\ (HearsStranger(t) \/ Hears(t, "object"))
    \/ PostFailed(t) /\ (HearsStranger(t) \/ Hears(t, "error") \/ HearsNothing(t))

\* A server answers /health from its poll loop only.
HealthEnds(ok) == /\ CheckHealth(ok)
                  /\ ok /\ nodes[checked + 1] \in Servers => InPoll(nodes[checked + 1])
                  /\ UNCHANGED nodeVars

Coordinator == \/ UNCHANGED nodeVars /\ Internal
               \/ \E ok \in BOOLEAN : HealthEnds(ok)
               \/ \E t \in Tasks : PostEnds(t)

SystemNext == \/ Coordinator
              \/ \E i \in Ids : CurlEnds(i)
              \/ \E t \in Tasks : Arrive(t)
              \/ \E n \in Servers : UNCHANGED spkgVars /\ NodeStep(n)

\* The coordinator's processes run and give up waiting at last; a server's
\* thread runs while its process does, and so does its clock.  Nothing is
\* assumed of compilers, of one that outlived its time-out either, of the
\* network, or of servers that stopped.
HandlerRuns(n) == UNCHANGED spkgVars /\ Handler(n)
ClockRuns(n) == UNCHANGED spkgVars /\ TimesOut(n)
SystemFairness == /\ WF_systemVars(Coordinator)
                  /\ \A i \in Ids : WF_systemVars(CurlEnds(i))
                  /\ \A n \in Servers : WF_systemVars(HandlerRuns(n)) /\ WF_systemVars(ClockRuns(n))

SystemSpec == SystemInit /\ [][SystemNext]_systemVars
FairSystemSpec == SystemSpec /\ SystemFairness
------------------------------------------------------------------------------
\* Every variable of the composition has its type.
SystemTypeOK == TypeOK /\ NodeTypeOK

\* The object the coordinator takes for a task, and writes, is the whole output
\* of a compiler that ended with 0 before its time-out, for that very request
\* and not for an earlier attempt of it.
AnswerIsWhole == \A t \in Tasks :
    answer[t] = "object" /\ ServerOf(t) \in Servers => conn[RequestOf(t)] = "delivered"

\* A task is given up only for a reason: something went wrong with each of its
\* requests (a compiler that failed, an object too long to be read, a server
\* that stopped, a client that left).  Servers do not fail requests because of
\* other requests.
FailureHasCause == \A t \in Tasks :
    answer[t] = "failed" =>
        \A k \in 1 .. attempt[t] : at[<<t, k>>] \in Servers => <<t, k>> \in fault

\* Every request that reached a server is answered or dropped, also when its
\* client has left (a server runs out of them again and again), unless the
\* server hangs: on a compiler that outlived its time-out and holds the pipe, or
\* on flags its parser does not get past.
Pending(n) == {r \in Requests : at[r] = n /\ conn[r] \in Waiting \cup InWork}
Hung(n) == handling[n] # NoRequest /\ compiler[n] \in {"none", "orphan"}
RequestsEnd == \A n \in Servers : []<>(Pending(n) = {} \/ Hung(n))

==============================================================================
