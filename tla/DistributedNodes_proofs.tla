------------------------ MODULE DistributedNodes_proofs ------------------------
(*************************************************************************)
(* Proofs about DistributedNodes, the coordinator with its servers: the  *)
(* composition implements DistributedCompile, so what is proved of the   *)
(* coordinator holds of it too, and the properties of the two sides      *)
(* together, for any number of servers, requests, tasks and slots.       *)
(*************************************************************************)
EXTENDS DistributedNodes, DistributedCompile_proofs

USE AsyncAssumption, DistributedAssumption, NodeAssumption, CompositionAssumption

------------------------------------------------------------------------------
\* Refinement: the servers and the network do no more to the coordinator than
\* DistributedCompile allows them to.
LEMMA StepRefines == ASSUME [SystemNext]_systemVars PROVE [Next]_vars
<1>1. CASE UNCHANGED systemVars
  BY <1>1 DEF systemVars
<1>2. CASE Coordinator
  <2>1. CASE Internal
    BY <2>1 DEF Next, Spkg
  <2>2. ASSUME NEW ok \in BOOLEAN, HealthEnds(ok) PROVE Next
    BY <2>2 DEF HealthEnds, Next, Spkg
  <2>3. ASSUME NEW t \in Tasks, PostEnds(t) PROVE Next
    <3>1. HearsOf(t)
      BY <2>3 DEF PostEnds, HearsOf
    <3>2. QED
      BY <3>1 DEF Next, Spkg
  <2>4. QED
    BY <1>2, <2>1, <2>2, <2>3 DEF Coordinator
<1>3. ASSUME NEW i \in Ids, CurlEnds(i) PROVE Next
  <2>1. CurlExits(i)
    BY <1>3 DEF CurlEnds, CurlExits
  <2>2. QED
    BY <2>1 DEF Next
<1>4. ASSUME NEW t \in Tasks, Arrive(t) PROVE UNCHANGED vars
  BY <1>4 DEF Arrive, spkgVars
<1>5. ASSUME NEW n \in Servers, UNCHANGED spkgVars PROVE UNCHANGED vars
  BY <1>5 DEF spkgVars
<1>6. QED
  BY <1>1, <1>2, <1>3, <1>4, <1>5 DEF SystemNext

\* A distributed build with its servers is a distributed build as the
\* coordinator's specification describes it.
THEOREM CompositionRefines == SystemSpec => Spec
<1>1. SystemInit => Init
  BY DEF SystemInit
<1>2. QED
  BY <1>1, StepRefines, PTL DEF SystemSpec, Spec

------------------------------------------------------------------------------
\* A server by itself: what it counts and what is left in /tmp belongs to the
\* request it is handling (but for the headers with a name that leads outside), and a partial output to a compiler that failed.
Work(n) ==
    /\ handling[n] = NoRequest => /\ active[n] = 0 /\ compiler[n] = "none"
                                  /\ files[n] \subseteq Strays
    /\ handling[n] # NoRequest => /\ active[n] = IF compiler[n] = "none" THEN 0 ELSE 1
                                  /\ handling[n] \in Requests /\ at[handling[n]] = n
                                  /\ conn[handling[n]] \in InWork \cup {"ended"}
    /\ "partial" \in files[n] => compiler[n] = "failed"

\* No reply is part of an object, and each error reply has a cause.
Sound(r) == conn[r] \notin {"damaged", "spoiled"} /\ (conn[r] = "error" => r \in fault)

NodeInv == NodeTypeOK /\ (\A n \in Servers : Work(n)) /\ \A r \in Requests : Sound(r)

\* What a step of a server leaves alone: what has been read, what has not
\* arrived, and where requests are.
Kept == /\ at' = at /\ fault \subseteq fault'
        /\ \A r \in Requests : conn[r] \in {"idle", "delivered", "ended"} => conn'[r] = conn[r]

LEMMA InitNodeInv == NodeInit => NodeInv
BY DEF NodeInit, NodeInv, NodeTypeOK, Work, Sound, ConnStates, Lives, Compilers, Files, JobLimits

\* What parse_headers and compile_task write, on the way to the compiler.
LEMMA WrittenFiles ==
  ASSUME NodeTypeOK, NEW n \in Servers, NEW r \in Requests, NEW fs \in SUBSET Files,
         HasWritten(n, r, fs)
  PROVE  /\ files' \in [Servers -> SUBSET Files]
         /\ files'[n] \subseteq files[n] \cup fs \cup Strays
         /\ \A m \in Servers \ {n} : files'[m] = files[m]
<1>1. PICK out \in SUBSET Strays : files' = [files EXCEPT ![n] = @ \cup fs \cup out]
  BY DEF HasWritten
<1>2. files \in [Servers -> SUBSET Files] /\ out \subseteq Files
  BY DEF NodeTypeOK, Strays, Files
<1> DEFINE new == files[n] \cup fs \cup out
<1>3. new \in SUBSET Files /\ new \subseteq files[n] \cup fs \cup Strays
  BY <1>2
<1>4. files' = [files EXCEPT ![n] = new]
  BY <1>1
<1> HIDE DEF new
<1>5. QED
  BY <1>2, <1>3, <1>4

LEMMA TakeInv ==
  ASSUME NodeInv, NEW n \in Servers, NEW r \in Requests, Reads(n, r), Take(n, r), UNCHANGED at,
         fault \subseteq fault'
  PROVE  /\ conn' \in [Requests -> ConnStates] /\ handling' \in [Servers -> Requests \cup {NoRequest}]
         /\ Kept /\ (\A q \in Requests : Sound(q)')
         /\ handling'[n] = r /\ r # NoRequest /\ at[r] = n /\ conn'[r] \in InWork
         /\ \A m \in Servers \ {n} :
               /\ handling'[m] = handling[m]
               /\ handling[m] # NoRequest => conn'[handling[m]] = conn[handling[m]]
<1>1. /\ conn' = [conn EXCEPT ![r] = IF @ = "queued" THEN "busy" ELSE "zombie"]
      /\ handling' = [handling EXCEPT ![n] = r]
      /\ conn[r] \in Waiting /\ at[r] = n
  BY DEF Take, Reads
<1>2. NodeTypeOK /\ r # NoRequest
  BY DEF NodeInv
<1>3. conn'[r] \in InWork /\ \A q \in Requests \ {r} : conn'[q] = conn[q]
  BY <1>1, <1>2 DEF NodeTypeOK, InWork
<1>4. conn' \in [Requests -> ConnStates] /\ handling' \in [Servers -> Requests \cup {NoRequest}]
  BY <1>1, <1>2 DEF NodeTypeOK, ConnStates, InWork
<1>5. Kept
  BY <1>1, <1>3 DEF Kept, Waiting
<1>6. \A q \in Requests : Sound(q)'
  BY <1>3 DEF NodeInv, Sound, InWork
<1>7. handling'[n] = r /\ \A m \in Servers \ {n} : handling'[m] = handling[m]
  BY <1>1, <1>2 DEF NodeTypeOK
<1>8. \A m \in Servers : handling[m] # NoRequest =>
                            /\ handling[m] \in Requests
                            /\ conn[handling[m]] \in InWork \cup {"ended"}
  BY DEF NodeInv, Work
<1>9. \A m \in Servers : handling[m] # NoRequest => handling[m] # r
  BY <1>1, <1>8 DEF InWork, Waiting
<1>10. QED
  BY <1>1, <1>2, <1>3, <1>4, <1>5, <1>6, <1>7, <1>8, <1>9

\* An answer on a connection no handler is at, or on that of the handler that
\* has just ended.
LEMMA AnswerInv ==
  ASSUME NodeInv, NEW r \in Requests, NEW c \in {"object", "error", "ended"}, Answer(r, c),
         conn[r] \in Waiting \cup InWork \cup {"ended"}, UNCHANGED at
  PROVE  /\ conn' \in [Requests -> ConnStates] /\ fault' \in SUBSET Requests
         /\ Kept /\ (\A q \in Requests : Sound(q)')
         /\ \A q \in Requests \ {r} : conn'[q] = conn[q]
<1>1. /\ conn' = [conn EXCEPT ![r] = Outcome(r, c)]
      /\ fault' = IF c \in {"error", "ended"} THEN fault \cup {r} ELSE fault
  BY DEF Answer
<1>2. NodeTypeOK
  BY DEF NodeInv
<1>3. /\ conn'[r] \in {"object", "error", "ended"} /\ (conn'[r] = "error" => c = "error")
      /\ conn[r] = "ended" => conn'[r] = "ended"
      /\ \A q \in Requests \ {r} : conn'[q] = conn[q]
  BY <1>1, <1>2 DEF NodeTypeOK, Outcome
<1>4. conn' \in [Requests -> ConnStates]
  BY <1>1, <1>2, <1>3 DEF NodeTypeOK, ConnStates, Buffered
<1>5. fault \subseteq fault' /\ fault' \in SUBSET Requests /\ (c = "error" => r \in fault')
  BY <1>1, <1>2 DEF NodeTypeOK
<1>6. Kept
  BY <1>3, <1>5 DEF Kept, Waiting, InWork
<1>7. \A q \in Requests : Sound(q)'
  BY <1>3, <1>5 DEF NodeInv, Sound
<1>8. QED
  BY <1>3, <1>4, <1>5, <1>6, <1>7

LEMMA HangUpInv ==
  ASSUME NodeInv, NEW n \in Servers, HangUp(n)
  PROVE  /\ conn' \in [Requests -> ConnStates] /\ fault' \in SUBSET Requests
         /\ life' \in [Servers -> Lives] /\ UNCHANGED at
         /\ Kept /\ (\A q \in Requests : Sound(q)')
         /\ \A q \in Requests : conn'[q] \in {conn[q], "ended"}
<1>1. /\ life' = [life EXCEPT ![n] = "down"]
      /\ conn' = [r \in Requests |-> IF r \in Open(n) THEN "ended" ELSE conn[r]]
      /\ fault' = fault \cup Open(n) /\ at' = at
  BY DEF HangUp
<1>2. NodeTypeOK /\ Open(n) \subseteq Requests
  BY DEF NodeInv, Open
<1>3. \A q \in Requests : conn'[q] \in {conn[q], "ended"}
  BY <1>1
<1>4. conn' \in [Requests -> ConnStates]
  BY <1>1, <1>2 DEF NodeTypeOK, ConnStates
<1>5. fault' \in SUBSET Requests /\ fault \subseteq fault' /\ life' \in [Servers -> Lives]
  BY <1>1, <1>2 DEF NodeTypeOK, Lives
<1>6. \A q \in Open(n) : conn[q] \in Waiting \cup InWork \cup Buffered
  BY DEF Open
<1>7. Kept
  BY <1>1, <1>5, <1>6 DEF Kept, Waiting, InWork, Buffered
<1>8. \A q \in Requests : Sound(q)'
  BY <1>3, <1>5 DEF NodeInv, Sound
<1>9. QED
  BY <1>1, <1>3, <1>4, <1>5, <1>7, <1>8

\* Every step of a server keeps the invariant of all servers.
LEMMA NodeStepInv ==
  ASSUME NodeInv, NEW n \in Servers, NodeStep(n)
  PROVE  NodeInv' /\ Kept
<1>a. NodeTypeOK /\ (\A m \in Servers : Work(m)) /\ \A r \in Requests : Sound(r)
  BY DEF NodeInv
<1>b. MaxJobs \in Nat \ {0}
  BY DEF JobLimits
<1>c. NoRequest \notin Requests
  OBVIOUS
<1>1. ASSUME NEW r \in Requests, Refuse(n, r) PROVE NodeInv' /\ Kept
  <2>1. active[n] = 0 /\ conn[r] \in Waiting
    BY <1>1, <1>a DEF Refuse, Reads, InPoll, Work
  <2>2. ~ (active[n] >= MaxJobs)
    BY <2>1, <1>b
  <2>3. Answer(r, "error") /\ UNCHANGED <<at, life, active, handling, compiler, files>>
    BY <1>1, <2>2 DEF Refuse, Answer, workVars
  <2>4. /\ conn' \in [Requests -> ConnStates] /\ fault' \in SUBSET Requests
        /\ Kept /\ (\A q \in Requests : Sound(q)')
        /\ \A q \in Requests \ {r} : conn'[q] = conn[q]
    BY <2>1, <2>3, AnswerInv
  <2>5. \A m \in Servers : handling[m] # NoRequest =>
            handling[m] \in Requests /\ conn[handling[m]] \in InWork \cup {"ended"}
    BY <1>a DEF Work
  <2>6. \A m \in Servers : handling[m] # r
    BY <2>1, <2>5, <1>c DEF Waiting, InWork
  <2>7. \A m \in Servers : Work(m)'
    BY <1>a, <2>3, <2>4, <2>5, <2>6 DEF Work
  <2>8. NodeTypeOK'
    BY <1>a, <2>3, <2>4 DEF NodeTypeOK
  <2>9. QED
    BY <2>4, <2>7, <2>8 DEF NodeInv
<1>2. ASSUME NEW r \in Requests, FlagsTooLong(n, r) PROVE NodeInv' /\ Kept
  <2>1. /\ Reads(n, r) /\ Take(n, r) /\ fault' = fault \cup {r}
        /\ UNCHANGED <<at, life, active, compiler, files>>
    BY <1>2 DEF FlagsTooLong
  <2>2. fault \subseteq fault' /\ fault' \in SUBSET Requests
    BY <1>a, <2>1 DEF NodeTypeOK
  <2>3. /\ conn' \in [Requests -> ConnStates] /\ handling' \in [Servers -> Requests \cup {NoRequest}]
        /\ Kept /\ (\A q \in Requests : Sound(q)')
        /\ handling'[n] = r /\ r # NoRequest /\ at[r] = n /\ conn'[r] \in InWork
        /\ \A m \in Servers \ {n} :
              /\ handling'[m] = handling[m]
              /\ handling[m] # NoRequest => conn'[handling[m]] = conn[handling[m]]
    BY <2>1, <2>2, TakeInv
  <2>4. active[n] = 0 /\ compiler[n] = "none" /\ "partial" \notin files[n]
    BY <1>a, <2>1 DEF Reads, InPoll, Work, Strays
  <2>5. Work(n)'
    BY <2>1, <2>3, <2>4 DEF Work
  <2>6. \A m \in Servers \ {n} : Work(m)'
    BY <1>a, <2>1, <2>3 DEF Work
  <2>7. NodeTypeOK'
    BY <1>a, <2>1, <2>2, <2>3 DEF NodeTypeOK
  <2>8. QED
    BY <2>3, <2>5, <2>6, <2>7 DEF NodeInv
<1>3. ASSUME NEW r \in Requests, Begin(n, r) PROVE NodeInv' /\ Kept
  <2>1. /\ Reads(n, r) /\ Take(n, r)
        /\ active' = [active EXCEPT ![n] = @ + 1]
        /\ compiler' = [compiler EXCEPT ![n] = "running"]
        /\ UNCHANGED <<at, life, fault>>
    BY <1>3 DEF Begin
  <2>a. /\ files' \in [Servers -> SUBSET Files]
        /\ files'[n] \subseteq files[n] \cup Prepared \cup Strays
        /\ \A m \in Servers \ {n} : files'[m] = files[m]
    <3>1. Prepared \in SUBSET Files
      BY DEF Prepared, Files
    <3>2. HasWritten(n, r, Prepared)
      BY <1>3 DEF Begin
    <3>3. QED
      BY <1>a, <3>1, <3>2, WrittenFiles
  <2>2. fault \subseteq fault' /\ fault' \in SUBSET Requests
    BY <1>a, <2>1 DEF NodeTypeOK
  <2>3. /\ conn' \in [Requests -> ConnStates] /\ handling' \in [Servers -> Requests \cup {NoRequest}]
        /\ Kept /\ (\A q \in Requests : Sound(q)')
        /\ handling'[n] = r /\ r # NoRequest /\ at[r] = n /\ conn'[r] \in InWork
        /\ \A m \in Servers \ {n} :
              /\ handling'[m] = handling[m]
              /\ handling[m] # NoRequest => conn'[handling[m]] = conn[handling[m]]
    BY <2>1, <2>2, TakeInv
  <2>4. active[n] = 0 /\ files[n] \subseteq Strays
    BY <1>a, <2>1 DEF Reads, InPoll, Work
  <2>5. /\ active'[n] = 1 /\ compiler'[n] = "running" /\ "partial" \notin files'[n]
        /\ \A m \in Servers \ {n} :
              active'[m] = active[m] /\ compiler'[m] = compiler[m] /\ files'[m] = files[m]
    <3>1. "partial" \notin files'[n]
      BY <2>a, <2>4 DEF Prepared, Strays
    <3>2. active \in [Servers -> 0 .. MaxJobs] /\ compiler \in [Servers -> Compilers]
      BY <1>a DEF NodeTypeOK
    <3>3. QED
      BY <2>1, <2>a, <2>4, <3>1, <3>2
  <2>6. Work(n)'
    BY <2>1, <2>3, <2>5 DEF Work
  <2>7. \A m \in Servers \ {n} : Work(m)'
    BY <1>a, <2>1, <2>3, <2>5 DEF Work
  <2>8. /\ active' \in [Servers -> 0 .. MaxJobs] /\ compiler' \in [Servers -> Compilers]
        /\ files' \in [Servers -> SUBSET Files]
    <3>1. active \in [Servers -> 0 .. MaxJobs] /\ compiler \in [Servers -> Compilers]
      BY <1>a DEF NodeTypeOK
    <3>2. QED
      BY <1>b, <2>1, <2>a, <2>4, <3>1 DEF Compilers
  <2>9. NodeTypeOK'
    BY <1>a, <2>1, <2>2, <2>3, <2>8 DEF NodeTypeOK
  <2>10. QED
    BY <2>3, <2>6, <2>7, <2>9 DEF NodeInv
<1>4. ASSUME NEW r \in Requests, BeginFails(n, r) PROVE NodeInv' /\ Kept
  <2>1. PICK c \in {"error", "ended"} : Answer(r, c)
    BY <1>4 DEF BeginFails
  <2>2. /\ conn[r] \in Waiting /\ handling[n] = NoRequest
        /\ UNCHANGED <<at, life, active, handling, compiler>>
    BY <1>4 DEF BeginFails, Reads, InPoll
  <2>3. /\ files' \in [Servers -> SUBSET Files]
        /\ files'[n] \subseteq files[n] \cup {} \cup Strays
        /\ \A m \in Servers \ {n} : files'[m] = files[m]
    BY <1>4, <1>a, WrittenFiles DEF BeginFails
  <2>4. /\ conn' \in [Requests -> ConnStates] /\ fault' \in SUBSET Requests
        /\ Kept /\ (\A q \in Requests : Sound(q)')
        /\ \A q \in Requests \ {r} : conn'[q] = conn[q]
    BY <2>1, <2>2, AnswerInv
  <2>5. \A m \in Servers : handling[m] # NoRequest =>
            handling[m] \in Requests /\ conn[handling[m]] \in InWork \cup {"ended"}
    BY <1>a DEF Work
  <2>6. \A m \in Servers : handling[m] # r
    BY <2>2, <2>5, <1>c DEF Waiting, InWork
  <2>7. \A m \in Servers : Work(m)'
    <3>1. Work(n)'
      <4>1. files'[n] \subseteq Strays /\ "partial" \notin files'[n]
        BY <1>a, <2>2, <2>3 DEF Work, Strays
      <4>2. handling'[n] = NoRequest /\ active'[n] = 0 /\ compiler'[n] = "none"
        BY <1>a, <2>2 DEF Work
      <4>3. QED
        BY <4>1, <4>2 DEF Work
    <3>2. \A m \in Servers \ {n} : Work(m)'
      BY <1>a, <2>2, <2>3, <2>4, <2>5, <2>6 DEF Work
    <3>3. QED
      BY <3>1, <3>2
  <2>8. NodeTypeOK'
    BY <1>a, <2>2, <2>3, <2>4 DEF NodeTypeOK
  <2>9. QED
    BY <2>4, <2>7, <2>8 DEF NodeInv
<1>5. ASSUME CompilerEnds(n) \/ TimesOut(n) \/ OrphanEnds(n) PROVE NodeInv' /\ Kept
  <2>1. /\ compiler[n] \in {"running", "orphan"}
        /\ \E s \in {"ok", "orphan"} :
              \/ compiler' = [compiler EXCEPT ![n] = s] /\ files' = files
              \/ /\ compiler' = [compiler EXCEPT ![n] = s]
                 /\ files' = [files EXCEPT ![n] = @ \cup {"output", "depfile"}]
              \/ /\ compiler' = [compiler EXCEPT ![n] = "failed"]
                 /\ files' = [files EXCEPT ![n] = @ \cup {"partial", "depfile"}]
        /\ UNCHANGED <<conn, at, life, active, handling, fault>>
    BY <1>5 DEF CompilerEnds, TimesOut, OrphanEnds, Fails, Leaves
  <2>2. /\ compiler'[n] \in {"ok", "orphan", "failed"}
        /\ "partial" \in files'[n] => compiler'[n] = "failed" \/ "partial" \in files[n]
        /\ \A m \in Servers \ {n} : compiler'[m] = compiler[m] /\ files'[m] = files[m]
    <3>1. compiler \in [Servers -> Compilers] /\ files \in [Servers -> SUBSET Files]
      BY <1>a DEF NodeTypeOK
    <3>2. QED
      BY <2>1, <3>1
  <2>3. Work(n)
    BY <1>a
  <2>4. handling[n] # NoRequest /\ "partial" \notin files[n] /\ compiler[n] # "none"
    BY <2>1, <2>3 DEF Work
  <2>5. Work(n)'
    BY <2>1, <2>2, <2>3, <2>4 DEF Work
  <2>6. \A m \in Servers \ {n} : Work(m)'
    BY <1>a, <2>1, <2>2 DEF Work
  <2>7. NodeTypeOK'
    <3>1. compiler \in [Servers -> Compilers] /\ files \in [Servers -> SUBSET Files]
      BY <1>a DEF NodeTypeOK
    <3>2. compiler' \in [Servers -> Compilers]
      BY <2>1, <3>1 DEF Compilers
    <3>3. files' \in [Servers -> SUBSET Files]
      BY <2>1, <3>1 DEF Files
    <3>4. QED
      BY <1>a, <2>1, <3>2, <3>3 DEF NodeTypeOK
  <2>8. Kept
    BY <1>a, <2>1 DEF Kept
  <2>9. \A r \in Requests : Sound(r)'
    BY <1>a, <2>1 DEF Sound
  <2>10. QED
    BY <2>5, <2>6, <2>7, <2>8, <2>9 DEF NodeInv
<1>6. CASE Respond(n)
  <2> DEFINE r == handling[n]
  <2>1. /\ handling[n] # NoRequest /\ compiler[n] \in {"ok", "failed"}
        /\ active' = [active EXCEPT ![n] = active[n] - 1]
        /\ handling' = [handling EXCEPT ![n] = NoRequest]
        /\ compiler' = [compiler EXCEPT ![n] = "none"]
        /\ files' = [files EXCEPT ![n] = Cleaned(n)]
        /\ UNCHANGED <<at, life>>
    BY <1>6 DEF Respond, Drained, Released
  <2>2. PICK c \in Verdicts(n) : Answer(r, c)
    BY <1>6 DEF Respond
  <2>3. /\ active[n] = 1 /\ r \in Requests /\ at[r] = n /\ conn[r] \in InWork \cup {"ended"}
        /\ "partial" \in files[n] => compiler[n] = "failed"
    BY <1>a, <2>1 DEF Work
  <2>4. c \in {"object", "error", "ended"}
    BY <2>1, <2>3 DEF Verdicts, Stored
  <2>5. /\ conn' \in [Requests -> ConnStates] /\ fault' \in SUBSET Requests
        /\ Kept /\ (\A q \in Requests : Sound(q)')
        /\ \A q \in Requests \ {r} : conn'[q] = conn[q]
    BY <2>1, <2>2, <2>3, <2>4, AnswerInv
  <2>6. Cleaned(n) \subseteq Strays /\ Strays \subseteq Files
    BY DEF Cleaned, Strays, Files
  <2>7. /\ active'[n] = 0 /\ handling'[n] = NoRequest /\ compiler'[n] = "none"
        /\ files'[n] \subseteq Strays
        /\ \A m \in Servers \ {n} : /\ active'[m] = active[m] /\ handling'[m] = handling[m]
                                    /\ compiler'[m] = compiler[m] /\ files'[m] = files[m]
    BY <1>a, <2>1, <2>3, <2>6 DEF NodeTypeOK
  <2>8. Work(n)'
    BY <2>7 DEF Work, Strays
  <2>9. \A m \in Servers \ {n} : handling[m] # NoRequest => handling[m] # r /\ handling[m] \in Requests
    BY <1>a, <2>3 DEF Work
  <2>10. \A m \in Servers \ {n} : Work(m)'
    BY <1>a, <2>1, <2>5, <2>7, <2>9 DEF Work
  <2>11. /\ active' \in [Servers -> 0 .. MaxJobs] /\ compiler' \in [Servers -> Compilers]
         /\ files' \in [Servers -> SUBSET Files] /\ handling' \in [Servers -> Requests \cup {NoRequest}]
    BY <1>a, <1>b, <2>1, <2>3, <2>6 DEF NodeTypeOK, Compilers
  <2>12. NodeTypeOK'
    BY <1>a, <2>1, <2>5, <2>11 DEF NodeTypeOK
  <2>13. QED
    BY <2>5, <2>8, <2>10, <2>12 DEF NodeInv
<1>7. CASE Exit(n) \/ Crash(n)
  <2>1. HangUp(n)
    BY <1>7 DEF Exit, Crash
  <2>2. /\ conn' \in [Requests -> ConnStates] /\ fault' \in SUBSET Requests
        /\ life' \in [Servers -> Lives] /\ UNCHANGED at
        /\ Kept /\ (\A q \in Requests : Sound(q)')
        /\ \A q \in Requests : conn'[q] \in {conn[q], "ended"}
    BY <2>1, HangUpInv
  <2>3. \/ UNCHANGED <<active, handling, compiler, files>>
        \/ /\ active' = [active EXCEPT ![n] = 0]
           /\ handling' = [handling EXCEPT ![n] = NoRequest]
           /\ compiler' = [compiler EXCEPT ![n] = "none"]
           /\ files' = [files EXCEPT ![n] = {}]
    BY <1>7 DEF Exit, Crash, workVars
  <2>4. CASE UNCHANGED <<active, handling, compiler, files>>
    <3>1. \A m \in Servers : Work(m)'
      BY <1>a, <2>2, <2>4 DEF Work
    <3>2. NodeTypeOK'
      BY <1>a, <2>2, <2>4 DEF NodeTypeOK
    <3>3. QED
      BY <2>2, <3>1, <3>2 DEF NodeInv
  <2>5. CASE /\ active' = [active EXCEPT ![n] = 0]
             /\ handling' = [handling EXCEPT ![n] = NoRequest]
             /\ compiler' = [compiler EXCEPT ![n] = "none"]
             /\ files' = [files EXCEPT ![n] = {}]
    <3>1. /\ active'[n] = 0 /\ handling'[n] = NoRequest /\ compiler'[n] = "none" /\ files'[n] = {}
          /\ \A m \in Servers \ {n} : /\ active'[m] = active[m] /\ handling'[m] = handling[m]
                                      /\ compiler'[m] = compiler[m] /\ files'[m] = files[m]
      BY <1>a, <2>5 DEF NodeTypeOK
    <3>2. Work(n)'
      BY <3>1 DEF Work
    <3>3. \A m \in Servers \ {n} : Work(m)'
      BY <1>a, <2>2, <3>1 DEF Work
    <3>4. /\ active' \in [Servers -> 0 .. MaxJobs] /\ compiler' \in [Servers -> Compilers]
          /\ files' \in [Servers -> SUBSET Files] /\ handling' \in [Servers -> Requests \cup {NoRequest}]
      BY <1>a, <1>b, <2>5 DEF NodeTypeOK, Compilers
    <3>5. NodeTypeOK'
      BY <1>a, <2>2, <3>4 DEF NodeTypeOK
    <3>6. QED
      BY <2>2, <3>2, <3>3, <3>5 DEF NodeInv
  <2>6. QED
    BY <2>3, <2>4, <2>5
<1>8. QED
  BY <1>1, <1>2, <1>3, <1>4, <1>5, <1>6, <1>7 DEF NodeStep, Handler

\* The client's end of a connection: its bytes arrive, it reads the reply, or
\* it leaves.  Other connections are not touched.
Others(r) == \A q \in Requests \ {r} : conn'[q] = conn[q] /\ at'[q] = at[q]

LEMMA DeliverInv ==
  ASSUME NodeInv, NEW n \in Servers, NEW r \in Requests, Deliver(n, r)
  PROVE  NodeInv' /\ Others(r) /\ fault' = fault /\ conn[r] = "idle" /\ at'[r] = n
<1>1. /\ conn[r] = "idle" /\ conn' = [conn EXCEPT ![r] = "queued"] /\ at' = [at EXCEPT ![r] = n]
      /\ UNCHANGED <<life, active, handling, compiler, files, fault>>
  BY DEF Deliver, workVars
<1>2. NodeTypeOK
  BY DEF NodeInv
<1>3. conn'[r] = "queued" /\ at'[r] = n /\ Others(r)
  BY <1>1, <1>2 DEF NodeTypeOK, Others
<1>4. conn' \in [Requests -> ConnStates] /\ at' \in [Requests -> Servers \cup {NoServer}]
  BY <1>1, <1>2 DEF NodeTypeOK, ConnStates, Waiting
<1>5. NodeTypeOK'
  BY <1>1, <1>2, <1>4 DEF NodeTypeOK
<1>6. \A m \in Servers : handling[m] # NoRequest => handling[m] # r /\ handling[m] \in Requests
  BY <1>1 DEF NodeInv, Work, InWork
<1>7. \A m \in Servers : Work(m)'
  BY <1>1, <1>3, <1>6 DEF NodeInv, Work, Others
<1>8. \A q \in Requests : Sound(q)'
  BY <1>1, <1>3 DEF NodeInv, Sound, Others
<1>9. QED
  BY <1>1, <1>3, <1>5, <1>7, <1>8 DEF NodeInv

LEMMA ReadInv ==
  ASSUME NodeInv, NEW r \in Requests, NEW used \in BOOLEAN, Read(r, used)
  PROVE  /\ NodeInv' /\ Others(r) /\ at' = at /\ fault \subseteq fault'
         /\ IF used THEN conn'[r] = "delivered" ELSE r \in fault'
<1>1. /\ conn[r] \in Buffered /\ (used => conn[r] # "error")
      /\ conn' = [conn EXCEPT ![r] = IF ~used THEN "ended"
                                     ELSE IF conn[r] = "object" THEN "delivered" ELSE "spoiled"]
      /\ fault' = IF used \/ conn[r] = "error" THEN fault ELSE fault \cup {r}
      /\ UNCHANGED <<at, life, active, handling, compiler, files>>
  BY DEF Read, Sends, workVars
<1>2. NodeTypeOK /\ Sound(r)
  BY DEF NodeInv
<1>3. used => conn[r] = "object"
  BY <1>1, <1>2 DEF Sound, Buffered
<1>4. conn'[r] = (IF used THEN "delivered" ELSE "ended") /\ Others(r)
  BY <1>1, <1>2, <1>3 DEF NodeTypeOK, Others
<1>5. fault \subseteq fault' /\ fault' \in SUBSET Requests /\ (~used => r \in fault')
  BY <1>1, <1>2 DEF NodeTypeOK, Sound
<1>6. conn' \in [Requests -> ConnStates]
  BY <1>1, <1>2 DEF NodeTypeOK, ConnStates
<1>7. NodeTypeOK'
  BY <1>1, <1>2, <1>5, <1>6 DEF NodeTypeOK
<1>8. \A m \in Servers : handling[m] # NoRequest => handling[m] # r /\ handling[m] \in Requests
  BY <1>1 DEF NodeInv, Work, InWork, Buffered
<1>9. \A m \in Servers : Work(m)'
  BY <1>1, <1>4, <1>8 DEF NodeInv, Work, Others
<1>10. \A q \in Requests : Sound(q)'
  BY <1>4, <1>5 DEF NodeInv, Sound, Others
<1>11. QED
  BY <1>1, <1>4, <1>5, <1>7, <1>9, <1>10 DEF NodeInv

LEMMA LeaveInv ==
  ASSUME NodeInv, NEW r \in Requests, Leave(r)
  PROVE  NodeInv' /\ Others(r) /\ at' = at /\ fault \subseteq fault' /\ r \in fault'
<1>1. /\ conn' = [conn EXCEPT ![r] = IF @ = "queued" THEN "abandoned"
                                     ELSE IF @ = "busy" THEN "zombie" ELSE "ended"]
      /\ fault' = fault \cup {r}
      /\ UNCHANGED <<at, life, active, handling, compiler, files>>
  BY DEF Leave, workVars
<1>2. NodeTypeOK
  BY DEF NodeInv
<1>3. /\ conn'[r] \in {"abandoned", "zombie", "ended"} /\ Others(r)
      /\ conn[r] \in InWork \cup {"ended"} => conn'[r] \in InWork \cup {"ended"}
  BY <1>1, <1>2 DEF NodeTypeOK, Others, InWork
<1>4. conn' \in [Requests -> ConnStates] /\ fault' \in SUBSET Requests
  BY <1>1, <1>2 DEF NodeTypeOK, ConnStates, Waiting, InWork
<1>5. NodeTypeOK'
  BY <1>1, <1>2, <1>4 DEF NodeTypeOK
<1>6. \A m \in Servers : Work(m)'
  <2>1. ASSUME NEW m \in Servers PROVE Work(m)'
    <3>1. Work(m)
      BY DEF NodeInv
    <3>2. handling[m] \in Requests /\ conn[handling[m]] \in InWork \cup {"ended"} =>
             conn'[handling[m]] \in InWork \cup {"ended"}
      BY <1>3 DEF Others
    <3>3. QED
      BY <1>1, <3>1, <3>2 DEF Work
  <2>2. QED
    BY <2>1
<1>7. \A q \in Requests : Sound(q)'
  BY <1>1, <1>3 DEF NodeInv, Sound, Others
<1>8. QED
  BY <1>1, <1>3, <1>5, <1>6, <1>7 DEF NodeInv

------------------------------------------------------------------------------
\* What connects the two sides.  A task has heard of its last request when it
\* holds its object, in the response file or as its result.
Heard(t) == answer[t] = "object" \/ (Live(t) /\ resp[t][Len(resp[t])] = "object")

\* Only a task whose entry is gone has an object as its result.
Ended == \A t \in Tasks : answer[t] = "object" => stage[t] = "ended"

\* A step of the coordinator by itself leaves the last request of t alone, or
\* makes a new one when the last has been dealt with.
Quiet(t) == /\ attempt'[t] = attempt[t] /\ node'[t] = node[t] /\ healthy' = healthy
            /\ (Heard(t)' <=> Heard(t)) /\ (Waits(t)' <=> Waits(t))
Starts(t) == /\ attempt'[t] = attempt[t] + 1 /\ healthy' = healthy
             /\ ~Waits(t) /\ ~Heard(t) /\ ~Heard(t)'

\* Who has a client waiting: a task whose curl runs, or the one http_post is at.
LEMMA WaitsMeans ==
  ASSUME TypeOK, CurlOwnership, NEW t \in Tasks
  PROVE  Waits(t) <=> \/ t \in Sent /\ child[idOf[t]] = "running"
                      \/ Posting(t)
<1>1. ASSUME NEW i \in Ids, cmdOf[i] = t, child[i] = "running"
      PROVE  t \in Sent /\ idOf[t] = i
  <2>1. i \in Ids \ FreeIds
    BY <1>1 DEF FreeIds, Tasks
  <2>2. QED
    BY <1>1, <2>1 DEF CurlOwnership
<1>2. ASSUME t \in Sent, child[idOf[t]] = "running" PROVE Waits(t)
  <2>1. idOf[t] \in Ids /\ cmdOf[idOf[t]] = t
    BY <1>2 DEF CurlOwnership, Sent, TypeOK
  <2>2. QED
    BY <1>2, <2>1 DEF Waits
<1>3. QED
  BY <1>1, <1>2 DEF Waits

\* Nothing has been heard from a request that is being waited for.
LEMMA WaitingIsLive ==
  ASSUME IInv, Ended, NEW t \in Tasks, Waits(t)
  PROVE  ~Heard(t) /\ (Live(t) \/ Posting(t))
<1>1. TypeOK /\ StagesOfLoop /\ CurlOwnership /\ FilesOfTask /\ Results
  BY DEF IInv, TInv, Core
<1>2. CASE t \in Sent /\ child[idOf[t]] = "running"
  <2>1. Live(t) /\ stage[t] # "ended" /\ child[idOf[t]] # "ok"
    BY <1>2 DEF Sent, Live
  <2>2. resp[t] \in Seq(Contents) /\ Len(resp[t]) # 0 /\ NoObject(t, Len(resp[t]))
    BY <1>1, <2>1 DEF FilesOfTask, TypeOK
  <2>3. Len(resp[t]) \in 1 .. Len(resp[t])
    BY <2>2, LenProperties
  <2>4. QED
    BY <2>1, <2>2, <2>3 DEF Heard, NoObject, Ended
<1>3. CASE Posting(t)
  <2>1. stage[t] = "unsent"
    BY <1>3 DEF Posting, Current, At
  <2>2. QED
    BY <1>3, <2>1 DEF Heard, Ended, Live
<1>4. QED
  BY <1>1, <1>2, <1>3, WaitsMeans

\* What a step of the coordinator leaves alone for a task.
SameTask(t) == /\ attempt'[t] = attempt[t] /\ node'[t] = node[t] /\ answer'[t] = answer[t]
               /\ (Live(t)' <=> Live(t)) /\ (Live(t) => resp'[t] = resp[t])
               /\ Sent' \cap {t} = Sent \cap {t} /\ (Posting(t)' <=> Posting(t))
               /\ t \in Sent => idOf'[t] = idOf[t] /\ child'[idOf[t]] = child[idOf[t]]

LEMMA WaitsMeansNext ==
  ASSUME NEW t \in Tasks
  PROVE  (TypeOK /\ CurlOwnership =>
             (Waits(t) <=> (t \in Sent /\ child[idOf[t]] = "running") \/ Posting(t)))'
<1>1. TypeOK /\ CurlOwnership => (Waits(t) <=> (t \in Sent /\ child[idOf[t]] = "running") \/ Posting(t))
  BY WaitsMeans
<1>2. QED
  BY <1>1, PTL

LEMMA SameIsQuiet ==
  ASSUME TypeOK, CurlOwnership, TypeOK', CurlOwnership', NEW t \in Tasks, SameTask(t), healthy' = healthy
  PROVE  Quiet(t)
<1>1. Waits(t) <=> (t \in Sent /\ child[idOf[t]] = "running") \/ Posting(t)
  BY WaitsMeans
<1>2. Waits(t)' <=> (t \in Sent' /\ child'[idOf'[t]] = "running") \/ Posting(t)'
  BY WaitsMeansNext
<1>3. Waits(t)' <=> Waits(t)
  <2>1. CASE t \in Sent
    BY <1>1, <1>2, <2>1 DEF SameTask
  <2>2. CASE t \notin Sent
    BY <1>1, <1>2, <2>2 DEF SameTask
  <2>3. QED
    BY <2>1, <2>2
<1>4. Heard(t)' <=> Heard(t)
  BY DEF SameTask, Heard
<1>5. QED
  BY <1>3, <1>4 DEF Quiet, SameTask

\* Every step the coordinator takes by itself is quiet for a task or starts a
\* request of it.
LEMMA InternalFrame ==
  ASSUME ~SigChldIgnored, IInv, IInv', Ended, Internal
  PROVE  Ended' /\ \A t \in Tasks : Quiet(t) \/ Starts(t)
<1>a. /\ TypeOK /\ TypeOK' /\ CurlOwnership /\ CurlOwnership' /\ StagesOfLoop /\ FilesOfTask
      /\ Results /\ AttemptsLeft /\ 1 .. count \subseteq Tasks
  <2>1. /\ TypeOK /\ TypeOK' /\ CurlOwnership /\ CurlOwnership' /\ StagesOfLoop /\ FilesOfTask
        /\ Results /\ AttemptsLeft
    BY DEF IInv, TInv, Core
  <2>2. 1 .. count \subseteq Tasks
    BY <2>1 DEF TypeOK, Tasks
  <2>3. QED
    BY <2>1, <2>2
<1>b. ASSUME \A t \in Tasks : SameTask(t), healthy' = healthy
      PROVE  \A t \in Tasks : Quiet(t)
  BY <1>a, <1>b, SameIsQuiet
<1>1. ASSUME \/ Unconfigured \/ ConfigFails \/ Configured \/ HealthDone \/ CollectFails
             \/ SubmitDone \/ ResultsDone \/ SequentialDone \/ Link
             \/ \E t \in Tasks : WriteResult(t) \/ FailResult(t) \/ PollRaises(t)
      PROVE  Ended' /\ \A t \in Tasks : Quiet(t)
  <2>1. /\ pc # "posting" /\ pc' # "posting"
        /\ UNCHANGED <<child, healthy, count, stage, idOf, attempt, resp, node, answer>>
    BY <1>1 DEF Unconfigured, ConfigFails, Configured, HealthDone, CollectFails, SubmitDone, ResultsDone,
       SequentialDone, Link, WriteResult, FailResult, PollRaises, Polling, Goto, Return, tableVars,
       setupVars, sendVars
  <2>2. \A t \in Tasks : SameTask(t)
    BY <2>1 DEF SameTask, Live, Sent, Posting
  <2>3. QED
    BY <2>1, <2>2, <1>b DEF Ended
<1>2. ASSUME NEW n \in 0 .. MaxTasks, Collect(n) PROVE Ended' /\ \A t \in Tasks : Quiet(t)
  <2>1. /\ pc = "collect" /\ pc' # "posting"
        /\ UNCHANGED <<child, healthy, stage, idOf, attempt, resp, node, answer>>
    BY <1>2 DEF Collect, Goto, tableVars, sendVars
  <2>2. \A t \in Tasks : stage[t] = "unsent"
    BY <1>a, <2>1 DEF StagesOfLoop, Unstarted
  <2>3. 1 .. count' \subseteq Tasks
    BY <1>a DEF TypeOK, Tasks
  <2>4. Sent = {} /\ Sent' = {}
    BY <1>a, <2>1, <2>2, <2>3 DEF Sent
  <2>5. \A t \in Tasks : SameTask(t)
    BY <2>1, <2>4 DEF SameTask, Live, Posting
  <2>6. QED
    BY <2>1, <2>5, <1>b DEF Ended
<1>3. ASSUME NextPass \/ Cleanup PROVE Ended' /\ \A t \in Tasks : Quiet(t)
  <2>1. /\ pc = "wait" /\ pc' # "posting"
        /\ UNCHANGED <<child, healthy, count, idOf, attempt, node, answer>>
    BY <1>3 DEF NextPass, Cleanup, Goto, tableVars, setupVars, sendVars, endVars
  <2>2. \A t \in Tasks : /\ Live(t)' <=> Live(t)
                         /\ stage'[t] = "ended" <=> stage[t] = "ended"
    BY <1>3 DEF NextPass, Cleanup, Live
  <2>3. \A t \in Tasks : Live(t) => resp'[t] = resp[t]
    <3>1. CASE NextPass
      BY <3>1 DEF NextPass, sendVars
    <3>2. CASE Cleanup
      BY <1>a, <3>2 DEF Cleanup, NoneLeft, At, StagesOfLoop, Live
    <3>3. QED
      BY <1>3, <3>1, <3>2
  <2>4. \A t \in Tasks : SameTask(t)
    BY <2>1, <2>2, <2>3, <1>a DEF SameTask, Sent, Live, Posting
  <2>5. QED
    BY <2>1, <2>2, <2>4, <1>b DEF Ended
<1>4. ASSUME NEW t \in Tasks, Submit(t) \/ Retry(t)
      PROVE  Ended' /\ Starts(t) /\ \A u \in Tasks \ {t} : Quiet(u)
  <2>1. /\ pc \in {"submit", "wait"} /\ pc' = pc /\ t \in 1 .. count /\ stage[t] \in {"unsent", "retry"}
        /\ UNCHANGED <<healthy, count, answer>>
        /\ \E k \in {1, attempt[t] + 1} : Send(t, k)
        /\ \E s \in {"waiting", "kept"} : stage' = [stage EXCEPT ![t] = s]
    BY <1>4 DEF Submit, Retry, Move, At, setupVars, endVars
  <2>2. Send(t, attempt[t] + 1)
    <3>1. CASE Submit(t)
      <4>1. attempt[t] = 0 /\ 1 = attempt[t] + 1
        BY <3>1, <1>a DEF Submit, At, IInv, Asking
      <4>2. QED
        BY <3>1, <4>1 DEF Submit
    <3>2. CASE Retry(t)
      BY <3>2 DEF Retry
    <3>3. QED
      BY <1>4, <3>1, <3>2
  <2>3. PICK s \in {"waiting", "kept"} : stage' = [stage EXCEPT ![t] = s]
    BY <2>1
  <2>4. ~Live(t) /\ pc \in Parallel /\ attempt[t] + 1 \in Nat
    <3>1. attempt[t] \in Nat
      BY <1>a DEF TypeOK
    <3>2. QED
      BY <2>1, <3>1 DEF Live, Parallel
  <2>5. /\ resp' = [resp EXCEPT ![t] = Append(@, "none")]
        /\ \A u \in Tasks \ {t} : idOf'[u] = idOf[u]
        /\ \A u \in Sent : child'[idOf[u]] = child[idOf[u]]
    BY <1>a, <2>1, <2>2, <2>3, <2>4, SendCore
  <2>6. attempt' = [attempt EXCEPT ![t] = attempt[t] + 1] /\ node' = [node EXCEPT ![t] = NodeFor(t, attempt[t] + 1)]
    BY <2>2 DEF Send
  <2>7. \A u \in Tasks \ {t} : SameTask(u)
    <3>1. \A u \in Tasks \ {t} : /\ stage'[u] = stage[u] /\ attempt'[u] = attempt[u]
                                 /\ node'[u] = node[u] /\ resp'[u] = resp[u]
      BY <1>a, <2>3, <2>5, <2>6 DEF TypeOK
    <3>2. \A u \in Tasks : ~Posting(u) /\ ~Posting(u)'
      BY <2>1 DEF Posting
    <3>3. QED
      BY <2>1, <2>5, <3>1, <3>2 DEF SameTask, Sent, Live
  <2>8. \A u \in Tasks \ {t} : Quiet(u)
    BY <1>a, <2>1, <2>7, SameIsQuiet
  <2>9. stage'[t] # "ended" /\ answer[t] # "object" /\ \A u \in Tasks \ {t} : stage'[u] = stage[u]
    BY <1>a, <2>1, <2>3 DEF Ended, TypeOK
  <2>10. Ended'
    BY <2>1, <2>9 DEF Ended
  <2>11. ~Heard(t) /\ ~Waits(t)
    BY <2>1, <2>4, <2>9, WaitingIsLive DEF Heard, Posting
  <2>12. ~Heard(t)'
    <3>1. resp'[t] = Append(resp[t], "none") /\ resp[t] \in Seq(Contents)
      BY <1>a, <2>5 DEF TypeOK
    <3>2. resp'[t][Len(resp'[t])] = "none"
      BY <3>1, AppendProperties DEF Contents
    <3>3. answer'[t] # "object"
      BY <2>1, <2>9
    <3>4. QED
      BY <3>2, <3>3 DEF Heard
  <2>13. QED
    BY <1>a, <2>1, <2>6, <2>8, <2>10, <2>11, <2>12 DEF Starts, TypeOK
<1>5. ASSUME NEW t \in Tasks, PollAnswered(t) \/ PollFailed(t)
      PROVE  Ended' /\ \A u \in Tasks : Quiet(u)
  <2>1. PICK r \in Exits : /\ WaitReturns(idOf[t], r)
                           /\ \/ PollAnswered(t) /\ Answered(t, r)
                              \/ PollFailed(t) /\ ~Answered(t, r)
    <3>1. CASE PollAnswered(t)
      <4>1. \E r \in Exits : WaitReturns(idOf[t], r) /\ Answered(t, r)
        BY <3>1 DEF PollAnswered
      <4>2. QED
        BY <3>1, <4>1
    <3>2. CASE PollFailed(t)
      <4>1. \E r \in Exits : WaitReturns(idOf[t], r) /\ ~Answered(t, r)
        BY <3>2 DEF PollFailed
      <4>2. QED
        BY <3>2, <4>1
    <3>3. QED
      BY <1>5, <3>1, <3>2
  <2>2. /\ pc = "wait" /\ pc' = "wait" /\ t \in 1 .. count /\ stage[t] = "waiting"
        /\ UNCHANGED <<healthy, count, idOf, attempt, resp, node>>
        /\ \E s \in {"retry", "ended"} : stage' = [stage EXCEPT ![t] = s]
        /\ \/ /\ Answered(t, r) /\ answer' = [answer EXCEPT ![t] = "object"]
              /\ stage' = [stage EXCEPT ![t] = "ended"]
           \/ ~Answered(t, r) /\ (answer' = answer \/ answer' = [answer EXCEPT ![t] = "failed"])
    BY <2>1 DEF PollAnswered, PollFailed, Polling, Move, At, setupVars, sendVars
  <2>3. t \in Sent /\ Live(t) /\ idOf[t] \in Ids /\ child[idOf[t]] = r /\ cmdOf[idOf[t]] = t
    <3>1. InUse(idOf[t]) /\ child[idOf[t]] = r
      BY <2>1 DEF WaitReturns
    <3>2. t \in Sent /\ idOf[t] \in Ids
      BY <1>a, <2>2, <3>1 DEF InUse, Ids, Sent, TypeOK
    <3>3. QED
      BY <1>a, <2>2, <3>1, <3>2 DEF CurlOwnership, Live
  <2>4. child' = [child EXCEPT ![idOf[t]] = "none"]
    BY <2>1 DEF WaitReturns, FreeSlot
  <2>5. PICK s \in {"retry", "ended"} : stage' = [stage EXCEPT ![t] = s]
    BY <2>2
  <2>6. /\ stage'[t] = s /\ ~Live(t)' /\ t \notin Sent'
        /\ \A u \in Tasks \ {t} : stage'[u] = stage[u] /\ answer'[u] = answer[u]
    BY <1>a, <2>2, <2>5 DEF TypeOK, Live, Sent
  <2>7. \A u \in Tasks \ {t} : u \in Sent => idOf[u] \in Ids /\ idOf[u] # idOf[t]
    <3>1. \A u \in Sent : u \in Tasks /\ idOf[u] # 0 /\ cmdOf[idOf[u]] = u
      BY <1>a DEF CurlOwnership, Sent
    <3>2. \A u \in Sent : idOf[u] \in Ids
      BY <1>a, <3>1 DEF TypeOK
    <3>3. QED
      BY <2>3, <3>1, <3>2
  <2>8. \A u \in Tasks \ {t} : u \in Sent => child'[idOf[u]] = child[idOf[u]]
    BY <1>a, <2>4, <2>7 DEF TypeOK, TableTypeOK
  <2>9. \A u \in Tasks \ {t} : SameTask(u)
    BY <2>2, <2>6, <2>8 DEF SameTask, Sent, Live, Posting
  <2>10. \A u \in Tasks \ {t} : Quiet(u)
    BY <1>a, <2>2, <2>9, SameIsQuiet
  <2>11. ~Waits(t) /\ ~Waits(t)'
    <3>1. ~Waits(t)
      BY <1>a, <2>2, <2>3, WaitsMeans DEF Posting, Exits
    <3>2. ~Waits(t)'
      BY <1>a, <2>2, <2>6, WaitsMeansNext DEF Posting
    <3>3. QED
      BY <3>1, <3>2
  <2>12. outFile[t] = Len(resp[t]) /\ Len(resp[t]) # 0 /\ answer[t] = "none"
    BY <1>a, <2>3 DEF FilesOfTask, Results
  <2>13. Heard(t) <=> Answered(t, r)
    <3>1. Heard(t) <=> resp[t][outFile[t]] = "object"
      BY <2>3, <2>12 DEF Heard
    <3>2. r # "ok" => resp[t][outFile[t]] # "object"
      <4>1. r # "ok" => NoObject(t, Len(resp[t]))
        BY <1>a, <2>3 DEF FilesOfTask
      <4>2. Len(resp[t]) \in 1 .. Len(resp[t])
        BY <1>a, <2>12, LenProperties DEF TypeOK
      <4>3. QED
        BY <2>12, <4>1, <4>2 DEF NoObject
    <3>3. QED
      BY <3>1, <3>2 DEF Answered
  <2>14. Heard(t)' <=> Answered(t, r)
    <3>1. answer'[t] = "object" <=> Answered(t, r)
      BY <1>a, <2>2, <2>12 DEF TypeOK
    <3>2. QED
      BY <2>6, <3>1 DEF Heard
  <2>15. Quiet(t)
    BY <2>2, <2>11, <2>13, <2>14 DEF Quiet
  <2>16. Ended'
    <3>1. answer'[t] = "object" => stage'[t] = "ended"
      BY <1>a, <2>2, <2>12 DEF TypeOK
    <3>2. QED
      BY <2>6, <3>1 DEF Ended
  <2>17. QED
    BY <2>10, <2>15, <2>16
<1>6. ASSUME NEW t \in Tasks, PollNil(t) PROVE Ended' /\ \A u \in Tasks : Quiet(u)
  <2>1. /\ pc = "wait" /\ pc' = "wait" /\ stage[t] = "waiting" /\ stage' = [stage EXCEPT ![t] = "kept"]
        /\ UNCHANGED <<child, healthy, count, idOf, attempt, resp, node, answer>>
    BY <1>6 DEF PollNil, Polling, At, Move, WaitReturnsNil, WaitFails, tableVars, setupVars, sendVars, endVars
  <2>2. stage'[t] = "kept" /\ \A u \in Tasks \ {t} : stage'[u] = stage[u]
    BY <1>a, <2>1 DEF TypeOK
  <2>3. \A u \in Tasks : SameTask(u)
    BY <2>1, <2>2 DEF SameTask, Sent, Live, Posting
  <2>4. Ended'
    BY <2>1, <2>2 DEF Ended
  <2>5. QED
    BY <2>1, <2>3, <2>4, <1>b
<1>7. ASSUME NEW t \in Tasks, NoNodeLeft(t) PROVE Ended' /\ \A u \in Tasks : Quiet(u)
  <2>1. /\ pc = "sequential" /\ pc' = "done" /\ stage[t] = "unsent" /\ answer' = [answer EXCEPT ![t] = "failed"]
        /\ UNCHANGED <<child, cmdOf, healthy, count, stage, idOf, attempt, resp, node>>
    BY <1>7 DEF NoNodeLeft, Current, At, Return, tableVars, setupVars, sendVars
  <2>2. answer'[t] = "failed" /\ \A u \in Tasks \ {t} : answer'[u] = answer[u]
    BY <1>a, <2>1 DEF TypeOK
  <2>3. \A u \in Tasks \ {t} : SameTask(u)
    BY <2>1, <2>2 DEF SameTask, Sent, Live, Posting
  <2>4. \A u \in Tasks \ {t} : Quiet(u)
    BY <1>a, <2>1, <2>3, SameIsQuiet
  <2>5. ~Heard(t) /\ ~Heard(t)'
    BY <2>1, <2>2 DEF Heard, Ended, Live
  <2>6. Waits(t)' <=> Waits(t)
    BY <2>1 DEF Waits, Posting
  <2>7. Quiet(t)
    BY <2>1, <2>5, <2>6 DEF Quiet
  <2>8. Ended'
    BY <2>1, <2>2 DEF Ended
  <2>9. QED
    BY <2>4, <2>7, <2>8
<1>8. ASSUME NEW t \in Tasks, NEW o \in 0 .. Len(healthy) - 1, Post(t, o)
      PROVE  Ended' /\ Starts(t) /\ \A u \in Tasks \ {t} : Quiet(u)
  <2>1. /\ pc = "sequential" /\ pc' = "posting" /\ t \in At("unsent")
        /\ attempt' = [attempt EXCEPT ![t] = @ + 1] /\ node' = [node EXCEPT ![t] = Candidate(o)]
        /\ UNCHANGED <<cmdOf, child, healthy, count, stage, idOf, resp, answer>>
    BY <1>8 DEF Post, Current, Goto, tableVars, setupVars
  <2>2. \A u \in At("unsent") : t <= u
    BY <1>8 DEF Post, Current
  <2>3. \A u \in Tasks \ {t} : ~Posting(u) /\ ~Posting(u)'
    <3>1. ASSUME NEW u \in Tasks, Posting(u)' PROVE u = t
      <4>1. u \in At("unsent") /\ \A v \in At("unsent") : u <= v
        BY <2>1, <3>1 DEF Posting, Current, At
      <4>2. t <= u /\ u <= t
        BY <2>1, <2>2, <4>1
      <4>3. QED
        BY <1>a, <3>1, <4>2 DEF Tasks, TypeOK
    <3>2. QED
      BY <2>1, <3>1 DEF Posting
  <2>4. \A u \in Tasks \ {t} : SameTask(u)
    BY <1>a, <2>1, <2>3 DEF SameTask, Sent, Live, TypeOK
  <2>5. \A u \in Tasks \ {t} : Quiet(u)
    BY <1>a, <2>1, <2>4, SameIsQuiet
  <2>6. stage[t] = "unsent" /\ attempt'[t] = attempt[t] + 1
    BY <1>a, <2>1 DEF At, TypeOK
  <2>7. ~Heard(t) /\ ~Heard(t)'
    BY <2>1, <2>6 DEF Heard, Ended, Live
  <2>8. ~Waits(t)
    BY <2>1, <2>6, WaitingIsLive DEF Live, Posting
  <2>9. Ended'
    BY <2>1 DEF Ended
  <2>10. QED
    BY <2>1, <2>5, <2>6, <2>7, <2>8, <2>9 DEF Starts
<1>9. QED
  <2>1. CASE \E t \in Tasks : WriteResult(t) \/ FailResult(t) \/ PollRaises(t)
    BY <1>1, <2>1
  <2>2. CASE \E n \in 0 .. MaxTasks : Collect(n)
    BY <1>2, <2>2
  <2>3. ASSUME NEW t \in Tasks, Submit(t) \/ Retry(t) PROVE Ended' /\ \A u \in Tasks : Quiet(u) \/ Starts(u)
    BY <1>4, <2>3
  <2>4. ASSUME NEW t \in Tasks, \E o \in 0 .. Len(healthy) - 1 : Post(t, o)
        PROVE  Ended' /\ \A u \in Tasks : Quiet(u) \/ Starts(u)
    BY <1>8, <2>4
  <2>5. ASSUME NEW t \in Tasks, PollAnswered(t) \/ PollFailed(t) \/ PollNil(t) \/ NoNodeLeft(t)
        PROVE  Ended' /\ \A u \in Tasks : Quiet(u) \/ Starts(u)
    BY <1>5, <1>6, <1>7, <2>5
  <2>6. QED
    BY <1>1, <1>3, <2>1, <2>2, <2>3, <2>4, <2>5 DEF Internal

\* The health checks come before all requests.
LEMMA CheckFrame ==
  ASSUME IInv, Ended, NEW ok \in BOOLEAN, CheckHealth(ok)
  PROVE  Ended' /\ \A t \in Tasks : attempt'[t] = 0 /\ attempt[t] = 0 /\ ~Waits(t)' /\ ~Heard(t)'
<1>1. /\ pc = "health" /\ pc' = "health"
      /\ UNCHANGED <<cmdOf, child, stage, idOf, attempt, resp, answer>>
  BY DEF CheckHealth, tableVars, sendVars, endVars
<1>2. \A t \in Tasks : attempt[t] = 0 /\ answer[t] = "none" /\ stage[t] = "unsent"
  BY <1>1 DEF IInv, TInv, AttemptsLeft, Asking, Core, StagesOfLoop, Unstarted
<1>3. \A t \in Tasks : ~Heard(t)'
  BY <1>1, <1>2 DEF Heard, Live
<1>4. \A t \in Tasks : ~Waits(t)'
  <2>1. \A t \in Tasks : ~Waits(t)
    BY <1>1, <1>2, WaitingIsLive DEF Live, Posting
  <2>2. QED
    BY <1>1, <2>1 DEF Waits, Posting
<1>5. QED
  BY <1>1, <1>2, <1>3, <1>4 DEF Ended

\* The exchange for t's last request ends with c.
Settles(t, c) == /\ attempt'[t] = attempt[t] /\ node'[t] = node[t] /\ healthy' = healthy
                 /\ Waits(t) /\ ~Waits(t)' /\ ~Heard(t) /\ (Heard(t)' <=> c = "object")

LEMMA CurlFrame ==
  ASSUME IInv, IInv', Ended, NEW i \in Ids, NEW c \in Contents, Reply(i, c),
         UNCHANGED <<setupVars, pc, stage, idOf, attempt, outFile, node, asked, endVars>>
  PROVE  Ended' /\ \E t \in Tasks : /\ cmdOf[i] = t /\ Settles(t, c)
                                   /\ \A u \in Tasks \ {t} : Quiet(u)
<1>a. /\ TypeOK /\ TypeOK' /\ CurlOwnership /\ CurlOwnership' /\ StagesOfLoop /\ FilesOfTask
      /\ Results
  BY DEF IInv, TInv, Core
<1>b. 1 .. count \subseteq Tasks
  BY <1>a DEF TypeOK, Tasks
<1>1. UNCHANGED <<healthy, count, pc, stage, idOf, attempt, node, answer, cmdOf>>
  BY DEF setupVars, endVars, Reply, ChildExits
<1>2. PICK r \in Exits : ChildExits(i, r)
  BY DEF Reply, Exits
<1>c. InUse(i) /\ cmdOf[i] \in Tasks
  BY <1>a, <1>b, <1>2 DEF ChildExits, CurlOwnership, InUse, Sent
<1>d. PICK t \in Tasks : cmdOf[i] = t
  BY <1>c
<1>3. /\ InUse(i) /\ child[i] = "running" /\ child' = [child EXCEPT ![i] = r]
      /\ resp' = [resp EXCEPT ![t] = [@ EXCEPT ![Len(@)] = c]]
  BY <1>2, <1>d DEF ChildExits, Reply
<1>4. t \in Sent /\ idOf[t] = i /\ t \in Tasks
  BY <1>a, <1>d, <1>3 DEF CurlOwnership, InUse
<1>5. Waits(t) /\ Live(t) /\ ~Heard(t)
  <2>1. Waits(t)
    BY <1>3, <1>d DEF Waits
  <2>2. Live(t)
    BY <1>4 DEF Sent, Live
  <2>3. QED
    BY <1>4, <2>1, <2>2, WaitingIsLive
<1>6. pc # "posting"
  BY <1>a, <1>4, <1>5 DEF StagesOfLoop, Parallel, Live
<1>7. ~Waits(t)'
  <2>1. child'[idOf'[t]] = r /\ ~Posting(t)'
    BY <1>a, <1>1, <1>3, <1>4, <1>6 DEF TypeOK, TableTypeOK, Posting
  <2>2. r # "running"
    BY DEF Exits
  <2>3. QED
    BY <1>a, <1>4, <2>1, <2>2, WaitsMeansNext
<1>8. resp[t] \in Seq(Contents) /\ Len(resp[t]) # 0 /\ answer[t] = "none"
  BY <1>a, <1>4, <1>5 DEF TypeOK, FilesOfTask, Results
<1>9. resp'[t][Len(resp'[t])] = c
  <2>1. resp'[t] = [resp[t] EXCEPT ![Len(resp[t])] = c]
    BY <1>a, <1>3, <1>4 DEF TypeOK
  <2>2. Len(resp[t]) \in 1 .. Len(resp[t])
    BY <1>8, LenProperties
  <2>3. QED
    BY <1>8, <2>1, <2>2, ReplaceLast
<1>10. Heard(t)' <=> c = "object"
  BY <1>1, <1>5, <1>8, <1>9 DEF Heard, Live
<1>11. \A u \in Tasks \ {t} : SameTask(u)
  <2>1. \A u \in Tasks \ {t} : u \in Sent => idOf[u] # i /\ idOf[u] \in Ids
    <3>1. \A u \in Sent : idOf[u] # 0 /\ cmdOf[idOf[u]] = u
      BY <1>a DEF CurlOwnership, Sent
    <3>2. \A u \in Tasks : idOf[u] \in Ids \cup {0}
      BY <1>a DEF TypeOK
    <3>3. QED
      BY <1>d, <3>1, <3>2
  <2>2. \A u \in Tasks \ {t} : resp'[u] = resp[u]
    BY <1>a, <1>3 DEF TypeOK
  <2>3. \A u \in Tasks \ {t} : u \in Sent => child'[idOf[u]] = child[idOf[u]]
    BY <1>a, <1>3, <2>1 DEF TypeOK, TableTypeOK
  <2>4. QED
    BY <1>1, <1>6, <2>2, <2>3 DEF SameTask, Sent, Live, Posting
<1>12. \A u \in Tasks \ {t} : Quiet(u)
  BY <1>a, <1>1, <1>11, SameIsQuiet
<1>13. Settles(t, c)
  BY <1>1, <1>5, <1>7, <1>10 DEF Settles
<1>14. QED
  BY <1>1, <1>d, <1>12, <1>13 DEF Ended

LEMMA PostFrame ==
  ASSUME IInv, IInv', Ended, NEW t \in Tasks, HearsOf(t)
  PROVE  /\ Ended' /\ \A u \in Tasks \ {t} : Quiet(u)
         /\ PostAnswered(t) => Settles(t, "object")
         /\ PostFailed(t) => Settles(t, "none") /\ Settles(t, "error")
<1>a. /\ TypeOK /\ TypeOK' /\ CurlOwnership /\ CurlOwnership' /\ StagesOfLoop
  BY DEF IInv, TInv, Core
<1>1. /\ pc = "posting" /\ pc' # "posting" /\ t \in At("unsent") /\ \A u \in At("unsent") : t <= u
      /\ UNCHANGED <<healthy, count, idOf, attempt, resp, node, child, cmdOf>>
      /\ \/ /\ PostAnswered(t) /\ answer' = [answer EXCEPT ![t] = "object"]
            /\ stage' = [stage EXCEPT ![t] = "ended"]
         \/ /\ PostFailed(t) /\ stage' = stage
            /\ answer' = answer \/ answer' = [answer EXCEPT ![t] = "failed"]
  <2>1. CASE PostAnswered(t)
    BY <2>1 DEF PostAnswered, Posting, Current, Move, Goto, tableVars, setupVars, sendVars
  <2>2. CASE PostFailed(t)
    BY <2>2 DEF PostFailed, Posting, Current, Goto, Return, tableVars, setupVars, sendVars
  <2>3. QED
    BY <2>1, <2>2 DEF HearsOf
<1>2. stage[t] = "unsent" /\ answer[t] # "object" /\ Waits(t)
  BY <1>1 DEF At, Ended, Waits, Posting, Current
<1>3. /\ stage'[t] \in {"unsent", "ended"}
      /\ \A u \in Tasks \ {t} : stage'[u] = stage[u] /\ answer'[u] = answer[u]
  BY <1>a, <1>1, <1>2 DEF TypeOK
<1>4. \A u \in Tasks \ {t} : ~Posting(u) /\ ~Posting(u)'
  <2>1. ASSUME NEW u \in Tasks, Posting(u) PROVE u = t
    <3>1. u \in At("unsent") /\ \A v \in At("unsent") : u <= v
      BY <2>1 DEF Posting, Current
    <3>2. t <= u /\ u <= t
      BY <1>1, <3>1
    <3>3. QED
      BY <2>1, <3>2 DEF Tasks
  <2>2. QED
    BY <1>1, <2>1 DEF Posting
<1>5. \A u \in Tasks \ {t} : SameTask(u)
  BY <1>1, <1>3, <1>4 DEF SameTask, Sent, Live
<1>6. \A u \in Tasks \ {t} : Quiet(u)
  BY <1>a, <1>1, <1>5, SameIsQuiet
<1>7. ~Waits(t)'
  BY <1>a, <1>1, <1>3, WaitsMeansNext DEF Posting, Sent
<1>8. ~Heard(t) /\ (Heard(t)' <=> answer'[t] = "object")
  BY <1>2, <1>3 DEF Heard, Live
<1>9. CASE /\ PostAnswered(t) /\ answer' = [answer EXCEPT ![t] = "object"]
           /\ stage' = [stage EXCEPT ![t] = "ended"]
  <2>1. answer'[t] = "object" /\ stage'[t] = "ended" /\ ~PostFailed(t)
    <3>1. answer'[t] = "object" /\ stage'[t] = "ended"
      BY <1>a, <1>9 DEF TypeOK
    <3>2. PostFailed(t) => stage' = stage
      BY DEF PostFailed
    <3>3. QED
      BY <1>2, <3>1, <3>2
  <2>2. QED
    BY <1>1, <1>2, <1>3, <1>6, <1>7, <1>8, <2>1 DEF Settles, Ended
<1>10. CASE /\ PostFailed(t) /\ stage' = stage
            /\ answer' = answer \/ answer' = [answer EXCEPT ![t] = "failed"]
  <2>1. answer'[t] # "object" /\ ~PostAnswered(t)
    BY SMTT(30), <1>a, <1>2, <1>10 DEF TypeOK, PostAnswered
  <2>2. QED
    BY <1>1, <1>2, <1>3, <1>6, <1>7, <1>8, <2>1 DEF Settles, Ended
<1>11. QED
  BY <1>1, <1>9, <1>10

------------------------------------------------------------------------------
\* Both sides of task t's requests.  Those it has not made have not arrived, and
\* only the server it has chosen has seen the last one.  What it holds is what
\* that server has sent.  Something went wrong with every request it made that
\* was seen by a server, unless the request is the last one and still under way
\* or answered.
Pairing(t) ==
    /\ Heard(t) \/ Waits(t) => attempt[t] # 0
    /\ \A k \in Nat : k > attempt[t] /\ <<t, k>> \in Requests =>
                      conn[<<t, k>>] = "idle" /\ at[<<t, k>>] = NoServer
    /\ attempt[t] # 0 /\ at[RequestOf(t)] \in Servers => at[RequestOf(t)] = ServerOf(t)
    /\ Heard(t) /\ ServerOf(t) \in Servers => conn[RequestOf(t)] = "delivered"
    /\ \A k \in 1 .. attempt[t] : at[<<t, k>>] \in Servers =>
          \/ <<t, k>> \in fault
          \/ k = attempt[t] /\ (Waits(t) \/ Heard(t))

SystemInv == IInv /\ Ended /\ NodeInv /\ \A t \in Tasks : Pairing(t)

\* Every attempt is a request there is a name for.
LEMMA Sendable ==
  ASSUME TypeOK, NEW t \in Tasks, NEW k \in 1 .. attempt[t]
  PROVE  <<t, k>> \in Requests
<1>1. attempt[t] \in 0 .. Len(healthy) /\ Len(healthy) \in Nat /\ Len(healthy) <= checked
  BY DEF TypeOK
<1>2. checked \in 0 .. Len(nodes) /\ nodes \in NodeLists /\ Len(nodes) \in Nat
  BY DEF TypeOK
<1>3. k \in 1 .. Len(nodes)
  BY <1>1, <1>2
<1>4. Tasks \X (1 .. Len(nodes)) \subseteq Requests
  BY <1>2
<1>5. QED
  BY <1>3, <1>4

\* Nothing was lost of what the servers know of t's requests.
Remembered(t) == \A k \in Nat : <<t, k>> \in Requests =>
    /\ at'[<<t, k>>] = at[<<t, k>>]
    /\ conn[<<t, k>>] \in {"idle", "delivered"} => conn'[<<t, k>>] = conn[<<t, k>>]
    /\ <<t, k>> \in fault => <<t, k>> \in fault'

LEMMA QuietPairing ==
  ASSUME TypeOK, NEW t \in Tasks, Pairing(t), Quiet(t), Remembered(t)
  PROVE  Pairing(t)'
<1>1. attempt[t] \in Nat /\ \A k \in 1 .. attempt[t] : k \in Nat /\ <<t, k>> \in Requests
  BY Sendable DEF TypeOK
<1>2. /\ attempt'[t] = attempt[t] /\ ServerOf(t)' = ServerOf(t) /\ RequestOf(t)' = RequestOf(t)
      /\ (Heard(t)' <=> Heard(t)) /\ (Waits(t)' <=> Waits(t))
  BY DEF Quiet, ServerOf, RequestOf
<1>3. attempt[t] # 0 => /\ at'[RequestOf(t)] = at[RequestOf(t)]
                        /\ conn[RequestOf(t)] = "delivered" => conn'[RequestOf(t)] = "delivered"
  BY <1>1 DEF Remembered, RequestOf
<1>4. \A k \in Nat : k > attempt'[t] /\ <<t, k>> \in Requests =>
                      conn'[<<t, k>>] = "idle" /\ at'[<<t, k>>] = NoServer
  BY <1>2 DEF Pairing, Remembered
<1>5. \A k \in 1 .. attempt'[t] : at'[<<t, k>>] \in Servers =>
          \/ <<t, k>> \in fault'
          \/ k = attempt'[t] /\ (Waits(t)' \/ Heard(t)')
  BY <1>1, <1>2 DEF Pairing, Remembered
<1>6. QED
  BY <1>2, <1>3, <1>4, <1>5 DEF Pairing

LEMMA StartsPairing ==
  ASSUME TypeOK, TypeOK', NEW t \in Tasks, Pairing(t), Starts(t), UNCHANGED nodeVars
  PROVE  Pairing(t)'
<1> DEFINE n == attempt[t] + 1
<1>1. attempt[t] \in Nat /\ attempt'[t] = n /\ UNCHANGED <<conn, at, fault>>
  BY DEF TypeOK, Starts, nodeVars
<1>2. RequestOf(t)' = <<t, n>> /\ <<t, n>> \in Requests
  <2>1. TypeOK' => \A k \in 1 .. attempt'[t] : <<t, k>> \in Requests
    <3>1. /\ TypeOK' => attempt'[t] \in 0 .. Len(healthy)' /\ Len(healthy)' \in Nat /\ Len(healthy)' <= checked'
          /\ TypeOK' => checked' \in 0 .. Len(nodes)' /\ nodes' \in NodeLists /\ Len(nodes)' \in Nat
      BY SMTT(30) DEF TypeOK
    <3>2. TypeOK' => Tasks \X (1 .. Len(nodes)') \subseteq Requests
      BY <3>1
    <3>3. QED
      BY <3>1, <3>2
  <2>2. QED
    BY <1>1, <2>1 DEF RequestOf
<1>3. conn[<<t, n>>] = "idle" /\ at[<<t, n>>] = NoServer /\ n # 0
  BY <1>1, <1>2 DEF Pairing
<1>4. \A k \in Nat : k > n /\ <<t, k>> \in Requests =>
                      conn[<<t, k>>] = "idle" /\ at[<<t, k>>] = NoServer
  BY <1>1 DEF Pairing
<1>5. \A k \in 1 .. n : at[<<t, k>>] \in Servers => <<t, k>> \in fault
  BY <1>1, <1>3 DEF Pairing, Starts
<1>6. ~Heard(t)'
  BY DEF Starts
<1>7. QED
  BY <1>1, <1>2, <1>3, <1>4, <1>5, <1>6 DEF Pairing

\* The end of an exchange: nobody the model knows was asked, or the answer that
\* was read is an object, or something went wrong.
LEMMA SettlesPairing ==
  ASSUME TypeOK, NEW t \in Tasks, NEW c \in Contents, Pairing(t), Settles(t, c),
         at' = at, fault \subseteq fault', Others(RequestOf(t)),
         \/ ServerOf(t) \notin Servers
         \/ IF c = "object" THEN conn'[RequestOf(t)] = "delivered" ELSE RequestOf(t) \in fault'
  PROVE  Pairing(t)'
<1>1. attempt[t] \in Nat /\ attempt[t] # 0
  BY DEF TypeOK, Settles, Pairing
<1>2. /\ attempt'[t] = attempt[t] /\ ServerOf(t)' = ServerOf(t) /\ RequestOf(t)' = RequestOf(t)
      /\ (Heard(t)' <=> c = "object") /\ ~Waits(t)' /\ ~Heard(t)
  BY DEF Settles, ServerOf, RequestOf
<1>3. \A k \in Nat : k > attempt[t] /\ <<t, k>> \in Requests =>
                      conn'[<<t, k>>] = "idle" /\ at'[<<t, k>>] = NoServer
  <2>1. \A k \in Nat : k > attempt[t] => <<t, k>> # RequestOf(t)
    BY <1>1 DEF RequestOf
  <2>2. QED
    BY <2>1 DEF Pairing, Others
<1>4. \A k \in 1 .. attempt[t] : at[<<t, k>>] \in Servers =>
          <<t, k>> \in fault' \/ (k = attempt[t] /\ c = "object")
  <2>1. \A k \in 1 .. attempt[t] : at[<<t, k>>] \in Servers => <<t, k>> \in fault \/ k = attempt[t]
    BY DEF Pairing
  <2>2. at[RequestOf(t)] \in Servers /\ c # "object" => RequestOf(t) \in fault'
    BY <1>1 DEF Pairing
  <2>3. QED
    BY <2>1, <2>2 DEF RequestOf
<1>5. Heard(t)' /\ ServerOf(t) \in Servers => conn'[RequestOf(t)] = "delivered"
  BY <1>2
<1>6. attempt[t] # 0 /\ at'[RequestOf(t)] \in Servers => at'[RequestOf(t)] = ServerOf(t)
  BY DEF Pairing
<1>7. \A k \in 1 .. attempt'[t] : at'[<<t, k>>] \in Servers =>
          \/ <<t, k>> \in fault'
          \/ k = attempt'[t] /\ (Waits(t)' \/ Heard(t)')
  BY <1>2, <1>4
<1>8. QED
  BY <1>1, <1>2, <1>3, <1>5, <1>6, <1>7 DEF Pairing

\* A request arrives at the server its task has chosen.
LEMMA ArrivePairing ==
  ASSUME TypeOK, NEW t \in Tasks, Pairing(t), Quiet(t), Waits(t), ~Heard(t),
         Others(RequestOf(t)), at'[RequestOf(t)] = ServerOf(t), fault' = fault
  PROVE  Pairing(t)'
<1>1. attempt[t] \in Nat /\ attempt[t] # 0
  BY DEF TypeOK, Pairing
<1>2. /\ attempt'[t] = attempt[t] /\ ServerOf(t)' = ServerOf(t) /\ RequestOf(t)' = RequestOf(t)
      /\ ~Heard(t)' /\ Waits(t)'
  BY DEF Quiet, ServerOf, RequestOf
<1>3. \A k \in Nat : k # attempt[t] => <<t, k>> # RequestOf(t)
  BY <1>1 DEF RequestOf
<1>4. \A k \in Nat : k > attempt[t] /\ <<t, k>> \in Requests =>
                      conn'[<<t, k>>] = "idle" /\ at'[<<t, k>>] = NoServer
  BY <1>1, <1>3 DEF Pairing, Others
<1>5. \A k \in 1 .. attempt[t] : at'[<<t, k>>] \in Servers =>
          <<t, k>> \in fault' \/ k = attempt[t]
  <2>1. \A k \in 1 .. attempt[t] : k \in Nat /\ <<t, k>> \in Requests
    BY <1>1, Sendable
  <2>2. QED
    BY <1>3, <2>1 DEF Pairing, Others
<1>6. QED
  BY <1>1, <1>2, <1>4, <1>5 DEF Pairing

\* Steps that do not touch t's connections.
LEMMA OthersRemember ==
  ASSUME NEW t \in Tasks, NEW u \in Tasks \ {t}, Others(RequestOf(t)), fault \subseteq fault'
  PROVE  Remembered(u)
<1>1. \A k \in Nat : <<u, k>> # RequestOf(t)
  BY DEF RequestOf
<1>2. QED
  BY <1>1 DEF Others, Remembered

LEMMA InitSystemInv == SystemInit => SystemInv
<1>1. SUFFICES ASSUME SystemInit PROVE SystemInv
  OBVIOUS
<1>2. Init /\ NodeInit /\ IInv /\ NodeInv
  BY <1>1, InitTInv, InitCore, InitAsking, InitNodeInv DEF SystemInit, IInv
<1>3. \A t \in Tasks : answer[t] = "none" /\ stage[t] = "unsent" /\ attempt[t] = 0
  BY <1>2 DEF Init
<1>4. Ended
  BY <1>3 DEF Ended
<1>5. \A t \in Tasks : ~Heard(t) /\ ~Waits(t)
  <2>1. pc = "start"
    BY <1>2 DEF Init
  <2>2. \A t \in Tasks : ~Heard(t) /\ ~Live(t) /\ ~Posting(t)
    BY <1>3, <2>1 DEF Heard, Live, Posting
  <2>3. QED
    BY <1>2, <1>4, <2>2, WaitingIsLive
<1>6. \A r \in Requests : conn[r] = "idle" /\ at[r] = NoServer
  BY <1>2 DEF NodeInit
<1>7. \A t \in Tasks : Pairing(t)
  BY <1>3, <1>5, <1>6 DEF Pairing
<1>8. QED
  BY <1>2, <1>4, <1>7 DEF SystemInv

LEMMA SystemInvStep ==
  ASSUME ~SigChldIgnored, SystemInv, [SystemNext]_systemVars
  PROVE  SystemInv'
<1>a. IInv /\ Ended /\ NodeInv /\ \A t \in Tasks : Pairing(t)
  BY DEF SystemInv
<1>b. IInv'
  BY <1>a, StepRefines, TInvStep, CoreStep, AskingStep DEF IInv
<1>c. /\ TypeOK /\ TypeOK' /\ CurlOwnership /\ CurlOwnership'
  BY <1>a, <1>b DEF IInv, TInv, Core
<1>d. ASSUME UNCHANGED spkgVars PROVE Ended' /\ \A t \in Tasks : Quiet(t)
  <2>1. UNCHANGED <<cmdOf, child, healthy, count, pc, stage, idOf, attempt, resp, node, answer>>
    BY <1>d DEF spkgVars, vars, tableVars, setupVars, sendVars, endVars
  <2>2. Ended' /\ \A t \in Tasks : SameTask(t)
    BY <1>a, <2>1 DEF Ended, SameTask, Live, Sent, Posting, Current, At
  <2>3. QED
    BY <1>c, <2>1, <2>2, SameIsQuiet
<1>e. ASSUME UNCHANGED nodeVars PROVE NodeInv' /\ \A t \in Tasks : Remembered(t)
  <2>1. UNCHANGED <<conn, at, life, active, handling, compiler, files, fault>>
    BY <1>e DEF nodeVars, workVars
  <2>2. NodeInv'
    BY <1>a, <2>1 DEF NodeInv, NodeTypeOK, Work, Sound
  <2>3. QED
    BY <2>1, <2>2 DEF Remembered
<1>f. \A t \in Tasks : attempt[t] # 0 => RequestOf(t) \in Requests
  <2>1. ASSUME NEW t \in Tasks, attempt[t] # 0 PROVE RequestOf(t) \in Requests
    <3>1. attempt[t] \in 1 .. attempt[t]
      BY SMTT(30), <1>c, <2>1 DEF TypeOK
    <3>2. QED
      BY <1>c, <3>1, Sendable DEF RequestOf
  <2>2. QED
    BY <2>1
<1>g. \A t \in Tasks : Waits(t) => RequestOf(t) \in Requests /\ ~Heard(t)
  BY <1>a, <1>f, WaitingIsLive DEF Pairing
<1>1. CASE UNCHANGED systemVars
  <2>1. UNCHANGED spkgVars /\ UNCHANGED nodeVars
    BY <1>1 DEF systemVars, spkgVars
  <2>2. \A t \in Tasks : Pairing(t)'
    BY <1>a, <1>c, <1>d, <1>e, <2>1, QuietPairing
  <2>3. QED
    BY <1>b, <1>d, <1>e, <2>1, <2>2 DEF SystemInv
<1>2. CASE UNCHANGED nodeVars /\ Internal
  <2>1. Ended' /\ \A t \in Tasks : Quiet(t) \/ Starts(t)
    BY <1>a, <1>b, <1>2, InternalFrame
  <2>2. ASSUME NEW t \in Tasks PROVE Pairing(t)'
    <3>1. CASE Quiet(t)
      BY <1>a, <1>c, <1>e, <1>2, <3>1, QuietPairing
    <3>2. CASE Starts(t)
      BY <1>a, <1>c, <1>2, <3>2, StartsPairing
    <3>3. QED
      BY <2>1, <3>1, <3>2
  <2>3. QED
    BY <1>b, <1>e, <1>2, <2>1, <2>2 DEF SystemInv
<1>3. ASSUME NEW ok \in BOOLEAN, HealthEnds(ok) PROVE SystemInv'
  <2>1. CheckHealth(ok) /\ UNCHANGED nodeVars
    BY <1>3 DEF HealthEnds
  <2>2. Ended' /\ \A t \in Tasks : attempt'[t] = 0 /\ attempt[t] = 0 /\ ~Waits(t)' /\ ~Heard(t)'
    BY <1>a, <2>1, CheckFrame
  <2>3. UNCHANGED <<conn, at, fault>>
    BY <2>1 DEF nodeVars
  <2>4. \A t \in Tasks : Pairing(t)'
    BY <1>a, <2>2, <2>3 DEF Pairing
  <2>5. QED
    BY <1>b, <1>e, <2>1, <2>2, <2>4 DEF SystemInv
<1>4. ASSUME NEW t \in Tasks, NEW c \in Contents, Settles(t, c),
             Ended', \A u \in Tasks \ {t} : Quiet(u),
             \/ HearsStranger(t)
             \/ c # "none" /\ Hears(t, c)
             \/ c # "object" /\ HearsNothing(t)
      PROVE  SystemInv'
  <2>1. RequestOf(t) \in Requests
    BY <1>g, <1>4 DEF Settles
  <2>2. /\ NodeInv' /\ Others(RequestOf(t)) /\ at' = at /\ fault \subseteq fault'
        /\ \/ ServerOf(t) \notin Servers
           \/ IF c = "object" THEN conn'[RequestOf(t)] = "delivered" ELSE RequestOf(t) \in fault'
    <3>1. CASE HearsStranger(t)
      <4>1. ServerOf(t) \notin Servers /\ UNCHANGED nodeVars
        BY <3>1 DEF HearsStranger
      <4>2. UNCHANGED <<conn, at, fault>>
        BY <4>1 DEF nodeVars
      <4>3. QED
        BY <1>e, <4>1, <4>2 DEF Others
    <3>2. CASE c # "none" /\ Hears(t, c)
      <4>1. PICK used \in BOOLEAN : used = (c = "object")
        OBVIOUS
      <4>2. Read(RequestOf(t), used)
        BY <3>2, <4>1, Zenon DEF Hears
      <4>3. /\ NodeInv' /\ Others(RequestOf(t)) /\ at' = at /\ fault \subseteq fault'
            /\ IF used THEN conn'[RequestOf(t)] = "delivered" ELSE RequestOf(t) \in fault'
        BY <1>a, <2>1, <4>2, ReadInv
      <4>4. QED
        BY <4>1, <4>3
    <3>3. CASE c # "object" /\ HearsNothing(t)
      BY <1>a, <2>1, <3>3, LeaveInv DEF HearsNothing
    <3>4. QED
      BY <1>4, <3>1, <3>2, <3>3
  <2>3. Pairing(t)'
    BY <1>a, <1>c, <1>4, <2>2, SettlesPairing
  <2>4. \A u \in Tasks \ {t} : Pairing(u)'
    BY <1>a, <1>c, <1>4, <2>2, OthersRemember, QuietPairing
  <2>5. QED
    BY <1>b, <1>4, <2>2, <2>3, <2>4 DEF SystemInv
<1>5. ASSUME NEW t \in Tasks, PostEnds(t) PROVE SystemInv'
  <2>1. HearsOf(t)
    BY <1>5 DEF PostEnds, HearsOf
  <2>2. /\ Ended' /\ \A u \in Tasks \ {t} : Quiet(u)
        /\ PostAnswered(t) => Settles(t, "object")
        /\ PostFailed(t) => Settles(t, "none") /\ Settles(t, "error")
    BY <1>a, <1>b, <2>1, PostFrame
  <2>3. "none" \in Contents /\ "object" \in Contents /\ "error" \in Contents
    BY DEF Contents
  <2>4. CASE PostAnswered(t) /\ (HearsStranger(t) \/ Hears(t, "object"))
    BY <1>4, <2>2, <2>3, <2>4
  <2>5. CASE PostFailed(t) /\ (HearsStranger(t) \/ HearsNothing(t))
    BY <1>4, <2>2, <2>3, <2>5
  <2>6. CASE PostFailed(t) /\ Hears(t, "error")
    BY <1>4, <2>2, <2>3, <2>6
  <2>7. QED
    BY <1>5, <2>4, <2>5, <2>6 DEF PostEnds
<1>6. ASSUME NEW i \in Ids, CurlEnds(i) PROVE SystemInv'
  <2>1. /\ \E c \in Contents :
              /\ Reply(i, c)
              /\ \/ HearsStranger(cmdOf[i])
                 \/ IF c = "none" THEN HearsNothing(cmdOf[i]) ELSE Hears(cmdOf[i], c)
        /\ UNCHANGED <<setupVars, pc, stage, idOf, attempt, outFile, node, asked, endVars>>
    BY <1>6 DEF CurlEnds
  <2>2. PICK c \in Contents :
              /\ Reply(i, c)
              /\ \/ HearsStranger(cmdOf[i])
                 \/ IF c = "none" THEN HearsNothing(cmdOf[i]) ELSE Hears(cmdOf[i], c)
    BY <2>1
  <2>3. Ended' /\ \E t \in Tasks : cmdOf[i] = t /\ Settles(t, c) /\ \A u \in Tasks \ {t} : Quiet(u)
    BY <1>a, <1>b, <2>1, <2>2, CurlFrame
  <2>4. PICK t \in Tasks : cmdOf[i] = t /\ Settles(t, c) /\ \A u \in Tasks \ {t} : Quiet(u)
    BY <2>3
  <2>5. \/ HearsStranger(t)
        \/ c # "none" /\ Hears(t, c)
        \/ c # "object" /\ HearsNothing(t)
    BY <2>2, <2>4
  <2>6. QED
    BY <1>4, <2>3, <2>4, <2>5
<1>7. ASSUME NEW t \in Tasks, Arrive(t) PROVE SystemInv'
  <2>1. Waits(t) /\ ServerOf(t) \in Servers /\ Deliver(ServerOf(t), RequestOf(t)) /\ UNCHANGED spkgVars
    BY <1>7 DEF Arrive
  <2>2. RequestOf(t) \in Requests /\ ~Heard(t)
    BY <1>g, <2>1
  <2>3. NodeInv' /\ Others(RequestOf(t)) /\ fault' = fault /\ at'[RequestOf(t)] = ServerOf(t)
    BY <1>a, <2>1, <2>2, DeliverInv
  <2>4. Pairing(t)'
    BY <1>a, <1>c, <1>d, <2>1, <2>2, <2>3, ArrivePairing
  <2>5. \A u \in Tasks \ {t} : Pairing(u)'
    BY <1>a, <1>c, <1>d, <2>1, <2>3, OthersRemember, QuietPairing
  <2>6. QED
    BY <1>b, <1>d, <2>1, <2>3, <2>4, <2>5 DEF SystemInv
<1>8. ASSUME NEW n \in Servers, UNCHANGED spkgVars, NodeStep(n) PROVE SystemInv'
  <2>1. NodeInv' /\ Kept
    BY <1>a, <1>8, NodeStepInv
  <2>2. \A t \in Tasks : Remembered(t)
    BY <2>1 DEF Kept, Remembered
  <2>3. \A t \in Tasks : Pairing(t)'
    BY <1>a, <1>c, <1>d, <1>8, <2>2, QuietPairing
  <2>4. QED
    BY <1>b, <1>d, <1>8, <2>1, <2>3 DEF SystemInv
<1>9. QED
  BY <1>1, <1>2, <1>3, <1>5, <1>6, <1>7, <1>8 DEF SystemNext, Coordinator

\* The inductive invariant of the composition.
THEOREM SystemInvariant == ASSUME ~SigChldIgnored PROVE SystemSpec => []SystemInv
<1>1. SystemInit => SystemInv
  BY InitSystemInv
<1>2. SystemInv /\ [SystemNext]_systemVars => SystemInv'
  BY SystemInvStep
<1>3. QED
  BY <1>1, <1>2, PTL DEF SystemSpec

\* Every variable of the coordinator and of the servers keeps its type; g_active
\* stays within --max-jobs and no task has more attempts than healthy servers.
THEOREM SystemTypeCorrect == ASSUME ~SigChldIgnored PROVE SystemSpec => []SystemTypeOK
<1>1. SystemInv => SystemTypeOK
  BY DEF SystemInv, IInv, TInv, NodeInv, SystemTypeOK
<1>2. QED
  BY <1>1, SystemInvariant, PTL

\* A server that is back in its poll loop has nothing left of the requests it has
\* handled: no compiler, no file, no count, whatever became of them.
THEOREM AtRestHolds == ASSUME ~SigChldIgnored PROVE SystemSpec => []AtRest
<1>1. SystemInv => AtRest
  BY DEF SystemInv, NodeInv, Work, AtRest, InPoll
<1>2. QED
  BY <1>1, SystemInvariant, PTL

\* What is taken for a task's object is what its server sent for that very
\* attempt, and a whole one.
THEOREM AnswerIsWholeHolds == ASSUME ~SigChldIgnored PROVE SystemSpec => []AnswerIsWhole
<1>1. SystemInv => AnswerIsWhole
  BY DEF SystemInv, Pairing, Heard, AnswerIsWhole
<1>2. QED
  BY <1>1, SystemInvariant, PTL

\* A task is given up only when something went wrong with each of its requests
\* that a server saw.
THEOREM FailureHasCauseHolds == ASSUME ~SigChldIgnored PROVE SystemSpec => []FailureHasCause
<1>1. SystemInv => FailureHasCause
  <2>1. SUFFICES ASSUME SystemInv, NEW t \in Tasks, answer[t] = "failed"
                 PROVE  \A k \in 1 .. attempt[t] : at[<<t, k>>] \in Servers => <<t, k>> \in fault
    BY DEF FailureHasCause
  <2>2. IInv /\ Ended /\ Pairing(t) /\ Results /\ StagesOfLoop
    BY <2>1 DEF SystemInv, IInv, Core
  <2>3. stage[t] = "ended" \/ pc = "done"
    BY <2>1, <2>2 DEF IInv, Asking
  <2>4. ~Live(t) /\ ~Posting(t)
    BY <2>1, <2>2, <2>3 DEF Results, Live, Posting, Current, At
  <2>5. ~Heard(t) /\ ~Waits(t)
    BY <2>1, <2>2, <2>4, WaitingIsLive DEF Heard
  <2>6. QED
    BY <2>2, <2>5 DEF Pairing
<1>2. QED
  BY <1>1, SystemInvariant, PTL

\* What is proved of the coordinator in any environment holds of it with these
\* servers.
THEOREM CoordinatorHolds ==
  ASSUME ~SigChldIgnored
  PROVE  SystemSpec => [](/\ CurlOwnership /\ AnswersAreTrue /\ GivenUpOnlyAfterAll
                          /\ SuccessIsComplete /\ NothingLeftBehind)
BY CompositionRefines, OwnershipHolds, AnswersAreTrueHolds, GivenUpHolds, SuccessHolds,
   ReturnIsClean, PTL

------------------------------------------------------------------------------
(* How far the servers are from rest.  A connection only goes forward, from    *)
(* its arrival to its end, whether its client stays or leaves; so does a       *)
(* server's handler, once it has taken a request, through the compiler and the *)
(* time-out; and a server that went down stays down.                           *)

ConnLevel(c) ==
    CASE c = "idle" -> 0 [] c = "queued" -> 1 [] c = "abandoned" -> 2 [] c = "busy" -> 3
      [] c = "zombie" -> 4 [] c \in Buffered -> 5 [] OTHER -> 6
ThreadLevel(n) ==
    IF handling[n] = NoRequest THEN 4
    ELSE CASE compiler[n] = "none" -> 0 [] compiler[n] = "running" -> 1
           [] compiler[n] = "orphan" -> 2 [] OTHER -> 3

ConnLevels == [r \in Requests |-> ConnLevel(conn[r])]
LifeLevels == [n \in Servers |-> IF life[n] = "up" THEN 0 ELSE 1]
ThreadLevels == [n \in Servers |-> ThreadLevel(n)]

NodeRank == << Cardinality(Ahead(Requests, 6, ConnLevels)),
               Cardinality(Ahead(Servers, 1, LifeLevels)),
               Cardinality(Ahead(Servers, 4, ThreadLevels)), 0 >>

FiniteSystem == IsFiniteSet(Requests) /\ IsFiniteSet(Servers)

LEMMA NodeRankType == ASSUME FiniteSystem PROVE NodeRank \in RankSet
BY AheadIsFinite DEF FiniteSystem, NodeRank, RankSet

LEMMA NodeLevelsType ==
  /\ ConnLevels \in [Requests -> 0 .. 6] /\ ConnLevels' \in [Requests -> 0 .. 6]
  /\ LifeLevels \in [Servers -> 0 .. 1] /\ LifeLevels' \in [Servers -> 0 .. 1]
  /\ ThreadLevels \in [Servers -> 0 .. 4] /\ ThreadLevels' \in [Servers -> 0 .. 4]
<1>1. \A c : ConnLevel(c) \in 0 .. 6
  BY DEF ConnLevel
<1>2. \A n : ThreadLevel(n) \in 0 .. 4 /\ ThreadLevel(n)' \in 0 .. 4
  BY DEF ThreadLevel
<1>3. QED
  BY <1>1, <1>2 DEF ConnLevels, LifeLevels, ThreadLevels

\* No connection goes back.
Forward == \A r \in Requests : ConnLevel(conn[r]) <= ConnLevel(conn'[r])

LEMMA ConnLowers ==
  ASSUME FiniteSystem, Forward, NEW r \in Requests, ConnLevel(conn[r]) < ConnLevel(conn'[r])
  PROVE  Lower(NodeRank', NodeRank)
<1>1. \A q \in Requests : ConnLevels[q] <= ConnLevels'[q]
  BY DEF Forward, ConnLevels
<1>2. ConnLevels[r] < ConnLevels'[r]
  BY DEF ConnLevels
<1>3. Cardinality(Ahead(Requests, 6, ConnLevels')) < Cardinality(Ahead(Requests, 6, ConnLevels))
  BY <1>1, <1>2, NodeLevelsType, Advance DEF FiniteSystem
<1>4. QED
  BY <1>3 DEF NodeRank, Lower

\* Otherwise, if all go forward, none moves.
LEMMA ForwardIsStill ==
  ASSUME Forward, ~ \E r \in Requests : ConnLevel(conn[r]) < ConnLevel(conn'[r])
  PROVE  ConnLevels' = ConnLevels
<1>1. \A c : ConnLevel(c) \in Nat
  BY DEF ConnLevel
<1>2. \A r \in Requests : ConnLevel(conn'[r]) = ConnLevel(conn[r])
  BY <1>1 DEF Forward
<1>3. QED
  BY <1>2 DEF ConnLevels

LEMMA LifeLowers ==
  ASSUME FiniteSystem, NodeTypeOK, Forward, NEW n \in Servers, life[n] = "up",
         life' = [life EXCEPT ![n] = "down"]
  PROVE  Lower(NodeRank', NodeRank)
<1>1. CASE \E r \in Requests : ConnLevel(conn[r]) < ConnLevel(conn'[r])
  BY <1>1, ConnLowers
<1>2. CASE ~ \E r \in Requests : ConnLevel(conn[r]) < ConnLevel(conn'[r])
  <2>1. ConnLevels' = ConnLevels
    BY <1>2, ForwardIsStill
  <2>2. life'[n] = "down" /\ \A m \in Servers : m # n => life'[m] = life[m]
    BY DEF NodeTypeOK
  <2>3. (\A m \in Servers : LifeLevels[m] <= LifeLevels'[m]) /\ LifeLevels[n] < LifeLevels'[n]
    BY <2>2 DEF LifeLevels
  <2>4. Cardinality(Ahead(Servers, 1, LifeLevels')) < Cardinality(Ahead(Servers, 1, LifeLevels))
    BY <2>3, NodeLevelsType, Advance DEF FiniteSystem
  <2>5. QED
    BY <2>1, <2>4 DEF NodeRank, Lower
<1>3. QED
  BY <1>1, <1>2

\* A handler goes on.
LEMMA ThreadLowers ==
  ASSUME FiniteSystem, Forward, life' = life, NEW n \in Servers,
         ThreadLevel(n) < ThreadLevel(n)',
         \A m \in Servers : m # n => handling'[m] = handling[m] /\ compiler'[m] = compiler[m]
  PROVE  Lower(NodeRank', NodeRank)
<1>1. CASE \E r \in Requests : ConnLevel(conn[r]) < ConnLevel(conn'[r])
  BY <1>1, ConnLowers
<1>2. CASE ~ \E r \in Requests : ConnLevel(conn[r]) < ConnLevel(conn'[r])
  <2>1. ConnLevels' = ConnLevels /\ LifeLevels' = LifeLevels
    BY <1>2, ForwardIsStill DEF LifeLevels
  <2>2. \A m \in Servers : m # n => ThreadLevel(m)' = ThreadLevel(m)
    BY DEF ThreadLevel
  <2>3. \A m \in Servers : ThreadLevels[m] = ThreadLevel(m) /\ ThreadLevels'[m] = ThreadLevel(m)'
    BY DEF ThreadLevels
  <2>4. /\ \A m \in Servers : ThreadLevels[m] <= ThreadLevels'[m]
        /\ ThreadLevels[n] < ThreadLevels'[n]
    BY <2>2, <2>3, NodeLevelsType
  <2>5. Cardinality(Ahead(Servers, 4, ThreadLevels')) < Cardinality(Ahead(Servers, 4, ThreadLevels))
    BY <2>4, NodeLevelsType, Advance DEF FiniteSystem
  <2>6. QED
    BY <2>1, <2>5 DEF NodeRank, Lower
<1>3. QED
  BY <1>1, <1>2

\* Where one connection changes.
LEMMA OneForward ==
  ASSUME NodeTypeOK, NEW r \in Requests, NEW c, conn' = [conn EXCEPT ![r] = c],
         ConnLevel(conn[r]) <= ConnLevel(c)
  PROVE  Forward /\ conn'[r] = c
<1>1. \A q : ConnLevel(q) \in Nat
  BY DEF ConnLevel
<1>2. conn'[r] = c /\ \A q \in Requests : q # r => conn'[q] = conn[q]
  BY DEF NodeTypeOK
<1>3. QED
  BY <1>1, <1>2 DEF Forward

LEMMA StillForward == ASSUME conn' = conn PROVE Forward
<1>1. \A q : ConnLevel(q) \in Nat
  BY DEF ConnLevel
<1>2. QED
  BY <1>1 DEF Forward

LEMMA HangUpForward == ASSUME NodeTypeOK, NEW n \in Servers, HangUp(n) PROVE Forward
<1>1. \A q : ConnLevel(q) \in Nat /\ ConnLevel(q) <= 6
  BY DEF ConnLevel
<1>2. ConnLevel("ended") = 6
  BY DEF ConnLevel, Buffered
<1>3. \A q \in Requests : conn'[q] \in {conn[q], "ended"}
  BY DEF HangUp
<1>4. QED
  BY <1>1, <1>2, <1>3 DEF Forward

\* A request the server has just read.
LEMMA ReadLowers ==
  ASSUME FiniteSystem, NodeTypeOK, NEW n \in Servers, NEW r \in Requests, Reads(n, r),
         \/ Take(n, r)
         \/ \E c \in {"error", "ended"} : conn' = [conn EXCEPT ![r] = Outcome(r, c)]
  PROVE  Lower(NodeRank', NodeRank)
<1>1. conn[r] \in {"queued", "abandoned"}
  BY DEF Reads, Waiting
<1>2. PICK c : /\ conn' = [conn EXCEPT ![r] = c]
               /\ \/ c = IF conn[r] = "queued" THEN "busy" ELSE "zombie"
                  \/ c \in {"error", "ended"}
  BY DEF Take, Outcome
<1>3. ConnLevel(conn[r]) < ConnLevel(c) /\ ConnLevel(conn[r]) <= ConnLevel(c)
  BY <1>1, <1>2 DEF ConnLevel, Buffered
<1>4. QED
  BY <1>2, <1>3, OneForward, ConnLowers

LEMMA NodeStepLowers ==
  ASSUME FiniteSystem, NodeInv, NEW n \in Servers, NodeStep(n)
  PROVE  Lower(NodeRank', NodeRank)
<1>1. NodeTypeOK /\ Work(n)
  BY DEF NodeInv
<1>2. CASE \E r \in Requests : Refuse(n, r) \/ FlagsTooLong(n, r) \/ Begin(n, r) \/ BeginFails(n, r)
  BY <1>1, <1>2, ReadLowers DEF Refuse, FlagsTooLong, Begin, BeginFails, Answer
<1>3. CASE CompilerEnds(n) \/ TimesOut(n) \/ OrphanEnds(n)
  <2>1. /\ UNCHANGED <<conn, life, handling>> /\ handling[n] # NoRequest
        /\ \E c \in Compilers : compiler' = [compiler EXCEPT ![n] = c]
        /\ \/ compiler[n] = "running" /\ compiler'[n] \in {"ok", "failed", "orphan"}
           \/ compiler[n] = "orphan" /\ compiler'[n] = "failed"
    BY <1>1, <1>3 DEF CompilerEnds, TimesOut, OrphanEnds, Fails, Work, Compilers, NodeTypeOK
  <2>2. \A m \in Servers : m # n => handling'[m] = handling[m] /\ compiler'[m] = compiler[m]
    BY <1>1, <2>1 DEF NodeTypeOK
  <2>3. ThreadLevel(n) < ThreadLevel(n)'
    BY <2>1 DEF ThreadLevel
  <2>4. QED
    BY <2>1, <2>2, <2>3, StillForward, ThreadLowers
<1>4. CASE Respond(n)
  <2>1. PICK c \in {"object", "damaged", "error", "ended"} :
          conn' = [conn EXCEPT ![handling[n]] = Outcome(handling[n], c)]
    BY <1>4 DEF Respond, Verdicts, Stored, Answer
  <2>2. handling[n] \in Requests /\ conn[handling[n]] \in {"busy", "zombie", "ended"}
    BY <1>1, <1>4 DEF Respond, Work, InWork
  <2>3. ConnLevel(conn[handling[n]]) <= ConnLevel(Outcome(handling[n], c))
    BY <2>2 DEF ConnLevel, Outcome, Buffered
  <2>4. Forward
    BY <1>1, <2>1, <2>2, <2>3, OneForward
  <2>5. /\ life' = life /\ handling[n] # NoRequest /\ handling'[n] = NoRequest
        /\ \A m \in Servers : m # n => handling'[m] = handling[m] /\ compiler'[m] = compiler[m]
    BY <1>1, <1>4 DEF Respond, NodeTypeOK
  <2>6. ThreadLevel(n) < ThreadLevel(n)'
    BY <2>5 DEF ThreadLevel
  <2>7. QED
    BY <2>4, <2>5, <2>6, ThreadLowers
<1>5. CASE Exit(n) \/ Crash(n)
  <2>1. HangUp(n) /\ life[n] = "up" /\ life' = [life EXCEPT ![n] = "down"]
    BY <1>5 DEF Exit, Crash, InPoll, HangUp
  <2>2. QED
    BY <1>1, <2>1, HangUpForward, LifeLowers
<1>6. QED
  BY <1>2, <1>3, <1>4, <1>5 DEF NodeStep, Handler

LEMMA ArriveLowers ==
  ASSUME FiniteSystem, NodeTypeOK, NEW t \in Tasks, RequestOf(t) \in Requests, Arrive(t)
  PROVE  Lower(NodeRank', NodeRank)
<1>1. conn[RequestOf(t)] = "idle" /\ conn' = [conn EXCEPT ![RequestOf(t)] = "queued"]
  BY DEF Arrive, Deliver
<1>2. /\ ConnLevel(conn[RequestOf(t)]) < ConnLevel("queued")
      /\ ConnLevel(conn[RequestOf(t)]) <= ConnLevel("queued")
  <2>1. ConnLevel("idle") = 0 /\ ConnLevel("queued") = 1
    BY DEF ConnLevel, Buffered
  <2>2. QED
    BY <1>1, <2>1
<1>3. Forward /\ conn'[RequestOf(t)] = "queued"
  BY <1>1, <1>2, OneForward
<1>4. QED
  BY <1>2, <1>3, ConnLowers

\* The end of an exchange, at the client.
LEMMA ClientForward ==
  ASSUME NodeTypeOK, NEW t \in Tasks, RequestOf(t) \in Requests,
         \/ HearsStranger(t) \/ HearsNothing(t)
         \/ \E c \in Contents : Hears(t, c)
  PROVE  Forward /\ UNCHANGED <<life, handling, compiler>>
<1> DEFINE r == RequestOf(t)
<1>1. CASE HearsStranger(t)
  BY <1>1, StillForward DEF HearsStranger, nodeVars, workVars
<1>2. CASE HearsNothing(t)
  <2>1. PICK c : /\ conn' = [conn EXCEPT ![r] = c]
                 /\ c = IF conn[r] = "queued" THEN "abandoned"
                        ELSE IF conn[r] = "busy" THEN "zombie" ELSE "ended"
    BY <1>2 DEF HearsNothing, Leave
  <2>2. ConnLevel(conn[r]) <= ConnLevel(c)
    BY <2>1 DEF ConnLevel, Buffered
  <2>3. QED
    BY <1>2, <2>1, <2>2, OneForward DEF HearsNothing, Leave, workVars
<1>3. CASE \E c \in Contents : Hears(t, c)
  <2>1. PICK c \in {"ended", "delivered", "spoiled"} : conn' = [conn EXCEPT ![r] = c]
    BY <1>3 DEF Hears, Read
  <2>2. ConnLevel(conn[r]) <= ConnLevel(c)
    BY <2>1 DEF ConnLevel, Buffered
  <2>3. QED
    BY <1>3, <2>1, <2>2, OneForward DEF Hears, Read, workVars
<1>4. QED
  BY <1>1, <1>2, <1>3

LEMMA ClientKeeps ==
  ASSUME FiniteSystem, NodeTypeOK, NEW t \in Tasks, RequestOf(t) \in Requests,
         \/ HearsStranger(t) \/ HearsNothing(t)
         \/ \E c \in Contents : Hears(t, c)
  PROVE  NodeRank' = NodeRank \/ Lower(NodeRank', NodeRank)
<1>1. Forward /\ UNCHANGED <<life, handling, compiler>>
  BY ClientForward
<1>2. CASE \E r \in Requests : ConnLevel(conn[r]) < ConnLevel(conn'[r])
  BY <1>1, <1>2, ConnLowers
<1>3. CASE ~ \E r \in Requests : ConnLevel(conn[r]) < ConnLevel(conn'[r])
  <2>1. ConnLevels' = ConnLevels
    BY <1>1, <1>3, ForwardIsStill
  <2>2. LifeLevels' = LifeLevels /\ ThreadLevels' = ThreadLevels
    BY <1>1 DEF LifeLevels, ThreadLevels, ThreadLevel
  <2>3. QED
    BY <2>1, <2>2 DEF NodeRank
<1>4. QED
  BY <1>2, <1>3

LEMMA RequestsOfClients ==
  ASSUME SystemInv, NEW t \in Tasks, Waits(t)
  PROVE  RequestOf(t) \in Requests
<1>1. TypeOK /\ attempt[t] # 0
  BY WaitingIsLive DEF SystemInv, IInv, TInv, Pairing
<1>2. attempt[t] \in 1 .. attempt[t]
  BY SMTT(30), <1>1 DEF TypeOK
<1>3. QED
  BY <1>1, <1>2, Sendable DEF RequestOf

\* A step of the composition is one of the coordinator's, which moves the servers'
\* connections on if anything of theirs, or one of the servers alone.
LEMMA SystemStepLowers ==
  ASSUME ~SigChldIgnored, FiniteSystem, SystemInv, SystemInv', SystemNext
  PROVE  \/ UNCHANGED spkgVars /\ Lower(NodeRank', NodeRank)
         \/ Next /\ (NodeRank' = NodeRank \/ Lower(NodeRank', NodeRank))
<1>a. NodeTypeOK /\ NodeInv /\ IInv /\ IInv' /\ Ended
  BY DEF SystemInv, NodeInv
<1>b. UNCHANGED nodeVars => NodeRank' = NodeRank
  BY DEF nodeVars, workVars, NodeRank, ConnLevels, LifeLevels, ThreadLevels, ThreadLevel
<1>1. CASE UNCHANGED nodeVars /\ Internal
  BY <1>b, <1>1 DEF Next, Spkg
<1>2. CASE \E ok \in BOOLEAN : HealthEnds(ok)
  BY <1>b, <1>2 DEF HealthEnds, Next, Spkg
<1>3. ASSUME NEW t \in Tasks, PostEnds(t)
      PROVE  Next /\ (NodeRank' = NodeRank \/ Lower(NodeRank', NodeRank))
  <2>1. HearsOf(t) /\ Posting(t)
    BY <1>3 DEF PostEnds, HearsOf, PostAnswered, PostFailed
  <2>2. RequestOf(t) \in Requests
    BY <2>1, RequestsOfClients DEF Waits
  <2>3. \/ HearsStranger(t) \/ HearsNothing(t)
        \/ \E c \in Contents : Hears(t, c)
    BY <1>3 DEF PostEnds, Contents
  <2>4. QED
    BY <1>a, <2>1, <2>2, <2>3, ClientKeeps DEF Next, Spkg
<1>4. ASSUME NEW i \in Ids, CurlEnds(i)
      PROVE  Next /\ (NodeRank' = NodeRank \/ Lower(NodeRank', NodeRank))
  <2>1. PICK c \in Contents :
              /\ Reply(i, c)
              /\ \/ HearsStranger(cmdOf[i])
                 \/ IF c = "none" THEN HearsNothing(cmdOf[i]) ELSE Hears(cmdOf[i], c)
    BY <1>4 DEF CurlEnds
  <2>2. UNCHANGED <<setupVars, pc, stage, idOf, attempt, outFile, node, asked, endVars>>
    BY <1>4 DEF CurlEnds
  <2>3. PICK t \in Tasks : cmdOf[i] = t /\ Settles(t, c)
    BY <1>a, <2>1, <2>2, CurlFrame
  <2>4. RequestOf(t) \in Requests
    BY <2>3, RequestsOfClients DEF Settles
  <2>5. CurlExits(i)
    BY <1>4 DEF CurlEnds, CurlExits
  <2>6. \/ HearsStranger(t) \/ HearsNothing(t)
        \/ \E d \in Contents : Hears(t, d)
    BY <2>1, <2>3
  <2>7. QED
    BY <1>a, <2>4, <2>5, <2>6, ClientKeeps DEF Next
<1>5. ASSUME NEW t \in Tasks, Arrive(t)
      PROVE  UNCHANGED spkgVars /\ Lower(NodeRank', NodeRank)
  <2>1. Waits(t) /\ UNCHANGED spkgVars
    BY <1>5 DEF Arrive
  <2>2. QED
    BY <1>a, <1>5, <2>1, RequestsOfClients, ArriveLowers
<1>6. ASSUME NEW n \in Servers, UNCHANGED spkgVars, NodeStep(n)
      PROVE  Lower(NodeRank', NodeRank)
  BY <1>a, <1>6, NodeStepLowers
<1>7. QED
  BY <1>1, <1>2, <1>3, <1>4, <1>5, <1>6 DEF SystemNext, Coordinator

\* The coordinator and its servers do not keep each other busy.  The servers only
\* come closer to rest, and what the coordinator does never sets them back; every
\* step of the composition brings the coordinator closer to its return or is one of
\* the servers that brings them closer to rest, save for another pass of the
\* coordinator over curls that run.
THEOREM OnlyPollingRepeats ==
  ASSUME ~SigChldIgnored, FiniteSystem
  PROVE  SystemSpec => /\ [](Rank \in RankSet /\ NodeRank \in RankSet)
                       /\ [][NodeRank' = NodeRank \/ Lower(NodeRank', NodeRank)]_systemVars
                       /\ [][\/ NextPass
                             \/ Lower(Rank', Rank)
                             \/ UNCHANGED spkgVars /\ Lower(NodeRank', NodeRank)]_systemVars
<1>1. SystemInv => Rank \in RankSet /\ NodeRank \in RankSet
  BY RankType, NodeRankType DEF SystemInv, IInv, TInv
<1>2. SystemInv /\ SystemInv' /\ [SystemNext]_systemVars =>
        [NodeRank' = NodeRank \/ Lower(NodeRank', NodeRank)]_systemVars
  BY SystemStepLowers
<1>3. SystemInv /\ SystemInv' /\ [SystemNext]_systemVars =>
        [\/ NextPass
         \/ Lower(Rank', Rank)
         \/ UNCHANGED spkgVars /\ Lower(NodeRank', NodeRank)]_systemVars
  <2>1. SystemInv /\ SystemInv' => TypeOK /\ TypeOK'
    BY DEF SystemInv, IInv, TInv
  <2>2. QED
    BY <2>1, SystemStepLowers, StepLowers
<1>4. SystemSpec => []SystemInv
  BY SystemInvariant
<1>5. QED
  BY <1>1, <1>2, <1>3, <1>4, PTL DEF SystemSpec
================================================================================
