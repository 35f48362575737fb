------------------------------ MODULE CompileNode ------------------------------
(***************************************************************************)
(* spkg-node (node.c), the compile server: one thread that polls mongoose, *)
(* runs ev_handler for a request it has read, and inside the handler a     *)
(* whole compilation, its temporary files and its time-out included.  A    *)
(* reply is put in the connection's buffer and leaves when the server is   *)
(* back in its poll loop.                                                  *)
(*                                                                         *)
(* Every request is a connection of its own.  What can be seen from        *)
(* outside between two steps of the handler is the compiler, which is a    *)
(* process, and the time the server does not answer; the rest of the       *)
(* handler is one step (Respond).  The module has no Next of its own: the  *)
(* client's half of a connection is in DistributedNodes.  A parser stuck   *)
(* on flags longer than its buffer is handling a request without a         *)
(* compiler.                                                               *)
(***************************************************************************)
EXTENDS Naturals

CONSTANTS Servers,      \* the machines that run spkg-node
          Requests,     \* POST /compile requests, each sent at most once
          Straying,     \* those with a header whose name leads out by "../"
          NoRequest,    \* marks a server in its poll loop
          NoServer,     \* marks a request that has not arrived
          MaxJobs,      \* g_max_jobs: --max-jobs
          NodeFailures  \* may mkstemp, mkdtemp, pipe, fork, malloc or a read fail?

\* What main makes of the option's value.
JobLimits == 1 .. 64

ASSUME NodeAssumption ==
    /\ NoRequest \notin Requests
    /\ Straying \subseteq Requests
    /\ NoServer \notin Servers
    /\ MaxJobs \in JobLimits
    /\ NodeFailures \in BOOLEAN

VARIABLES conn,      \* [Requests -> ConnStates]: the connection, at the server
          at,        \* [Requests -> Servers or NoServer]: where it has arrived
          life,      \* [Servers -> Lives]: the process
          active,    \* [Servers -> Nat]: g_active
          handling,  \* [Servers -> Requests or NoRequest]: what ev_handler is at
          compiler,  \* [Servers -> Compilers]: the child of compile_task
          files,     \* [Servers -> SUBSET Files]: the temporary files there may be
          fault      \* history: the requests something went wrong with

workVars == <<active, handling, compiler, files>>
nodeVars == <<conn, at, life, workVars, fault>>

\* "abandoned" and "zombie" are "queued" and "busy" after the client has left;
\* "object", "damaged" and "error" wait in the send buffer; "delivered" and
\* "spoiled" are objects the client has read.
Waiting == {"queued", "abandoned"}
InWork == {"busy", "zombie"}
Buffered == {"object", "damaged", "error"}
ConnStates == {"idle", "delivered", "spoiled", "ended"} \cup Waiting \cup InWork \cup Buffered
Lives == {"up", "down"}
Compilers == {"none", "running", "orphan", "ok", "failed"}
Files == {"headers", "source", "output", "partial", "depfile", "stray"}

NodeTypeOK == /\ conn \in [Requests -> ConnStates]
              /\ at \in [Requests -> Servers \cup {NoServer}]
              /\ life \in [Servers -> Lives]
              /\ active \in [Servers -> 0 .. MaxJobs]
              /\ handling \in [Servers -> Requests \cup {NoRequest}]
              /\ compiler \in [Servers -> Compilers]
              /\ files \in [Servers -> SUBSET Files]
              /\ fault \subseteq Requests

NodeInit == /\ conn = [r \in Requests |-> "idle"]
            /\ at = [r \in Requests |-> NoServer]
            /\ life \in [Servers -> Lives]
            /\ active = [n \in Servers |-> 0]
            /\ handling = [n \in Servers |-> NoRequest]
            /\ compiler = [n \in Servers |-> "none"]
            /\ files = [n \in Servers |-> {}]
            /\ fault = {}

\* The server is in mg_mgr_poll, not inside ev_handler: only then does it read
\* requests, answer /health and write the replies in its buffers.
InPoll(n) == life[n] = "up" /\ handling[n] = NoRequest

\* The client's bytes reach the listening socket.
Deliver(n, r) == /\ life[n] = "up"
                 /\ conn[r] = "idle"
                 /\ conn' = [conn EXCEPT ![r] = "queued"]
                 /\ at' = [at EXCEPT ![r] = n]
                 /\ UNCHANGED <<life, workVars, fault>>

Reads(n, r) == InPoll(n) /\ conn[r] \in Waiting /\ at[r] = n

\* What the handler makes of r's connection: a reply, if somebody is there to
\* read it, or none at all ("ended": malloc or ftell has failed).
Outcome(r, c) == IF conn[r] \in {"queued", "busy"} THEN c ELSE "ended"
Answer(r, c) == /\ conn' = [conn EXCEPT ![r] = Outcome(r, c)]
                /\ fault' = IF c \in {"error", "ended"} THEN fault \cup {r} ELSE fault
Take(n, r) == /\ conn' = [conn EXCEPT ![r] = IF @ = "queued" THEN "busy" ELSE "zombie"]
              /\ handling' = [handling EXCEPT ![n] = r]

\* 413: more than 10 MB; 503: "node busy", although nothing is wrong with the
\* request; 400: no source.
Refuse(n, r) == /\ Reads(n, r)
                /\ conn' = [conn EXCEPT ![r] = Outcome(r, "error")]
                /\ fault' = IF active[n] >= MaxJobs THEN fault ELSE fault \cup {r}
                /\ UNCHANGED <<at, life, workVars>>

\* json_get_cflags does not leave its loop once its 2048 bytes are full.
FlagsTooLong(n, r) == /\ Reads(n, r) /\ active[n] < MaxJobs
                      /\ Take(n, r)
                      /\ fault' = fault \cup {r}
                      /\ UNCHANGED <<at, life, active, compiler, files>>

\* What parse_headers and compile_task have made before the compiler starts.
Prepared == {"headers", "source"}

\* parse_headers makes a header's path of the request's directory and the name
\* in the request, which is the text of the #include: "../x.h" is written next to
\* the directory, in /tmp, if it can be.
Strays == {"stray"}
HasWritten(n, r, fs) == \E out \in SUBSET Strays :
                           /\ out # {} => r \in Straying
                           /\ files' = [files EXCEPT ![n] = @ \cup fs \cup out]

\* parse_headers, g_active++ and compile_task up to the fork.  Without a
\* directory for the headers the compiler is started all the same, and fails
\* or not.
Begin(n, r) == /\ Reads(n, r) /\ active[n] < MaxJobs
               /\ Take(n, r)
               /\ active' = [active EXCEPT ![n] = @ + 1]
               /\ compiler' = [compiler EXCEPT ![n] = "running"]
               /\ HasWritten(n, r, Prepared)
               /\ UNCHANGED <<at, life, fault>>

\* compile_task returns -1 before there is a compiler, and the handler cleans up.
\* When mkstemp has failed out_path is uninitialized: what is removed then is
\* nothing, or the object of an earlier request, which is gone already.
BeginFails(n, r) == /\ NodeFailures
                    /\ Reads(n, r) /\ active[n] < MaxJobs
                    /\ \E c \in {"error", "ended"} : Answer(r, c)
                    /\ HasWritten(n, r, {})
                    /\ UNCHANGED <<at, life, active, handling, compiler>>

\* A compiler that fails, or is killed, may leave part of its output.
Leaves(n, fs) == files' = [files EXCEPT ![n] = @ \cup fs]
Fails(n) == /\ compiler' = [compiler EXCEPT ![n] = "failed"]
            /\ Leaves(n, {"partial", "depfile"})

\* The shell and the compiler under it end.
CompilerEnds(n) ==
    /\ compiler[n] = "running"
    /\ \/ compiler' = [compiler EXCEPT ![n] = "ok"] /\ Leaves(n, {"output", "depfile"})
       \/ Fails(n)
    /\ UNCHANGED <<conn, at, life, active, handling, fault>>

\* After COMPILE_TIMEOUT_SEC the shell is killed; the compiler may outlive it.
MutTimesOut(n) == FALSE  \* no time-out
TimesOut(n) ==
    /\ compiler[n] = "running"
    /\ \/ compiler' = [compiler EXCEPT ![n] = "orphan"] /\ UNCHANGED files
       \/ Fails(n)
    /\ UNCHANGED <<conn, at, life, active, handling, fault>>

OrphanEnds(n) == /\ compiler[n] = "orphan"
                 /\ Fails(n)
                 /\ UNCHANGED <<conn, at, life, active, handling, fault>>

\* The pipe is read to its end, which comes when no process holds it any more.
Drained(n) == compiler[n] \in {"ok", "failed"}

\* What is answered: an error unless the compiler exited with 0, then what is
\* in the output file (the first bytes of which is_valid_object looks at),
\* unless reading or encoding it fails.
Stored(n) == IF "partial" \in files[n] THEN "damaged" ELSE "object"
MutVerdicts(n) ==  \* the exit status is not looked at
    {Stored(n), "error"}
Verdicts(n) ==
    IF compiler[n] = "ok" THEN {Stored(n), "error"} \cup (IF NodeFailures THEN {"ended"} ELSE {})
    ELSE {"error"} \cup (IF NodeFailures THEN {"ended"} ELSE {})

MutReleasedTwice(n) == active[n] - (IF compiler[n] = "ok" THEN 1 ELSE 2)  \* also on the error path
MutReleased(n) == IF compiler[n] = "ok" THEN active[n] - 1 ELSE active[n]  \* kept after a failure
Released(n) == active[n] - 1

MutCleaned(n) == files[n] \cap {"depfile", "stray"}  \* the .d is forgotten
Cleaned(n) == files[n] \cap Strays  \* remove_dir stays in the directory

\* compile_task returns and the handler runs to its end.
Respond(n) == /\ handling[n] # NoRequest /\ Drained(n)
              /\ \E c \in Verdicts(n) : Answer(handling[n], c)
              /\ active' = [active EXCEPT ![n] = Released(n)]
              /\ handling' = [handling EXCEPT ![n] = NoRequest]
              /\ compiler' = [compiler EXCEPT ![n] = "none"]
              /\ files' = [files EXCEPT ![n] = Cleaned(n)]
              /\ UNCHANGED <<at, life>>

\* The connections of a process that ends: nothing more is sent on them.
Open(n) == {r \in Requests : at[r] = n /\ conn[r] \in Waiting \cup InWork \cup Buffered}
HangUp(n) == /\ life' = [life EXCEPT ![n] = "down"]
             /\ conn' = [r \in Requests |-> IF r \in Open(n) THEN "ended" ELSE conn[r]]
             /\ fault' = fault \cup Open(n)
             /\ UNCHANGED at

\* SIGINT or SIGTERM has cleared g_running, some time ago perhaps: the loop looks
\* at it between two polls, so a compilation goes on to its end.  mg_mgr_free
\* closes the connections, those with a reply that waits to be sent included.
Exit(n) == /\ InPoll(n)
           /\ HangUp(n)
           /\ UNCHANGED workVars

\* The process is killed or the machine fails: its files stay in /tmp, where no
\* later process looks at them.
Crash(n) == /\ life[n] = "up"
            /\ HangUp(n)
            /\ active' = [active EXCEPT ![n] = 0]
            /\ handling' = [handling EXCEPT ![n] = NoRequest]
            /\ compiler' = [compiler EXCEPT ![n] = "none"]
            /\ files' = [files EXCEPT ![n] = {}]

\* The client reads the reply; an error is no use to it, nor is an object it
\* cannot decode.
Sends(r) == conn[r] \in Buffered /\ InPoll(at[r])
Read(r, used) ==
    /\ Sends(r)
    /\ used => conn[r] # "error"
    /\ conn' = [conn EXCEPT ![r] = IF ~used THEN "ended"
                                   ELSE IF @ = "object" THEN "delivered" ELSE "spoiled"]
    /\ fault' = IF used \/ conn[r] = "error" THEN fault ELSE fault \cup {r}
    /\ UNCHANGED <<at, life, workVars>>

\* The client leaves without an answer.
Leave(r) == /\ conn' = [conn EXCEPT ![r] = IF @ = "queued" THEN "abandoned"
                                          ELSE IF @ = "busy" THEN "zombie" ELSE "ended"]
            /\ fault' = fault \cup {r}
            /\ UNCHANGED <<at, life, workVars>>

\* The steps of the server's thread, and what happens to it.
Handler(n) == \/ Respond(n)
              \/ \E r \in Requests : \/ Refuse(n, r) \/ FlagsTooLong(n, r)
                                     \/ Begin(n, r) \/ BeginFails(n, r)

NodeStep(n) == \/ Handler(n) \/ CompilerEnds(n) \/ TimesOut(n) \/ OrphanEnds(n)
               \/ Exit(n) \/ Crash(n)
------------------------------------------------------------------------------
\* Whenever the server is back in its poll loop, whatever became of the request
\* before, no compiler of it is left, and g_active is 0: requests are compiled one
\* at a time, and --max-jobs never turns one away (README, "max concurrent
\* compilations").  Of its temporary files only those may be left that a header's
\* name has put outside the request's directory.
AtRest == \A n \in Servers : InPoll(n) =>
             active[n] = 0 /\ compiler[n] = "none" /\ files[n] \subseteq Strays

==============================================================================
