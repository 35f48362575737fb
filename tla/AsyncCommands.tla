---------------------------- MODULE AsyncCommands ----------------------------
(***************************************************************************)
(* The table of asynchronous shell commands behind spkg.start_cmd and      *)
(* spkg.wait_task (native.c, POSIX build).  A caller that starts a command *)
(* gets the number of the table slot its child process occupies and polls  *)
(* that number until the child has exited; polling an exited child reaps   *)
(* it, hands its exit status to the caller and frees the slot.             *)
(*                                                                         *)
(* The module has no Next of its own: its callers compose its operations   *)
(* with their own steps.  Only ChildExits is taken by somebody else, the   *)
(* child process.  Operators named Mut... are plausible mistakes in the    *)
(* definition that follows them; nothing uses them but the mutation runs.  *)
(***************************************************************************)
EXTENDS Naturals

CONSTANTS Cmds,           \* the shell commands the caller may start
          NoCmd,          \* marks a slot that is not in use
          MaxAsync,       \* MAX_ASYNC_CMDS: the number of slots (64 in the code)
          OSFailures,     \* may mkstemp or fork fail, or the compiler be missing?
          SigChldIgnored  \* did spkg inherit SIGCHLD = SIG_IGN from its parent?

ASSUME AsyncAssumption ==
    /\ NoCmd \notin Cmds
    /\ MaxAsync \in Nat \ {0}
    /\ OSFailures \in BOOLEAN
    /\ SigChldIgnored \in BOOLEAN

VARIABLES cmdOf,  \* [Ids -> Cmds or NoCmd]: .in_use and the command of .pid
          child   \* [Ids -> ChildStates]: the process .pid, as the kernel sees it

tableVars == <<cmdOf, child>>

Ids == 1 .. MaxAsync

\* How a child may end: code = 0, or anything else (a signal included).
MutExits == {"ok", "failed", "signalled"}
Exits == {"ok", "failed"}

TableTypeOK == /\ cmdOf \in [Ids -> Cmds \cup {NoCmd}]
               /\ child \in [Ids -> {"none", "running", "ok", "failed"}]

TableInit == /\ cmdOf = [i \in Ids |-> NoCmd]
             /\ child = [i \in Ids |-> "none"]

FreeIds == {i \in Ids : cmdOf[i] = NoCmd}
InUse(i) == i \in Ids \ FreeIds

\* find_async_slot takes the first free slot.
MutFirstFree(i) == i \in Ids /\ \A j \in FreeIds : i <= j  \* in_use not tested
FirstFree(i) == i \in FreeIds /\ \A j \in FreeIds : i <= j

\* n_start_cmd succeeds: fork, and the slot is returned as the task id.
StartCmd(cmd, i) ==
    /\ FirstFree(i)
    /\ cmdOf' = [cmdOf EXCEPT ![i] = cmd]
    /\ child' = [child EXCEPT ![i] = "running"]

\* n_start_cmd returns nil (or has no command to run): the table is full, or
\* mkstemp, fork or the search for the compiler failed.
StartCmdFails == /\ FreeIds = {} \/ OSFailures
                 /\ UNCHANGED tableVars

\* The shell (and the compiler under it) exits.
ChildExits(i, r) == /\ InUse(i)
                    /\ child[i] = "running"
                    /\ child' = [child EXCEPT ![i] = r]
                    /\ UNCHANGED cmdOf

MutFreeSlot(i) == child' = [child EXCEPT ![i] = "none"] /\ UNCHANGED cmdOf  \* still in use
FreeSlot(i) == /\ cmdOf' = [cmdOf EXCEPT ![i] = NoCmd]
               /\ child' = [child EXCEPT ![i] = "none"]

\* n_wait_task finds the child exited: it returns {ok = (r = "ok")}.
WaitReturns(i, r) == /\ InUse(i)
                     /\ ~SigChldIgnored
                     /\ child[i] = r
                     /\ FreeSlot(i)

\* waitpid fails when the kernel reaps the children by itself (ECHILD, once
\* the child is gone).
MutWaitFails(i) == InUse(i) /\ child[i] \in Exits  \* an exit taken for a failure
WaitFails(i) == InUse(i) /\ child[i] \in Exits /\ SigChldIgnored

\* n_wait_task returns nil: the number names no slot in use, or the child is
\* running, or waitpid fails; in the last case the slot is freed all the same.
WaitReturnsNil(i) ==
    \/ ~InUse(i) /\ UNCHANGED tableVars
    \/ InUse(i) /\ child[i] = "running" /\ UNCHANGED tableVars
    \/ WaitFails(i) /\ FreeSlot(i)

==============================================================================
