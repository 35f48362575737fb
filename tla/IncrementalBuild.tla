--------------------------- MODULE IncrementalBuild ---------------------------
(***************************************************************************)
(* Incremental compilation of one artifact (spkg_build.lua): which sources *)
(* a build compiles again, what it leaves on disk for the next one to      *)
(* decide from (the .o and its mtime, the .d, the .o.fp), and the object   *)
(* cache.  The developer edits files and flags and runs builds, one at a   *)
(* time; a build may be killed.                                            *)
(*                                                                         *)
(* A file's content is a version; an object remembers what it was compiled *)
(* from.  needs_compile only ever compares an .o's mtime with the mtime of *)
(* its source or of a header, so the model keeps the two comparisons and   *)
(* no clock: writing the source makes it newer than the .o, writing the .o *)
(* makes it newer than both.  One header stands for all: the versions in   *)
(* Including are the contents of a source that include it.                 *)
(***************************************************************************)
EXTENDS Naturals

CONSTANTS Sources,       \* the artifact's source files
          SrcVersions,   \* what a source can contain
          Including,     \* the contents that include the header
          HdrVersions,   \* what the header can contain
          Flags,         \* what config.spkg can yield as cflags and target
          Opts,          \* the values of --optimize (and --sysroot)
          NoHdr,         \* the header part of an object that includes none
          NoObj,         \* there is no such file, or no such cache entry
          Truncated,     \* what a copy_file leaves behind when it is killed
          Modes,         \* how builds are run: [cache, serial], see mode
          StartsFail,    \* may start_cmd fail for want of a process or a slot?
          EditsInBuild,  \* does the developer edit files while spkg runs?
          Crashes        \* may a build be killed?

ASSUME BuildAssumption ==
    /\ Including \subseteq SrcVersions
    /\ NoHdr \notin HdrVersions
    /\ NoObj # Truncated
    /\ NoObj \notin Flags \cup HdrVersions \cup {NoHdr}
    /\ Modes # {} /\ Modes \subseteq [cache : BOOLEAN, serial : BOOLEAN]
    /\ StartsFail \in BOOLEAN /\ EditsInBuild \in BOOLEAN /\ Crashes \in BOOLEAN

VARIABLES src,       \* [Sources -> SrcVersions]: the source files
          hdr,       \* the header file
          flags,     \* the cflags config.spkg yields now
          obj,       \* [Sources -> objects, NoObj or Truncated]: the .o files
          srcNewer,  \* [Sources -> BOOLEAN]: mtime of the source > mtime of the .o
          hdrNewer,  \* [Sources -> BOOLEAN]: mtime of the header > mtime of the .o
          dep,       \* [Sources -> BOOLEAN]: does the .d exist and name the header?
          fp,        \* [Sources -> Flags or NoObj]: the .o.fp files
          cache,     \* [Keys -> objects, NoObj or Truncated]: ~/.spkg-cache
          phase,     \* [Sources -> Phases]: how far the build is with each source
          read,      \* [Sources -> what its compiler has read of it]
          memo,      \* [Sources -> header fingerprint]: _header_ctx_cache
          cmd,       \* the [flags, opt] of the running (or last) build
          mode,      \* its --no-cache (~cache) and --jobs (serial: --jobs 1)
          ok,        \* did the last build end with success?
          unchanged  \* has no input been edited since the last build began?

inputVars == <<src, hdr, flags>>
diskVars == <<obj, srcNewer, hdrNewer, dep>>
taskVars == <<read, memo, cmd, mode>>
report == <<ok, unchanged>>
vars == <<inputVars, diskVars, fp, cache, phase, taskVars, report>>

Headers == HdrVersions \cup {NoHdr}
HdrOf(c, h) == IF c \in Including THEN h ELSE NoHdr
Compile(c, h, f, o) == [src |-> c, hdr |-> HdrOf(c, h), flags |-> f, opt |-> o]
Objects == [src : SrcVersions, hdr : Headers, flags : Flags, opt : Opts]
OnDisk == Objects \cup {NoObj, Truncated}

ASSUME ObjectAssumption == NoObj \notin Objects /\ Truncated \notin Objects

\* The parts of cache_key_for that can change; --optimize is not one of them.
Keys == [flags : Flags, src : SrcVersions, hdr : Headers]

Phases == {"idle", "check", "pending", "missed", "running", "read", "compiled",
           "recorded", "stored", "done", "failed"}
Active == {"running", "read", "compiled", "recorded", "stored"}

TypeOK == /\ src \in [Sources -> SrcVersions]
          /\ hdr \in HdrVersions
          /\ flags \in Flags
          /\ obj \in [Sources -> OnDisk]
          /\ srcNewer \in [Sources -> BOOLEAN]
          /\ hdrNewer \in [Sources -> BOOLEAN]
          /\ dep \in [Sources -> BOOLEAN]
          /\ fp \in [Sources -> Flags \cup {NoObj}]
          /\ cache \in [Keys -> OnDisk]
          /\ phase \in [Sources -> Phases]
          /\ read \in [Sources -> SrcVersions \X Headers]
          /\ memo \in [Sources -> Headers \cup {NoObj}]
          /\ cmd \in [flags : Flags, opt : Opts]
          /\ mode \in Modes
          /\ ok \in BOOLEAN /\ unchanged \in BOOLEAN

Init == /\ src \in [Sources -> SrcVersions] /\ hdr \in HdrVersions /\ flags \in Flags
        /\ obj = [s \in Sources |-> NoObj]
        /\ srcNewer = [s \in Sources |-> TRUE]
        /\ hdrNewer = [s \in Sources |-> TRUE]
        /\ dep = [s \in Sources |-> FALSE]
        /\ fp = [s \in Sources |-> NoObj]
        /\ cache = [k \in Keys |-> NoObj]
        /\ phase = [s \in Sources |-> "idle"]
        /\ read = [s \in Sources |-> <<src[s], NoHdr>>]
        /\ memo = [s \in Sources |-> NoObj]
        /\ cmd \in [flags : {flags}, opt : Opts]
        /\ mode \in Modes
        /\ ok = FALSE /\ unchanged = FALSE

Idle == \A s \in Sources : phase[s] = "idle"
AllIn(ps) == \A s \in Sources : phase[s] \in ps
Move(s, p) == phase' = [phase EXCEPT ![s] = p]
Failed == \E s \in Sources : phase[s] = "failed"
NoneActive == AllIn(Phases \ Active)
------------------------------------------------------------------------------
(***************************************************************************)
(* The developer.                                                          *)
(***************************************************************************)
MayEdit == Idle \/ EditsInBuild

EditSource(s, c) == /\ MayEdit
                    /\ c # src[s]
                    /\ src' = [src EXCEPT ![s] = c]
                    /\ srcNewer' = [srcNewer EXCEPT ![s] = TRUE]
                    /\ unchanged' = FALSE
                    /\ UNCHANGED <<hdr, flags, obj, hdrNewer, dep, fp, cache, phase, taskVars, ok>>

EditHeader(h) == /\ MayEdit
                 /\ h # hdr
                 /\ hdr' = h
                 /\ hdrNewer' = [s \in Sources |-> TRUE]
                 /\ unchanged' = FALSE
                 /\ UNCHANGED <<src, flags, obj, srcNewer, dep, fp, cache, phase, taskVars, ok>>

EditConfig(f) == /\ MayEdit
                 /\ f # flags
                 /\ flags' = f
                 /\ unchanged' = FALSE
                 /\ UNCHANGED <<src, hdr, diskVars, fp, cache, phase, taskVars, ok>>

\* spkg clean removes build/.
Clean == /\ Idle
         /\ obj' = [s \in Sources |-> NoObj]
         /\ dep' = [s \in Sources |-> FALSE]
         /\ fp' = [s \in Sources |-> NoObj]
         /\ ok' = FALSE
         /\ UNCHANGED <<inputVars, srcNewer, hdrNewer, cache, phase, taskVars, unchanged>>

MutCommand(o) == [flags |-> flags]  \* the command line is not recorded
Command(o) == [flags |-> flags, opt |-> o]

\* spkg build --optimize o: config.spkg is executed and the sources are listed.
StartBuild(o, m) ==
    /\ Idle
    /\ cmd' = Command(o)
    /\ mode' = m
    /\ phase' = [s \in Sources |-> "check"]
    /\ memo' = [s \in Sources |-> NoObj]
    /\ ok' = FALSE
    /\ unchanged' = TRUE
    /\ UNCHANGED <<inputVars, diskVars, fp, cache, read>>
------------------------------------------------------------------------------
(***************************************************************************)
(* needs_compile, for all sources before the first is compiled.            *)
(***************************************************************************)
MutHeaderIsNewer(s) == FALSE  \* the .d is not read
HeaderIsNewer(s) == dep[s] /\ hdrNewer[s]

MutNeedsCompile(s, f) == obj[s] = NoObj \/ HeaderIsNewer(s) \/ srcNewer[s]  \* flags not compared
NeedsCompile(s, f) == \/ obj[s] = NoObj
                      \/ HeaderIsNewer(s)
                      \/ fp[s] # f
                      \/ srcNewer[s]

Check(s) == /\ phase[s] = "check"
            /\ Move(s, IF NeedsCompile(s, cmd.flags) THEN "pending" ELSE "done")
            /\ UNCHANGED <<inputVars, diskVars, fp, cache, taskVars, report>>

WriteObj(s, x) == /\ obj' = [obj EXCEPT ![s] = x]
                  /\ srcNewer' = [srcNewer EXCEPT ![s] = FALSE]
                  /\ hdrNewer' = [hdrNewer EXCEPT ![s] = FALSE]

MutSaveFingerprint(s) == UNCHANGED fp  \* it is not saved
SaveFingerprint(s) == fp' = [fp EXCEPT ![s] = cmd.flags]

(***************************************************************************)
(* The cache.  cache_key_for reads the files when the key is needed; the   *)
(* header part of the key is computed once per source and build.           *)
(***************************************************************************)
HeaderPart(s) == IF memo[s] # NoObj THEN memo[s] ELSE HdrOf(src[s], hdr)
MutKeyOf(s) == [flags |-> cmd.flags, src |-> src[s], hdr |-> NoHdr]  \* no headers
KeyOf(s) == [flags |-> cmd.flags, src |-> src[s], hdr |-> HeaderPart(s)]
Memoise(s) == memo' = [memo EXCEPT ![s] = HeaderPart(s)]

\* --jobs 1 finishes one task before it looks at the next; otherwise the cache
\* is asked for all of them before the first compiler is started.
MayLookUp(s) == /\ phase[s] = "pending"
                /\ AllIn(Phases \ {"check"})
                /\ mode.serial => NoneActive /\ AllIn(Phases \ {"missed", "failed"})

\* cache_get copies the entry over the .o; whatever .d there is stays.
Hit(s) == /\ mode.cache
          /\ MayLookUp(s)
          /\ cache[KeyOf(s)] # NoObj
          /\ WriteObj(s, cache[KeyOf(s)])
          /\ SaveFingerprint(s)
          /\ Memoise(s)
          /\ Move(s, "done")
          /\ UNCHANGED <<inputVars, dep, cache, read, cmd, mode, report>>

Miss(s) == /\ MayLookUp(s)
           /\ mode.cache => cache[KeyOf(s)] = NoObj
           /\ IF mode.cache THEN Memoise(s) ELSE UNCHANGED memo
           /\ Move(s, "missed")
           /\ UNCHANGED <<inputVars, diskVars, fp, cache, read, cmd, mode, report>>

(***************************************************************************)
(* The compiler: it reads its inputs, then writes the .o and the .d.  When *)
(* it fails, or cannot be started, the old files stay (it writes under a   *)
(* temporary name).                                                        *)
(***************************************************************************)
StartCompile(s) == /\ phase[s] = "missed"
                   /\ ~Failed
                   /\ mode.serial \/ AllIn(Phases \ {"pending"})
                   /\ Move(s, "running")
                   /\ UNCHANGED <<inputVars, diskVars, fp, cache, taskVars, report>>

CompilerReads(s) == /\ phase[s] = "running"
                    /\ read' = [read EXCEPT ![s] = <<src[s], HdrOf(src[s], hdr)>>]
                    /\ Move(s, "read")
                    /\ UNCHANGED <<inputVars, diskVars, fp, cache, memo, cmd, mode, report>>

Compiled(s) == [src |-> read[s][1], hdr |-> read[s][2], flags |-> cmd.flags, opt |-> cmd.opt]

CompilerWrites(s) == /\ phase[s] = "read"
                     /\ WriteObj(s, Compiled(s))
                     /\ dep' = [dep EXCEPT ![s] = read[s][1] \in Including]
                     /\ Move(s, "compiled")
                     /\ UNCHANGED <<inputVars, fp, cache, taskVars, report>>

\* the failed task is taken up again
MutCompilerFails(s) == /\ phase[s] = "read"
                       /\ Move(s, "missed")
                       /\ UNCHANGED <<inputVars, diskVars, fp, cache, taskVars, report>>
CompilerFails(s) == /\ phase[s] = "read"
                    /\ Move(s, "failed")
                    /\ UNCHANGED <<inputVars, diskVars, fp, cache, taskVars, report>>

(***************************************************************************)
(* After a successful compilation --jobs 1 calls cache_put and then        *)
(* save_fingerprint; otherwise it is the other way round.                  *)
(***************************************************************************)
MayRecord(s) == phase[s] = IF mode.serial /\ mode.cache THEN "stored" ELSE "compiled"

\* cache_put is for builds with the cache, but drain_running, which waits for the
\* running compilers when another could not be started, calls it in every build.
Stores == mode.cache \/ (StartsFail /\ Failed /\ ~mode.serial)
MayStore(s) == Stores /\ phase[s] = IF mode.serial THEN "compiled" ELSE "recorded"

Record(s) == /\ MayRecord(s)
             /\ SaveFingerprint(s)
             /\ \/ (mode.serial \/ ~mode.cache) /\ Move(s, "done")
                \/ ~mode.serial /\ Stores /\ Move(s, "recorded")
             /\ UNCHANGED <<inputVars, diskVars, cache, taskVars, report>>

Store(s) == /\ MayStore(s)
            /\ cache' = [cache EXCEPT ![KeyOf(s)] = obj[s]]
            /\ Memoise(s)
            /\ Move(s, IF mode.serial THEN "stored" ELSE "done")
            /\ UNCHANGED <<inputVars, diskVars, fp, read, cmd, mode, report>>

(***************************************************************************)
(* The end of a build.                                                     *)
(***************************************************************************)
EndBuild == phase' = [s \in Sources |-> "idle"]

Succeeds == /\ AllIn({"done"})
            /\ EndBuild
            /\ ok' = TRUE
            /\ UNCHANGED <<inputVars, diskVars, fp, cache, taskVars, unchanged>>

Over == Failed /\ NoneActive

Fails == /\ Over
         /\ EndBuild
         /\ UNCHANGED <<inputVars, diskVars, fp, cache, taskVars, report>>

\* spkg is killed with its compilers.  A copy_file in progress leaves a
\* truncated file: the .o in cache_get, the entry in cache_put.
Killed == /\ Crashes /\ ~Idle
          /\ EndBuild
          /\ UNCHANGED <<inputVars, dep, fp, taskVars, report>>

KilledAnywhere == Killed /\ UNCHANGED <<obj, srcNewer, hdrNewer, cache>>

KilledInGet(s) == /\ Killed
                  /\ mode.cache /\ MayLookUp(s) /\ cache[KeyOf(s)] # NoObj
                  /\ WriteObj(s, Truncated)
                  /\ UNCHANGED cache

KilledInPut(s) == /\ Killed
                  /\ MayStore(s)
                  /\ cache' = [cache EXCEPT ![KeyOf(s)] = Truncated]
                  /\ UNCHANGED <<obj, srcNewer, hdrNewer>>

Developer == \/ \E s \in Sources, c \in SrcVersions : EditSource(s, c)
             \/ \E h \in HdrVersions : EditHeader(h)
             \/ \E f \in Flags : EditConfig(f)
             \/ \E o \in Opts, m \in Modes : StartBuild(o, m)
             \/ Clean

Build == \/ \E s \in Sources : \/ Check(s) \/ Hit(s) \/ Miss(s)
                               \/ StartCompile(s) \/ CompilerReads(s)
                               \/ CompilerWrites(s) \/ CompilerFails(s)
                               \/ Record(s) \/ Store(s)
         \/ Succeeds \/ Fails

Kill == KilledAnywhere \/ \E s \in Sources : KilledInGet(s) \/ KilledInPut(s)

Next == Developer \/ Build \/ Kill

Spec == Init /\ [][Next]_vars

\* A build that is running goes on, and its compilers come to an end.
FairSpec == Spec /\ WF_vars(Build)
------------------------------------------------------------------------------
\* What the sources amount to now, under --optimize o.
Wanted(s, o) == Compile(src[s], hdr, flags, o)

\* Incremental compilation is exact on the side that matters: whatever source
\* the next build would skip has an object compiled from the present source,
\* header and flags.
SkippedIsFresh ==
    Idle => \A s \in Sources, o \in Opts : ~NeedsCompile(s, flags) => obj[s] = Wanted(s, o)

\* ... and on the other: after a successful build nothing is compiled again
\* until an input changes.
NothingToDo == Idle /\ ok /\ unchanged => \A s \in Sources : ~NeedsCompile(s, flags)

\* With the cache on, a skipped source's object still comes from the present
\* source and flags.  Of headers this cannot be said: a hit leaves no .d.
SkippedHasSourceAndFlags ==
    Idle => \A s \in Sources : ~NeedsCompile(s, flags) =>
              obj[s] # NoObj /\ obj[s].src = src[s] /\ obj[s].flags = flags

\* An entry of the cache holds the object its key stands for: the same inputs
\* always give the same output ("content-addressed", README).
CacheIsSound ==
    \A k \in Keys : cache[k] # NoObj =>
        \E o \in Opts : cache[k] = [src |-> k.src, hdr |-> k.hdr, flags |-> k.flags, opt |-> o]

\* README's table of incremental compilation, third row: a header newer than
\* the .o of a source that includes it makes the source be compiled.
NewerHeaderCompiles ==
    Idle => \A s \in Sources : obj[s] # NoObj /\ src[s] \in Including /\ hdrNewer[s]
                                 => NeedsCompile(s, flags)

\* README's table, fourth row: an object compiled by another command than the
\* present one is compiled again.
ChangedCommandCompiles ==
    Idle => \A s \in Sources, o \in Opts :
              obj[s] \in Objects /\ (obj[s].flags # flags \/ obj[s].opt # o)
                => NeedsCompile(s, flags)

\* Every build ends.
BuildEnds == ~Idle ~> Idle
------------------------------------------------------------------------------
(***************************************************************************)
(* The inductive invariants behind the three safety properties, and the    *)
(* circumstances under which they hold.                                    *)
(***************************************************************************)
NewObj(s) == Compile(src[s], hdr, cmd.flags, cmd.opt)
JustCompiled == {"compiled", "recorded", "stored"}

\* NothingToDo, whatever the circumstances.
UpToDateInv ==
    /\ unchanged => cmd.flags = flags
    /\ ok => Idle
    /\ unchanged => \A s \in Sources :
         /\ phase[s] \in JustCompiled => obj[s] # NoObj /\ ~srcNewer[s] /\ ~hdrNewer[s]
         /\ phase[s] \in {"recorded", "done"} \/ ok => ~NeedsCompile(s, flags)

\* A compiler sees the inputs as they are.
ReadsPresent(s) == phase[s] = "read" => read[s] = <<src[s], HdrOf(src[s], hdr)>>

\* CacheIsSound, when no file is edited during a build and no build is killed:
\* the key computed before the compilation is the one computed after it.
CacheAt(s) == /\ ReadsPresent(s)
              /\ phase[s] \in JustCompiled => obj[s] = NewObj(s)
              /\ phase[s] # "idle" => memo[s] \in {NoObj, HdrOf(src[s], hdr)}

CacheInv == CacheIsSound /\ \A s \in Sources : CacheAt(s)

\* SkippedHasSourceAndFlags, under the same conditions: what the mtime and the
\* .o.fp say of an object is true also of one that comes from the cache.
StampAt(s) == obj[s] # NoObj =>
    /\ obj[s] \in Objects
    /\ ~srcNewer[s] => obj[s].src = src[s]
    /\ phase[s] \notin {"compiled", "stored"} => fp[s] \in {NoObj, obj[s].flags}

StampInv == /\ ~Idle => cmd.flags = flags
            /\ \A s \in Sources : StampAt(s)

\* SkippedIsFresh, without the cache, with edits between builds only, one value
\* of --optimize, and builds killed only if the flags never change.
Quiet == /\ \A m \in Modes : ~m.cache
         /\ ~EditsInBuild
         /\ \A o, p \in Opts : o = p
         /\ Crashes => \A f, g \in Flags : f = g

\* The mtimes tell whether the object has the present source and header, the
\* .d whether it includes the header, the .o.fp with which flags it was made.
TellsTruth(s) ==
    /\ obj[s] \in Objects
    /\ ~srcNewer[s] => obj[s].src = src[s]
    /\ ~srcNewer[s] /\ (src[s] \in Including => ~hdrNewer[s]) => obj[s].hdr = HdrOf(src[s], hdr)
    /\ dep[s] <=> obj[s].src \in Including
    /\ phase[s] # "compiled" => fp[s] \in {NoObj, obj[s].flags}

FreshAt(s) == /\ ReadsPresent(s)
              /\ obj[s] # NoObj => TellsTruth(s)
              /\ phase[s] = "compiled" => obj[s] = NewObj(s) /\ ~srcNewer[s] /\ ~hdrNewer[s]
              /\ phase[s] \in {"recorded", "done"} => ~NeedsCompile(s, flags)

FreshInv == /\ ~Idle => cmd.flags = flags /\ unchanged
            /\ \A s \in Sources : FreshAt(s)

(***************************************************************************)
(* The detailed build implements IdealBuild when nothing races with it.    *)
(***************************************************************************)
TheOpt == CHOOSE o \in Opts : TRUE
ResultOf(c, h, f) == Compile(c, h, f, TheOpt)

Ideal == INSTANCE IdealBuild
           WITH NoOut <- NoObj, Result <- ResultOf, out <- obj, reported <- ok /\ unchanged

\* Without the cache, with one --optimize and with edits between builds only,
\* a build writes no object but those of the present inputs, and reports
\* success only when all of them are there.
ImplementsIdeal == Ideal!Spec

==============================================================================
