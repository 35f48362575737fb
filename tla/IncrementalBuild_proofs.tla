----------------------- MODULE IncrementalBuild_proofs -----------------------
(*************************************************************************)
(* Proofs about IncrementalBuild, for any sets of sources and contents.  *)
(*************************************************************************)
EXTENDS IncrementalBuild, TLAPS, Ranks

USE BuildAssumption, ObjectAssumption

LEMMA CompileType ==
  ASSUME NEW c \in SrcVersions, NEW h \in HdrVersions
  PROVE  HdrOf(c, h) \in Headers
BY DEF HdrOf, Headers

LEMMA KeyType ==
  ASSUME TypeOK, NEW s \in Sources
  PROVE  HeaderPart(s) \in Headers /\ KeyOf(s) \in Keys
BY CompileType DEF TypeOK, HeaderPart, KeyOf, Keys, Headers

\* What a compiler writes is an object.
LEMMA CompiledType ==
  ASSUME TypeOK, NEW s \in Sources
  PROVE  /\ Compiled(s) \in Objects /\ Compiled(s) # NoObj
         /\ read[s][1] \in SrcVersions /\ read[s][2] \in Headers
<1>1. read[s][1] \in SrcVersions /\ read[s][2] \in Headers
  BY DEF TypeOK
<1>2. cmd.flags \in Flags /\ cmd.opt \in Opts
  BY DEF TypeOK
<1>3. QED
  BY <1>1, <1>2 DEF Compiled, Objects

LEMMA TypeInit == Init => TypeOK
<1>1. SUFFICES ASSUME Init PROVE TypeOK
  OBVIOUS
<1>2. cmd \in [flags : Flags, opt : Opts]
  BY <1>1 DEF Init
<1>3. read \in [Sources -> SrcVersions \X Headers]
  BY <1>1 DEF Init, Headers
<1>4. cache \in [Keys -> OnDisk] /\ memo \in [Sources -> Headers \cup {NoObj}]
  BY <1>1 DEF Init, OnDisk
<1>5. QED
  BY <1>1, <1>2, <1>3, <1>4 DEF Init, TypeOK, OnDisk, Phases

LEMMA TypeStep == ASSUME TypeOK, [Next]_vars PROVE TypeOK'
<1> USE DEF TypeOK, OnDisk, Phases, Move, inputVars, diskVars, taskVars, report
<1>1. ASSUME NEW s \in Sources, NEW c \in SrcVersions, EditSource(s, c) PROVE TypeOK'
  BY <1>1 DEF EditSource
<1>2. ASSUME NEW h \in HdrVersions, EditHeader(h) PROVE TypeOK'
  BY <1>2 DEF EditHeader
<1>3. ASSUME NEW f \in Flags, EditConfig(f) PROVE TypeOK'
  BY <1>3 DEF EditConfig
<1>4. ASSUME Clean PROVE TypeOK'
  BY <1>4 DEF Clean
<1>5. ASSUME NEW o \in Opts, NEW m \in Modes, StartBuild(o, m) PROVE TypeOK'
  BY <1>5 DEF StartBuild, Command
<1>6. ASSUME NEW s \in Sources, Check(s) PROVE TypeOK'
  BY <1>6 DEF Check
<1>7. ASSUME NEW s \in Sources, Hit(s) PROVE TypeOK'
  BY <1>7, KeyType DEF Hit, WriteObj, SaveFingerprint, Memoise
<1>8. ASSUME NEW s \in Sources, Miss(s) PROVE TypeOK'
  BY <1>8, KeyType DEF Miss, Memoise
<1>9. ASSUME NEW s \in Sources, StartCompile(s) PROVE TypeOK'
  BY <1>9 DEF StartCompile
<1>10. ASSUME NEW s \in Sources, CompilerReads(s) PROVE TypeOK'
  BY <1>10, CompileType DEF CompilerReads
<1>11. ASSUME NEW s \in Sources, CompilerWrites(s) PROVE TypeOK'
  BY <1>11, CompiledType DEF CompilerWrites, WriteObj
<1>12. ASSUME NEW s \in Sources, CompilerFails(s) PROVE TypeOK'
  BY <1>12 DEF CompilerFails
<1>13. ASSUME NEW s \in Sources, Record(s) PROVE TypeOK'
  BY <1>13 DEF Record, SaveFingerprint
<1>14. ASSUME NEW s \in Sources, Store(s) PROVE TypeOK'
  BY <1>14, KeyType DEF Store, Memoise
<1>15. ASSUME Succeeds \/ Fails PROVE TypeOK'
  <2>1. CASE Succeeds
    BY <2>1 DEF Succeeds, EndBuild
  <2>2. CASE Fails
    BY <2>2 DEF Fails, EndBuild
  <2>3. QED
    BY <1>15, <2>1, <2>2
<1>16. ASSUME KilledAnywhere PROVE TypeOK'
  BY <1>16 DEF KilledAnywhere, Killed, EndBuild
<1>17. ASSUME NEW s \in Sources, KilledInGet(s) PROVE TypeOK'
  BY <1>17 DEF KilledInGet, Killed, EndBuild, WriteObj
<1>18. ASSUME NEW s \in Sources, KilledInPut(s) PROVE TypeOK'
  BY <1>18, KeyType DEF KilledInPut, Killed, EndBuild
<1>19. CASE UNCHANGED vars
  BY <1>19 DEF vars
<1>20. QED
  BY <1>1, <1>2, <1>3, <1>4, <1>5, <1>6, <1>7, <1>8, <1>9, <1>10, <1>11, <1>12,
     <1>13, <1>14, <1>15, <1>16, <1>17, <1>18, <1>19 DEF Next, Developer, Build, Kill

\* Every variable keeps its type.
THEOREM TypeCorrect == Spec => []TypeOK
BY TypeInit, TypeStep, PTL DEF Spec

------------------------------------------------------------------------------
LEMMA UpToDateStep ==
  ASSUME TypeOK, UpToDateInv, [Next]_vars
  PROVE  UpToDateInv'
<1> USE DEF TypeOK, Phases, UpToDateInv, JustCompiled, NeedsCompile, HeaderIsNewer, Idle,
            inputVars, diskVars, taskVars, report
<1>1. ASSUME NEW s \in Sources, NEW c \in SrcVersions, EditSource(s, c) PROVE UpToDateInv'
  BY <1>1 DEF EditSource, MayEdit
<1>2. ASSUME NEW h \in HdrVersions, EditHeader(h) PROVE UpToDateInv'
  BY <1>2 DEF EditHeader, MayEdit
<1>3. ASSUME NEW f \in Flags, EditConfig(f) PROVE UpToDateInv'
  BY <1>3 DEF EditConfig, MayEdit
<1>4. ASSUME Clean PROVE UpToDateInv'
  BY <1>4 DEF Clean
<1>5. ASSUME NEW o \in Opts, NEW m \in Modes, StartBuild(o, m) PROVE UpToDateInv'
  BY <1>5 DEF StartBuild, Command
<1>6. ASSUME NEW s \in Sources, Check(s) PROVE UpToDateInv'
  BY <1>6 DEF Check, Move
<1>7. ASSUME NEW s \in Sources, Hit(s) PROVE UpToDateInv'
  BY <1>7 DEF Hit, MayLookUp, WriteObj, SaveFingerprint, Move
<1>8. ASSUME NEW s \in Sources, Miss(s) PROVE UpToDateInv'
  BY <1>8 DEF Miss, MayLookUp, Move
<1>9. ASSUME NEW s \in Sources, StartCompile(s) PROVE UpToDateInv'
  BY <1>9 DEF StartCompile, Move
<1>10. ASSUME NEW s \in Sources, CompilerReads(s) PROVE UpToDateInv'
  BY <1>10 DEF CompilerReads, Move
<1>11. ASSUME NEW s \in Sources, CompilerWrites(s) PROVE UpToDateInv'
  <2>1. /\ phase[s] = "read" /\ phase' = [phase EXCEPT ![s] = "compiled"]
        /\ obj' = [obj EXCEPT ![s] = Compiled(s)] /\ Compiled(s) # NoObj
        /\ srcNewer' = [srcNewer EXCEPT ![s] = FALSE]
        /\ hdrNewer' = [hdrNewer EXCEPT ![s] = FALSE]
        /\ \A u \in Sources \ {s} : dep'[u] = dep[u]
        /\ UNCHANGED <<flags, fp, cmd, ok, unchanged>>
    BY <1>11, CompiledType DEF CompilerWrites, WriteObj, Move
  <2>2. ~ok
    BY <2>1
  <2>3. QED
    BY <2>1, <2>2
<1>12. ASSUME NEW s \in Sources, CompilerFails(s) PROVE UpToDateInv'
  BY <1>12 DEF CompilerFails, Move
<1>13. ASSUME NEW s \in Sources, Record(s) PROVE UpToDateInv'
  BY <1>13 DEF Record, MayRecord, SaveFingerprint, Move
<1>14. ASSUME NEW s \in Sources, Store(s) PROVE UpToDateInv'
  BY <1>14 DEF Store, MayStore, Move
<1>15. ASSUME Succeeds PROVE UpToDateInv'
  BY <1>15 DEF Succeeds, EndBuild, AllIn
<1>16. ASSUME Fails PROVE UpToDateInv'
  BY <1>16 DEF Fails, EndBuild, Over, Failed
<1>17. ASSUME KilledAnywhere PROVE UpToDateInv'
  BY <1>17 DEF KilledAnywhere, Killed, EndBuild
<1>18. ASSUME NEW s \in Sources, KilledInGet(s) PROVE UpToDateInv'
  BY <1>18 DEF KilledInGet, Killed, EndBuild, WriteObj
<1>19. ASSUME NEW s \in Sources, KilledInPut(s) PROVE UpToDateInv'
  BY <1>19 DEF KilledInPut, Killed, EndBuild
<1>20. CASE UNCHANGED vars
  BY <1>20 DEF vars
<1>21. QED
  BY <1>1, <1>2, <1>3, <1>4, <1>5, <1>6, <1>7, <1>8, <1>9, <1>10,
     <1>11, <1>12, <1>13, <1>14, <1>15, <1>16, <1>17, <1>18, <1>19, <1>20
     DEF Next, Developer, Build, Kill

\* After a successful build nothing is compiled again until an input changes,
\* with or without the cache, whatever is edited or killed, whenever.
THEOREM NothingToDoHolds == Spec => []NothingToDo
<1>1. Init => UpToDateInv
  BY DEF Init, UpToDateInv
<1>2. TypeOK /\ UpToDateInv /\ [Next]_vars => UpToDateInv'
  BY UpToDateStep
<1>3. UpToDateInv => NothingToDo
  BY DEF UpToDateInv, NothingToDo
<1>4. QED
  BY <1>1, <1>2, <1>3, TypeCorrect, PTL DEF Spec

------------------------------------------------------------------------------
\* FreshAt(u) only depends on the inputs, the running build's command and what
\* concerns u itself.
LEMMA FreshFrame ==
  ASSUME NEW u \in Sources, FreshAt(u),
         UNCHANGED <<src, hdr, flags, cmd>>,
         UNCHANGED <<obj[u], srcNewer[u], hdrNewer[u], dep[u], fp[u], phase[u], read[u]>>
  PROVE  FreshAt(u)'
BY DEF FreshAt, ReadsPresent, TellsTruth, NewObj, Compile, NeedsCompile, HeaderIsNewer

\* A step by which the build moves s to a phase that promises nothing.
LEMMA FreshMove ==
  ASSUME NEW s \in Sources, NEW p \in Phases, TypeOK, FreshInv,
         p \notin {"read", "compiled", "recorded", "done", "idle"}, phase[s] \notin {"idle", "compiled"},
         phase' = [phase EXCEPT ![s] = p],
         UNCHANGED <<src, hdr, flags, cmd, obj, srcNewer, hdrNewer, dep, fp, read, unchanged>>
  PROVE  FreshInv'
<1>1. \A u \in Sources \ {s} : FreshAt(u)'
  BY FreshFrame DEF TypeOK, FreshInv
<1>2. FreshAt(s)'
  BY DEF TypeOK, FreshInv, FreshAt, ReadsPresent, TellsTruth, NewObj, NeedsCompile
<1>3. ~Idle
  BY DEF Idle
<1>4. QED
  BY <1>1, <1>2, <1>3 DEF FreshInv

LEMMA FreshStep ==
  ASSUME Quiet, TypeOK, FreshInv, [Next]_vars
  PROVE  FreshInv'
<1> USE DEF Quiet
<1>0. ~mode.cache
  BY DEF Quiet, TypeOK
<1>1. ASSUME NEW s \in Sources, NEW c \in SrcVersions, EditSource(s, c) PROVE FreshInv'
  <2>1. Idle /\ Idle' /\ src' = [src EXCEPT ![s] = c]
        /\ srcNewer' = [srcNewer EXCEPT ![s] = TRUE]
        /\ UNCHANGED <<hdr, flags, obj, hdrNewer, dep, fp, phase, read, cmd>>
    BY <1>1 DEF EditSource, MayEdit, Idle, taskVars
  <2>2. \A u \in Sources : FreshAt(u)'
    BY <2>1 DEF TypeOK, FreshInv, FreshAt, ReadsPresent, TellsTruth, Idle, NewObj
  <2>3. QED
    BY <2>1, <2>2 DEF FreshInv
<1>2. ASSUME NEW h \in HdrVersions, EditHeader(h) PROVE FreshInv'
  <2>1. Idle /\ Idle' /\ hdr' = h /\ hdrNewer' = [u \in Sources |-> TRUE]
        /\ UNCHANGED <<src, flags, obj, srcNewer, dep, fp, phase, read, cmd>>
    BY <1>2 DEF EditHeader, MayEdit, Idle, taskVars
  <2>2. \A u \in Sources : FreshAt(u)'
    BY <2>1 DEF TypeOK, FreshInv, FreshAt, ReadsPresent, TellsTruth, Idle, NewObj, HdrOf
  <2>3. QED
    BY <2>1, <2>2 DEF FreshInv
<1>3. ASSUME NEW f \in Flags, EditConfig(f) PROVE FreshInv'
  <2>1. Idle /\ Idle'
        /\ UNCHANGED <<src, hdr, obj, srcNewer, hdrNewer, dep, fp, phase, read, cmd>>
    BY <1>3 DEF EditConfig, MayEdit, Idle, diskVars, taskVars
  <2>2. \A u \in Sources : FreshAt(u)'
    BY <2>1 DEF FreshInv, FreshAt, ReadsPresent, TellsTruth, Idle, NewObj
  <2>3. QED
    BY <2>1, <2>2 DEF FreshInv
<1>4. ASSUME Clean PROVE FreshInv'
  <2>1. Idle /\ Idle' /\ phase' = phase /\ \A u \in Sources : obj'[u] = NoObj
    BY <1>4 DEF Clean, Idle
  <2>2. \A u \in Sources : FreshAt(u)'
    BY <2>1 DEF FreshAt, ReadsPresent, Idle
  <2>3. QED
    BY <2>1, <2>2 DEF FreshInv
<1>5. ASSUME NEW o \in Opts, NEW m \in Modes, StartBuild(o, m) PROVE FreshInv'
  <2>1. /\ cmd'.flags = flags /\ unchanged'
        /\ Idle /\ phase' = [u \in Sources |-> "check"]
        /\ UNCHANGED <<src, hdr, flags, obj, srcNewer, hdrNewer, dep, fp, read>>
    BY <1>5 DEF StartBuild, Command, inputVars, diskVars
  <2>2. \A u \in Sources : FreshAt(u)'
    BY <2>1 DEF FreshInv, FreshAt, ReadsPresent, TellsTruth, Idle
  <2>3. QED
    BY <2>1, <2>2 DEF FreshInv
<1>6. ASSUME NEW s \in Sources, Check(s) PROVE FreshInv'
  <2>1. /\ phase[s] = "check" /\ ~Idle
        /\ phase' = [phase EXCEPT ![s] = IF NeedsCompile(s, cmd.flags) THEN "pending" ELSE "done"]
        /\ UNCHANGED <<src, hdr, flags, cmd, obj, srcNewer, hdrNewer, dep, fp, read, unchanged>>
    BY <1>6 DEF Check, Move, Idle, inputVars, diskVars, taskVars, report
  <2>2. \A u \in Sources \ {s} : FreshAt(u)'
    BY <2>1, FreshFrame DEF TypeOK, FreshInv
  <2>3. FreshAt(s)'
    BY <2>1 DEF TypeOK, FreshInv, FreshAt, ReadsPresent, TellsTruth, NewObj, NeedsCompile,
       HeaderIsNewer
  <2>4. QED
    BY <2>1, <2>2, <2>3 DEF FreshInv
<1>7. ASSUME NEW s \in Sources, Hit(s) PROVE FreshInv'
  BY <1>0, <1>7 DEF Hit
<1>8. ASSUME NEW s \in Sources, Miss(s) PROVE FreshInv'
  BY <1>8, FreshMove DEF Miss, MayLookUp, Move, Phases, inputVars, diskVars, report
<1>9. ASSUME NEW s \in Sources, StartCompile(s) PROVE FreshInv'
  BY <1>9, FreshMove DEF StartCompile, Move, Phases, inputVars, diskVars, taskVars, report
<1>10. ASSUME NEW s \in Sources, CompilerReads(s) PROVE FreshInv'
  <2>1. /\ phase[s] = "running" /\ ~Idle
        /\ phase' = [phase EXCEPT ![s] = "read"]
        /\ read' = [read EXCEPT ![s] = <<src[s], HdrOf(src[s], hdr)>>]
        /\ UNCHANGED <<src, hdr, flags, cmd, obj, srcNewer, hdrNewer, dep, fp, unchanged>>
    BY <1>10 DEF CompilerReads, Move, Idle, inputVars, diskVars, report
  <2>2. \A u \in Sources \ {s} : FreshAt(u)'
    BY <2>1, FreshFrame DEF TypeOK, FreshInv
  <2>3. FreshAt(s)'
    BY <2>1 DEF TypeOK, FreshInv, FreshAt, ReadsPresent, TellsTruth
  <2>4. QED
    BY <2>1, <2>2, <2>3 DEF FreshInv
<1>11. ASSUME NEW s \in Sources, CompilerWrites(s) PROVE FreshInv'
  <2>1. /\ phase[s] = "read" /\ ~Idle
        /\ phase' = [phase EXCEPT ![s] = "compiled"]
        /\ obj' = [obj EXCEPT ![s] = Compiled(s)]
        /\ srcNewer' = [srcNewer EXCEPT ![s] = FALSE]
        /\ hdrNewer' = [hdrNewer EXCEPT ![s] = FALSE]
        /\ dep' = [dep EXCEPT ![s] = read[s][1] \in Including]
        /\ UNCHANGED <<src, hdr, flags, cmd, fp, read, unchanged>>
    BY <1>11 DEF CompilerWrites, WriteObj, Move, Idle, inputVars, taskVars, report
  <2>2. \A u \in Sources \ {s} : FreshAt(u)'
    BY <2>1, FreshFrame DEF TypeOK, FreshInv
  <2>3. Compiled(s) = NewObj(s) /\ Compiled(s) \in Objects /\ read[s][1] = src[s]
    BY <2>1, CompiledType DEF FreshInv, FreshAt, ReadsPresent, Compiled, NewObj, Compile
  <2>4. FreshAt(s)'
    <3>1. /\ obj'[s] = NewObj(s) /\ phase'[s] = "compiled"
          /\ srcNewer'[s] = FALSE /\ hdrNewer'[s] = FALSE
          /\ dep'[s] = (src[s] \in Including)
      BY <2>1, <2>3 DEF TypeOK
    <3>2. /\ NewObj(s).src = src[s] /\ NewObj(s).hdr = HdrOf(src[s], hdr)
          /\ NewObj(s) \in Objects
      BY <2>3 DEF NewObj, Compile
    <3>3. TellsTruth(s)'
      BY <2>1, <3>1, <3>2 DEF TellsTruth
    <3>4. NewObj(s)' = NewObj(s)
      BY <2>1 DEF NewObj
    <3>5. QED
      BY <3>1, <3>3, <3>4 DEF FreshAt, ReadsPresent
  <2>5. QED
    BY <2>1, <2>2, <2>4 DEF FreshInv
<1>12. ASSUME NEW s \in Sources, CompilerFails(s) PROVE FreshInv'
  BY <1>12, FreshMove DEF CompilerFails, Move, Phases, inputVars, diskVars, taskVars, report
<1>13. ASSUME NEW s \in Sources, Record(s) PROVE FreshInv'
  <2>1. /\ phase[s] = "compiled" /\ ~Idle
        /\ fp' = [fp EXCEPT ![s] = cmd.flags]
        /\ UNCHANGED <<src, hdr, flags, cmd, obj, srcNewer, hdrNewer, dep, read, unchanged>>
    BY <1>0, <1>13 DEF Record, MayRecord, SaveFingerprint, Move, Idle, inputVars, diskVars,
       taskVars, report
  <2>a. PICK p \in {"recorded", "done"} : phase' = [phase EXCEPT ![s] = p]
    BY <1>13 DEF Record, Move
  <2>2. \A u \in Sources \ {s} : FreshAt(u)'
    BY <2>1, <2>a, FreshFrame DEF TypeOK, FreshInv
  <2>3. /\ FreshAt(s) /\ obj[s] = NewObj(s) /\ ~srcNewer[s] /\ ~hdrNewer[s]
        /\ NewObj(s).flags = flags /\ NewObj(s) # NoObj
        /\ fp'[s] = flags /\ phase'[s] \in {"recorded", "done"}
    <3>1. NewObj(s) \in Objects
      <4>1. HdrOf(src[s], hdr) \in Headers
        BY CompileType DEF TypeOK
      <4>2. QED
        BY <4>1 DEF TypeOK, NewObj, Compile, Objects
    <3>2. FreshAt(s) /\ obj[s] = NewObj(s) /\ ~srcNewer[s] /\ ~hdrNewer[s]
      BY <2>1 DEF FreshInv, FreshAt
    <3>3. NewObj(s).flags = flags
      BY <2>1 DEF FreshInv, NewObj, Compile
    <3>4. fp'[s] = flags /\ phase'[s] \in {"recorded", "done"}
      BY <2>1, <2>a DEF TypeOK, FreshInv
    <3>5. QED
      BY <3>1, <3>2, <3>3, <3>4
  <2>4. TellsTruth(s)'
    BY <2>1, <2>3 DEF FreshAt, TellsTruth
  <2>5. ~NeedsCompile(s, flags)'
    BY <2>1, <2>3 DEF FreshAt, TellsTruth, NeedsCompile, HeaderIsNewer
  <2>6. FreshAt(s)'
    BY <2>3, <2>4, <2>5 DEF FreshAt, ReadsPresent
  <2>7. QED
    BY <2>1, <2>2, <2>6 DEF FreshInv
<1>14. ASSUME NEW s \in Sources, Store(s) PROVE FreshInv'
  <2>1. /\ phase[s] = "recorded" /\ ~Idle
        /\ phase' = [phase EXCEPT ![s] = "done"]
        /\ UNCHANGED <<src, hdr, flags, cmd, obj, srcNewer, hdrNewer, dep, fp, read, unchanged>>
    BY <1>0, <1>14 DEF Store, MayStore, Stores, Move, Idle, inputVars, diskVars, report
  <2>2. \A u \in Sources \ {s} : FreshAt(u)'
    BY <2>1, FreshFrame DEF TypeOK, FreshInv
  <2>3. FreshAt(s)'
    BY <2>1 DEF TypeOK, FreshInv, FreshAt, ReadsPresent, TellsTruth, NeedsCompile, HeaderIsNewer
  <2>4. QED
    BY <2>1, <2>2, <2>3 DEF FreshInv
<1>15. ASSUME Succeeds \/ Fails PROVE FreshInv'
  <2>1. /\ \A u \in Sources : phase[u] # "compiled"
        /\ phase' = [u \in Sources |-> "idle"]
        /\ UNCHANGED <<src, hdr, flags, obj, srcNewer, hdrNewer, dep, fp>>
    <3>1. CASE Succeeds
      BY <3>1 DEF Succeeds, AllIn, EndBuild, inputVars, diskVars
    <3>2. CASE Fails
      <4>1. \A u \in Sources : phase[u] \in Phases \ Active
        BY <3>2 DEF Fails, Over, NoneActive, AllIn
      <4>2. QED
        BY <3>2, <4>1 DEF Fails, Active, EndBuild, inputVars, diskVars
    <3>3. QED
      BY <1>15, <3>1, <3>2
  <2>2. \A u \in Sources : FreshAt(u)'
    BY <2>1 DEF FreshInv, FreshAt, ReadsPresent, TellsTruth
  <2>3. QED
    BY <2>1, <2>2 DEF FreshInv, Idle
<1>16. ASSUME KilledAnywhere \/ \E s \in Sources : KilledInPut(s) PROVE FreshInv'
  <2>1. /\ phase' = [u \in Sources |-> "idle"] /\ Crashes
        /\ UNCHANGED <<src, hdr, flags, obj, srcNewer, hdrNewer, dep, fp>>
    BY <1>16 DEF KilledAnywhere, KilledInPut, Killed, EndBuild, inputVars
  <2>2. \A u \in Sources : obj[u] \in Objects => fp[u] \in {NoObj, obj[u].flags}
    BY <2>1 DEF TypeOK, Objects
  <2>3. \A u \in Sources : FreshAt(u)'
    BY <2>1, <2>2 DEF FreshInv, FreshAt, ReadsPresent, TellsTruth
  <2>4. QED
    BY <2>1, <2>3 DEF FreshInv, Idle
<1>17. ASSUME NEW s \in Sources, KilledInGet(s) PROVE FreshInv'
  BY <1>0, <1>17 DEF KilledInGet
<1>18. CASE UNCHANGED vars
  <2>1. \A u \in Sources : FreshAt(u)'
    BY <1>18, FreshFrame DEF FreshInv, vars, inputVars, diskVars, taskVars
  <2>2. QED
    BY <1>18, <2>1 DEF FreshInv, Idle, vars, inputVars, taskVars, report
<1>19. QED
  BY <1>1, <1>2, <1>3, <1>4, <1>5, <1>6, <1>7, <1>8, <1>9, <1>10, <1>11, <1>12,
     <1>13, <1>14, <1>15, <1>16, <1>17, <1>18 DEF Next, Developer, Build, Kill

\* What needs_compile would skip now is what the present inputs amount to.
LEMMA SkippedIsWanted ==
  ASSUME Quiet, TypeOK, FreshInv, NEW s \in Sources, NEW o \in Opts,
         phase[s] # "compiled", ~NeedsCompile(s, flags)
  PROVE  obj[s] = Wanted(s, o)
<1>1. TellsTruth(s) /\ fp[s] = flags /\ ~srcNewer[s] /\ (dep[s] => ~hdrNewer[s])
  BY DEF FreshInv, FreshAt, NeedsCompile, HeaderIsNewer
<1>2. obj[s].src = src[s] /\ obj[s].flags = flags /\ obj[s].opt = o
  BY <1>1 DEF TellsTruth, Objects, Quiet, TypeOK
<1>3. obj[s].hdr = HdrOf(src[s], hdr)
  BY <1>1, <1>2 DEF TellsTruth
<1>4. obj[s] = [src |-> obj[s].src, hdr |-> obj[s].hdr, flags |-> obj[s].flags, opt |-> obj[s].opt]
  BY <1>1 DEF TellsTruth, Objects
<1>5. QED
  BY <1>2, <1>3, <1>4 DEF Wanted, Compile

\* Without the cache, with edits between builds only, one --optimize, and builds
\* killed only if the flags stay the same: what the next build skips is fresh.
THEOREM SkippedIsFreshHolds == ASSUME Quiet PROVE Spec => []SkippedIsFresh
<1>1. Init => FreshInv
  BY DEF Init, FreshInv, FreshAt, ReadsPresent, Idle
<1>2. TypeOK /\ FreshInv /\ [Next]_vars => FreshInv'
  BY FreshStep
<1>3. TypeOK /\ FreshInv => SkippedIsFresh
  BY SkippedIsWanted DEF SkippedIsFresh, Idle
<1>4. QED
  BY <1>1, <1>2, <1>3, TypeCorrect, PTL DEF Spec

------------------------------------------------------------------------------
LEMMA TheOptIsOne == ASSUME TypeOK PROVE TheOpt \in Opts
BY DEF TypeOK, TheOpt

LEMMA IdealInit == Init => Ideal!Init
BY DEF Init, Ideal!Init

\* Each step of the detailed build is a step of the ideal one or a stutter.
LEMMA IdealStep ==
  ASSUME Quiet, TypeOK, FreshInv, [Next]_vars
  PROVE  [Ideal!Next]_Ideal!vars
<1>0. ~mode.cache
  BY DEF Quiet, TypeOK
<1> DEFINE Same == /\ UNCHANGED inputVars /\ obj' = obj
                   /\ ok' = ok /\ unchanged' = unchanged
<1>1. Same => UNCHANGED Ideal!vars
  BY DEF inputVars, Ideal!vars
<1>2. ASSUME NEW s \in Sources, NEW c \in SrcVersions, EditSource(s, c) PROVE Ideal!Edit
  BY <1>2 DEF EditSource, TypeOK, Ideal!Edit
<1>3. ASSUME NEW h \in HdrVersions, EditHeader(h) PROVE Ideal!Edit
  BY <1>3 DEF EditHeader, TypeOK, Ideal!Edit
<1>4. ASSUME NEW f \in Flags, EditConfig(f) PROVE Ideal!Edit
  BY <1>4 DEF EditConfig, TypeOK, diskVars, Ideal!Edit
<1>5. ASSUME NEW o \in Opts, NEW m \in Modes, StartBuild(o, m) PROVE Ideal!Begin
  BY <1>5 DEF StartBuild, inputVars, diskVars, Ideal!Begin
<1>6. ASSUME Clean PROVE Ideal!Clean
  BY <1>6 DEF Clean, inputVars, Ideal!Clean
<1>7. ASSUME NEW s \in Sources,
             \/ Check(s) \/ Miss(s) \/ StartCompile(s) \/ CompilerReads(s)
             \/ CompilerFails(s) \/ Record(s) \/ Store(s) \/ KilledInPut(s)
      PROVE  Same
  <2>1. CASE Check(s)
    BY <2>1 DEF Check, diskVars, report
  <2>2. CASE Miss(s)
    BY <2>2 DEF Miss, diskVars, report
  <2>3. CASE StartCompile(s)
    BY <2>3 DEF StartCompile, diskVars, report
  <2>4. CASE CompilerReads(s)
    BY <2>4 DEF CompilerReads, diskVars, report
  <2>5. CASE CompilerFails(s)
    BY <2>5 DEF CompilerFails, diskVars, report
  <2>6. CASE Record(s)
    BY <2>6 DEF Record, diskVars, report
  <2>7. CASE Store(s)
    BY <2>7 DEF Store, diskVars, report
  <2>8. CASE KilledInPut(s)
    BY <2>8 DEF KilledInPut, Killed, report
  <2>9. QED
    BY <1>7, <2>1, <2>2, <2>3, <2>4, <2>5, <2>6, <2>7, <2>8
<1>8. ASSUME NEW s \in Sources, Hit(s) \/ KilledInGet(s) PROVE FALSE
  BY <1>0, <1>8 DEF Hit, KilledInGet
<1>9. ASSUME NEW s \in Sources, CompilerWrites(s) PROVE Ideal!Compile(s)
  <2>1. /\ phase[s] = "read" /\ ~Idle
        /\ obj' = [obj EXCEPT ![s] = Compiled(s)]
        /\ UNCHANGED <<src, hdr, flags, ok, unchanged>>
    BY <1>9 DEF CompilerWrites, WriteObj, Idle, inputVars, report
  <2>2. Compiled(s) = Compile(src[s], hdr, flags, cmd.opt)
    BY <2>1 DEF FreshInv, FreshAt, ReadsPresent, Compiled, Compile
  <2>3. cmd.opt = TheOpt
    BY TheOptIsOne DEF TypeOK, Quiet
  <2>4. Compiled(s) = ResultOf(src[s], hdr, flags)
    BY <2>2, <2>3 DEF ResultOf
  <2>5. QED
    BY <2>1, <2>4 DEF Ideal!Compile, Ideal!Present
<1>10. ASSUME Succeeds PROVE Ideal!Report \/ Ideal!Begin
  <2>1. /\ \A s \in Sources : phase[s] = "done"
        /\ ok' = TRUE /\ unchanged' = unchanged
        /\ UNCHANGED <<src, hdr, flags, obj>>
    BY <1>10 DEF Succeeds, AllIn, inputVars, diskVars
  <2>2. ASSUME NEW s \in Sources PROVE obj[s] = ResultOf(src[s], hdr, flags)
    <3>1. ~NeedsCompile(s, flags)
      BY <2>1 DEF FreshInv, FreshAt
    <3>2. obj[s] = Wanted(s, TheOpt)
      BY <2>1, <3>1, TheOptIsOne, SkippedIsWanted
    <3>3. QED
      BY <3>2 DEF Wanted, ResultOf
  <2>3. CASE unchanged
    BY <2>1, <2>2, <2>3 DEF Ideal!Report, Ideal!Present
  <2>4. CASE ~unchanged
    BY <2>1, <2>4 DEF Ideal!Begin
  <2>5. QED
    BY <2>3, <2>4
<1>11. ASSUME Fails \/ KilledAnywhere PROVE Same
  <2>1. CASE Fails
    BY <2>1 DEF Fails, diskVars, report
  <2>2. CASE KilledAnywhere
    BY <2>2 DEF KilledAnywhere, Killed, report
  <2>3. QED
    BY <1>11, <2>1, <2>2
<1>12. CASE UNCHANGED vars
  BY <1>12, <1>1 DEF vars, diskVars, report
<1>13. QED
  BY <1>1, <1>2, <1>3, <1>4, <1>5, <1>6, <1>7, <1>8, <1>9, <1>10, <1>11, <1>12
  DEF Next, Developer, Build, Kill, Ideal!Next

\* The refinement: under the same circumstances the build implements IdealBuild,
\* so an object is only ever replaced by the result of the present inputs, and
\* success is reported only when every object is that result.
THEOREM Refinement == ASSUME Quiet PROVE Spec => ImplementsIdeal
<1>1. Init => FreshInv
  BY DEF Init, FreshInv, FreshAt, ReadsPresent, Idle
<1>2. TypeOK /\ FreshInv /\ [Next]_vars => FreshInv'
  BY FreshStep
<1>3. TypeOK /\ FreshInv /\ [Next]_vars => [Ideal!Next]_Ideal!vars
  BY IdealStep
<1>4. QED
  BY <1>1, <1>2, <1>3, IdealInit, TypeCorrect, PTL DEF Spec, ImplementsIdeal, Ideal!Spec

------------------------------------------------------------------------------
(****************************************************************************)
(* The cache, when no file is edited during a build and no build is killed. *)
(****************************************************************************)
LEMMA CacheFrame ==
  ASSUME NEW s \in Sources, CacheAt(s),
         UNCHANGED <<src, hdr, cmd>>,
         phase'[s] = phase[s], obj'[s] = obj[s], read'[s] = read[s], memo'[s] = memo[s]
  PROVE  CacheAt(s)'
BY DEF CacheAt, ReadsPresent, NewObj

\* Then the header part of a key is the present header, memoised or not.
LEMMA KeyIsPresent ==
  ASSUME TypeOK, NEW s \in Sources, CacheAt(s), phase[s] # "idle"
  PROVE  /\ HeaderPart(s) = HdrOf(src[s], hdr)
         /\ KeyOf(s) = [flags |-> cmd.flags, src |-> src[s], hdr |-> HdrOf(src[s], hdr)]
         /\ KeyOf(s) \in Keys
<1>1. HeaderPart(s) = HdrOf(src[s], hdr)
  BY DEF CacheAt, HeaderPart
<1>2. QED
  BY <1>1, KeyType DEF KeyOf

\* A step of source s that leaves the cache, the inputs and the .o files alone.
LEMMA CacheMove ==
  ASSUME TypeOK, CacheInv, NEW s \in Sources, NEW p \in Phases,
         phase[s] # "idle", Move(s, p), p # "read",
         p \in JustCompiled => phase[s] \in JustCompiled,
         UNCHANGED <<src, hdr, cmd, obj, read, cache>>,
         memo' = memo \/ Memoise(s)
  PROVE  CacheInv'
<1>1. phase' = [phase EXCEPT ![s] = p]
  BY DEF Move
<1>2. \A u \in Sources \ {s} : memo'[u] = memo[u]
  BY DEF TypeOK, Memoise
<1>3. \A u \in Sources \ {s} : CacheAt(u)'
  BY <1>1, <1>2, CacheFrame DEF TypeOK, CacheInv
<1>4. CacheAt(s)
  BY DEF CacheInv
<1>5. memo'[s] \in {NoObj, HdrOf(src[s], hdr)}
  <2>1. CASE memo' = memo
    BY <2>1, <1>4 DEF CacheAt
  <2>2. CASE Memoise(s)
    BY <2>2, <1>4, KeyIsPresent DEF TypeOK, Memoise
  <2>3. QED
    BY <2>1, <2>2
<1>6. CacheAt(s)'
  BY <1>1, <1>4, <1>5 DEF TypeOK, CacheAt, ReadsPresent, NewObj
<1>7. QED
  BY <1>3, <1>6 DEF CacheInv, CacheIsSound

LEMMA CacheStep ==
  ASSUME ~EditsInBuild, ~Crashes, TypeOK, CacheInv, [Next]_vars
  PROVE  CacheInv'
<1>1. ASSUME Idle', UNCHANGED cache PROVE CacheInv'
  BY <1>1 DEF CacheInv, CacheIsSound, CacheAt, ReadsPresent, JustCompiled, Idle
<1>2. ASSUME NEW s \in Sources, NEW c \in SrcVersions, EditSource(s, c) PROVE CacheInv'
  BY <1>2, <1>1 DEF EditSource, MayEdit, Idle
<1>3. ASSUME NEW h \in HdrVersions, EditHeader(h) PROVE CacheInv'
  BY <1>3, <1>1 DEF EditHeader, MayEdit, Idle
<1>4. ASSUME NEW f \in Flags, EditConfig(f) PROVE CacheInv'
  BY <1>4, <1>1 DEF EditConfig, MayEdit, Idle
<1>5. ASSUME Clean PROVE CacheInv'
  BY <1>5, <1>1 DEF Clean, Idle
<1>6. ASSUME NEW o \in Opts, NEW m \in Modes, StartBuild(o, m) PROVE CacheInv'
  BY <1>6 DEF StartBuild, CacheInv, CacheIsSound, CacheAt, ReadsPresent, JustCompiled
<1>7. ASSUME NEW s \in Sources, Check(s) PROVE CacheInv'
  <2> DEFINE p == IF NeedsCompile(s, cmd.flags) THEN "pending" ELSE "done"
  <2>1. p \in Phases /\ p # "read" /\ p \notin JustCompiled
    BY DEF Phases, JustCompiled
  <2>2. Move(s, p) /\ phase[s] # "idle" /\ UNCHANGED <<src, hdr, cmd, obj, read, cache, memo>>
    BY <1>7 DEF Check, inputVars, diskVars, taskVars
  <2>3. QED
    BY <2>1, <2>2, CacheMove
<1>8. ASSUME NEW s \in Sources, Hit(s) PROVE CacheInv'
  <2>1. /\ phase[s] = "pending" /\ phase' = [phase EXCEPT ![s] = "done"]
        /\ \E x : obj' = [obj EXCEPT ![s] = x]
        /\ Memoise(s)
        /\ UNCHANGED <<src, hdr, cmd, read, cache>>
    BY <1>8 DEF Hit, MayLookUp, WriteObj, Move, inputVars
  <2>2. \A u \in Sources \ {s} : CacheAt(u)'
    BY <2>1, CacheFrame DEF TypeOK, CacheInv, Memoise
  <2>3. memo'[s] = HdrOf(src[s], hdr)
    BY <2>1, KeyIsPresent DEF TypeOK, CacheInv, Memoise
  <2>4. CacheAt(s)'
    BY <2>1, <2>3 DEF TypeOK, CacheAt, ReadsPresent, JustCompiled
  <2>5. QED
    BY <2>1, <2>2, <2>4 DEF CacheInv, CacheIsSound
<1>9. ASSUME NEW s \in Sources, Miss(s) PROVE CacheInv'
  BY <1>9, CacheMove DEF Miss, MayLookUp, Phases, JustCompiled, inputVars, diskVars
<1>10. ASSUME NEW s \in Sources, StartCompile(s) PROVE CacheInv'
  BY <1>10, CacheMove DEF StartCompile, Phases, JustCompiled, inputVars, diskVars, taskVars
<1>11. ASSUME NEW s \in Sources, CompilerReads(s) PROVE CacheInv'
  <2>1. /\ phase[s] = "running" /\ phase' = [phase EXCEPT ![s] = "read"]
        /\ read' = [read EXCEPT ![s] = <<src[s], HdrOf(src[s], hdr)>>]
        /\ UNCHANGED <<src, hdr, cmd, obj, cache, memo>>
    BY <1>11 DEF CompilerReads, Move, inputVars, diskVars
  <2>2. \A u \in Sources \ {s} : CacheAt(u)'
    BY <2>1, CacheFrame DEF TypeOK, CacheInv
  <2>3. CacheAt(s)'
    BY <2>1 DEF TypeOK, CacheInv, CacheAt, ReadsPresent, JustCompiled
  <2>4. QED
    BY <2>1, <2>2, <2>3 DEF CacheInv, CacheIsSound
<1>12. ASSUME NEW s \in Sources, CompilerWrites(s) PROVE CacheInv'
  <2>1. /\ phase[s] = "read" /\ phase' = [phase EXCEPT ![s] = "compiled"]
        /\ obj' = [obj EXCEPT ![s] = Compiled(s)]
        /\ UNCHANGED <<src, hdr, cmd, read, cache, memo>>
    BY <1>12 DEF CompilerWrites, WriteObj, Move, inputVars, taskVars
  <2>2. \A u \in Sources \ {s} : CacheAt(u)'
    BY <2>1, CacheFrame DEF TypeOK, CacheInv
  <2>3. Compiled(s) = NewObj(s)
    BY <2>1 DEF CacheInv, CacheAt, ReadsPresent, Compiled, NewObj, Compile
  <2>4. CacheAt(s)'
    BY <2>1, <2>3 DEF TypeOK, CacheInv, CacheAt, ReadsPresent, NewObj
  <2>5. QED
    BY <2>1, <2>2, <2>4 DEF CacheInv, CacheIsSound
<1>13. ASSUME NEW s \in Sources, CompilerFails(s) PROVE CacheInv'
  BY <1>13, CacheMove DEF CompilerFails, Phases, JustCompiled, inputVars, diskVars, taskVars
<1>14. ASSUME NEW s \in Sources, Record(s) PROVE CacheInv'
  <2>a. PICK p \in {"recorded", "done"} : Move(s, p)
    BY <1>14 DEF Record
  <2>1. p \in Phases /\ p # "read" /\ phase[s] \in JustCompiled
    BY <1>14 DEF Record, MayRecord, Phases, JustCompiled
  <2>2. Move(s, p) /\ UNCHANGED <<src, hdr, cmd, obj, read, cache, memo>>
    BY <1>14, <2>a DEF Record, inputVars, diskVars, taskVars
  <2>3. QED
    BY <2>1, <2>2, CacheMove DEF JustCompiled
<1>15. ASSUME NEW s \in Sources, Store(s) PROVE CacheInv'
  <2> DEFINE p == IF mode.serial THEN "stored" ELSE "done"
  <2>1. /\ phase[s] \in {"compiled", "recorded"}
        /\ phase' = [phase EXCEPT ![s] = p]
        /\ cache' = [cache EXCEPT ![KeyOf(s)] = obj[s]]
        /\ Memoise(s)
        /\ UNCHANGED <<src, hdr, cmd, obj, read>>
    BY <1>15 DEF Store, MayStore, Move, inputVars, diskVars
  <2>2. \A u \in Sources \ {s} : CacheAt(u)'
    BY <2>1, CacheFrame DEF TypeOK, CacheInv, Memoise
  <2>3. /\ HeaderPart(s) = HdrOf(src[s], hdr)
        /\ KeyOf(s) = [flags |-> cmd.flags, src |-> src[s], hdr |-> HdrOf(src[s], hdr)]
        /\ KeyOf(s) \in Keys
    BY <2>1, KeyIsPresent DEF CacheInv
  <2>4. CacheAt(s)'
    <3>1. memo'[s] = HdrOf(src[s], hdr) /\ phase'[s] = p /\ p # "read"
      BY <2>1, <2>3 DEF TypeOK, Memoise
    <3>2. obj[s] = NewObj(s)
      BY <2>1 DEF CacheInv, CacheAt, JustCompiled
    <3>3. QED
      BY <2>1, <3>1, <3>2 DEF CacheAt, ReadsPresent, NewObj
  <2>5. obj[s] = [src |-> src[s], hdr |-> HdrOf(src[s], hdr), flags |-> cmd.flags, opt |-> cmd.opt]
    BY <2>1 DEF CacheInv, CacheAt, JustCompiled, NewObj, Compile
  <2>6. \E o \in Opts : obj[s] = [src |-> KeyOf(s).src, hdr |-> KeyOf(s).hdr,
                                  flags |-> KeyOf(s).flags, opt |-> o]
    BY <2>3, <2>5 DEF TypeOK
  <2>7. CacheIsSound'
    <3>1. SUFFICES ASSUME NEW k \in Keys, cache'[k] # NoObj
                   PROVE  \E o \in Opts : cache'[k] = [src |-> k.src, hdr |-> k.hdr,
                                                       flags |-> k.flags, opt |-> o]
      BY DEF CacheIsSound
    <3>2. CASE k = KeyOf(s)
      <4>1. cache'[k] = obj[s]
        BY <2>1, <2>3, <3>2 DEF TypeOK
      <4>2. QED
        BY <4>1, <2>6, <3>2
    <3>3. CASE k # KeyOf(s)
      <4>1. cache'[k] = cache[k]
        BY <2>1, <2>3, <3>3 DEF TypeOK
      <4>2. QED
        BY <4>1, <3>1 DEF CacheInv, CacheIsSound
    <3>4. QED
      BY <3>2, <3>3
  <2>8. QED
    BY <2>2, <2>4, <2>7 DEF CacheInv
<1>16. ASSUME Succeeds \/ Fails PROVE CacheInv'
  <2>1. Idle' /\ UNCHANGED cache
    <3>1. CASE Succeeds
      BY <3>1 DEF Succeeds, EndBuild, Idle
    <3>2. CASE Fails
      BY <3>2 DEF Fails, EndBuild, Idle
    <3>3. QED
      BY <1>16, <3>1, <3>2
  <2>2. QED
    BY <2>1, <1>1
<1>17. ~Kill
  BY DEF Kill, KilledAnywhere, KilledInGet, KilledInPut, Killed
<1>18. CASE UNCHANGED vars
  <2>1. UNCHANGED <<src, hdr, cmd, obj, read, cache, phase, memo>>
    BY <1>18 DEF vars, inputVars, diskVars, taskVars
  <2>2. \A u \in Sources : CacheAt(u)'
    BY <2>1, CacheFrame DEF CacheInv
  <2>3. QED
    BY <2>1, <2>2 DEF CacheInv, CacheIsSound
<1>19. QED
  BY <1>2, <1>3, <1>4, <1>5, <1>6, <1>7, <1>8, <1>9, <1>10, <1>11, <1>12,
     <1>13, <1>14, <1>15, <1>16, <1>17, <1>18 DEF Next, Developer, Build

\* When no file is edited during a build and no build is killed, an entry of the
\* cache holds the object its key stands for.
THEOREM CacheIsSoundHolds ==
  ASSUME ~EditsInBuild, ~Crashes
  PROVE  Spec => []CacheIsSound
<1>1. Init => CacheInv
  BY DEF Init, CacheInv, CacheIsSound, CacheAt, ReadsPresent, JustCompiled, Idle
<1>2. TypeOK /\ CacheInv /\ [Next]_vars => CacheInv'
  BY CacheStep
<1>3. CacheInv => CacheIsSound
  BY DEF CacheInv
<1>4. QED
  BY <1>1, <1>2, <1>3, TypeCorrect, PTL DEF Spec

------------------------------------------------------------------------------
LEMMA StampFrame ==
  ASSUME NEW s \in Sources, StampAt(s),
         UNCHANGED <<obj[s], srcNewer[s], src[s], phase[s], fp[s]>>
  PROVE  StampAt(s)'
BY DEF StampAt

\* A step of source s that writes neither its .o nor its .o.fp.
LEMMA StampMove ==
  ASSUME TypeOK, StampInv, NEW s \in Sources, NEW p \in Phases, Move(s, p),
         phase[s] # "idle",
         phase[s] \in {"compiled", "stored"} => p \in {"compiled", "stored"},
         UNCHANGED <<src, flags, cmd, obj, srcNewer, fp>>
  PROVE  StampInv'
<1>1. \A u \in Sources \ {s} : StampAt(u)'
  BY StampFrame DEF TypeOK, StampInv, Move
<1>2. StampAt(s)'
  BY DEF TypeOK, StampInv, StampAt, Move
<1>3. ~Idle
  BY DEF Idle
<1>4. QED
  BY <1>1, <1>2, <1>3 DEF StampInv

LEMMA StampStep ==
  ASSUME ~EditsInBuild, ~Crashes, TypeOK, CacheInv, StampInv, [Next]_vars
  PROVE  StampInv'
<1>1. ASSUME NEW s \in Sources, NEW c \in SrcVersions, EditSource(s, c) PROVE StampInv'
  <2>1. /\ Idle' /\ src' = [src EXCEPT ![s] = c] /\ srcNewer' = [srcNewer EXCEPT ![s] = TRUE]
        /\ UNCHANGED <<obj, phase, fp>>
    BY <1>1 DEF EditSource, MayEdit, Idle
  <2>2. QED
    BY <2>1 DEF TypeOK, StampInv, StampAt
<1>2. ASSUME NEW h \in HdrVersions, EditHeader(h) PROVE StampInv'
  BY <1>2 DEF EditHeader, MayEdit, Idle, StampInv, StampAt
<1>3. ASSUME NEW f \in Flags, EditConfig(f) PROVE StampInv'
  BY <1>3 DEF EditConfig, MayEdit, Idle, diskVars, StampInv, StampAt
<1>4. ASSUME Clean PROVE StampInv'
  BY <1>4 DEF Clean, Idle, StampInv, StampAt
<1>5. ASSUME NEW o \in Opts, NEW m \in Modes, StartBuild(o, m) PROVE StampInv'
  BY <1>5 DEF StartBuild, Command, Idle, inputVars, diskVars, StampInv, StampAt
<1>6. ASSUME NEW s \in Sources, Check(s) PROVE StampInv'
  BY <1>6, StampMove DEF Check, Phases, inputVars, diskVars, taskVars
<1>7. ASSUME NEW s \in Sources, Hit(s) PROVE StampInv'
  <2>1. /\ phase[s] = "pending" /\ phase' = [phase EXCEPT ![s] = "done"]
        /\ obj' = [obj EXCEPT ![s] = cache[KeyOf(s)]] /\ cache[KeyOf(s)] # NoObj
        /\ srcNewer' = [srcNewer EXCEPT ![s] = FALSE]
        /\ fp' = [fp EXCEPT ![s] = cmd.flags]
        /\ UNCHANGED <<src, flags, cmd>>
    BY <1>7 DEF Hit, MayLookUp, WriteObj, SaveFingerprint, Move, inputVars
  <2>2. \A u \in Sources \ {s} : StampAt(u)'
    BY <2>1, StampFrame DEF TypeOK, StampInv
  <2>3. /\ KeyOf(s) = [flags |-> cmd.flags, src |-> src[s], hdr |-> HdrOf(src[s], hdr)]
        /\ KeyOf(s) \in Keys /\ HdrOf(src[s], hdr) \in Headers
    BY <2>1, KeyIsPresent, CompileType DEF CacheInv, TypeOK
  <2>4. PICK o \in Opts : cache[KeyOf(s)] = [src |-> KeyOf(s).src, hdr |-> KeyOf(s).hdr,
                                            flags |-> KeyOf(s).flags, opt |-> o]
    BY <2>1, <2>3 DEF CacheInv, CacheIsSound
  <2>5. /\ obj'[s] = [src |-> src[s], hdr |-> HdrOf(src[s], hdr), flags |-> cmd.flags, opt |-> o]
        /\ fp'[s] = cmd.flags /\ cmd.flags \in Flags /\ src[s] \in SrcVersions
    BY <2>1, <2>3, <2>4 DEF TypeOK
  <2>6. StampAt(s)'
    BY <2>1, <2>3, <2>5 DEF StampAt, Objects
  <2>7. ~Idle
    BY <2>1 DEF Idle
  <2>8. QED
    BY <2>1, <2>2, <2>6, <2>7 DEF StampInv
<1>8. ASSUME NEW s \in Sources, Miss(s) PROVE StampInv'
  BY <1>8, StampMove DEF Miss, MayLookUp, Phases, inputVars, diskVars
<1>9. ASSUME NEW s \in Sources, StartCompile(s) PROVE StampInv'
  BY <1>9, StampMove DEF StartCompile, Phases, inputVars, diskVars, taskVars
<1>10. ASSUME NEW s \in Sources, CompilerReads(s) PROVE StampInv'
  BY <1>10, StampMove DEF CompilerReads, Phases, inputVars, diskVars
<1>11. ASSUME NEW s \in Sources, CompilerWrites(s) PROVE StampInv'
  <2>1. /\ phase[s] = "read" /\ phase' = [phase EXCEPT ![s] = "compiled"]
        /\ obj' = [obj EXCEPT ![s] = Compiled(s)]
        /\ UNCHANGED <<src, flags, cmd, fp>>
        /\ \A u \in Sources \ {s} : srcNewer'[u] = srcNewer[u]
    BY <1>11 DEF CompilerWrites, WriteObj, Move, inputVars, taskVars, TypeOK
  <2>2. \A u \in Sources \ {s} : StampAt(u)'
    BY <2>1, StampFrame DEF TypeOK, StampInv
  <2>3. Compiled(s).src = src[s] /\ Compiled(s) \in Objects
    BY <2>1, CompiledType DEF CacheInv, CacheAt, ReadsPresent, Compiled
  <2>4. obj'[s] = Compiled(s) /\ phase'[s] = "compiled"
    BY <2>1 DEF TypeOK
  <2>5. StampAt(s)'
    BY <2>1, <2>3, <2>4 DEF StampAt
  <2>6. ~Idle
    BY <2>1 DEF Idle
  <2>7. QED
    BY <2>1, <2>2, <2>5, <2>6 DEF StampInv
<1>12. ASSUME NEW s \in Sources, CompilerFails(s) PROVE StampInv'
  BY <1>12, StampMove DEF CompilerFails, Phases, inputVars, diskVars, taskVars
<1>13. ASSUME NEW s \in Sources, Record(s) PROVE StampInv'
  <2>1. /\ phase[s] \in JustCompiled /\ \E p \in Phases : phase' = [phase EXCEPT ![s] = p]
        /\ fp' = [fp EXCEPT ![s] = cmd.flags]
        /\ UNCHANGED <<src, flags, cmd, obj, srcNewer>>
    BY <1>13 DEF Record, MayRecord, SaveFingerprint, Move, JustCompiled, Phases,
       inputVars, diskVars, taskVars
  <2>2. ASSUME NEW u \in Sources \ {s} PROVE StampAt(u)'
    <3>1. phase'[u] = phase[u] /\ fp'[u] = fp[u]
      BY <2>1 DEF TypeOK
    <3>2. StampAt(u) /\ UNCHANGED <<obj[u], srcNewer[u], src[u], phase[u], fp[u]>>
      BY <2>1, <3>1 DEF StampInv
    <3>3. QED
      BY <3>2, StampFrame
  <2>3. obj[s].flags = cmd.flags
    <3>1. obj[s] = NewObj(s)
      BY <2>1 DEF CacheInv, CacheAt
    <3>2. QED
      BY <3>1 DEF NewObj, Compile
  <2>4. StampAt(s)'
    BY <2>1, <2>3 DEF TypeOK, StampInv, StampAt
  <2>5. ~Idle
    BY <2>1 DEF Idle, JustCompiled
  <2>6. QED
    BY <2>1, <2>2, <2>4, <2>5 DEF StampInv
<1>14. ASSUME NEW s \in Sources, Store(s) PROVE StampInv'
  <2> DEFINE p == IF mode.serial THEN "stored" ELSE "done"
  <2>1. /\ p \in Phases /\ Move(s, p) /\ phase[s] # "idle"
        /\ phase[s] = "compiled" => p = "stored"
        /\ phase[s] # "stored"
        /\ UNCHANGED <<src, flags, cmd, obj, srcNewer, fp>>
    BY <1>14 DEF Store, MayStore, Phases, inputVars, diskVars
  <2>2. QED
    BY <2>1, StampMove
<1>15. ASSUME Succeeds \/ Fails PROVE StampInv'
  <2>1. /\ phase' = [s \in Sources |-> "idle"] /\ NoneActive
        /\ UNCHANGED <<src, flags, obj, srcNewer, fp>>
    <3>1. CASE Succeeds
      BY <3>1 DEF Succeeds, EndBuild, AllIn, NoneActive, Phases, Active, inputVars, diskVars
    <3>2. CASE Fails
      BY <3>2 DEF Fails, Over, EndBuild, inputVars, diskVars
    <3>3. QED
      BY <1>15, <3>1, <3>2
  <2>2. \A s \in Sources : phase[s] \notin {"compiled", "stored"}
    BY <2>1 DEF NoneActive, AllIn, Active
  <2>3. QED
    BY <2>1, <2>2 DEF StampInv, StampAt, Idle
<1>16. ~Kill
  BY DEF Kill, KilledAnywhere, KilledInGet, KilledInPut, Killed
<1>17. CASE UNCHANGED vars
  BY <1>17 DEF vars, inputVars, diskVars, taskVars, StampInv, StampAt, Idle
<1>18. QED
  BY <1>1, <1>2, <1>3, <1>4, <1>5, <1>6, <1>7, <1>8, <1>9, <1>10, <1>11, <1>12,
     <1>13, <1>14, <1>15, <1>16, <1>17 DEF Next, Developer, Build

\* When no file is edited during a build and no build is killed, what the next
\* build skips has the present source and flags, also if it comes from the cache.
THEOREM SkippedHasSourceAndFlagsHolds ==
  ASSUME ~EditsInBuild, ~Crashes
  PROVE  Spec => []SkippedHasSourceAndFlags
<1>1. Init => CacheInv /\ StampInv
  BY DEF Init, CacheInv, CacheIsSound, CacheAt, ReadsPresent, JustCompiled, Idle, StampInv, StampAt
<1>2. TypeOK /\ CacheInv /\ StampInv /\ [Next]_vars => CacheInv' /\ StampInv'
  BY CacheStep, StampStep
<1>3. TypeOK /\ StampInv => SkippedHasSourceAndFlags
  <2>1. SUFFICES ASSUME TypeOK, StampInv, Idle, NEW s \in Sources, ~NeedsCompile(s, flags)
                 PROVE  obj[s] # NoObj /\ obj[s].src = src[s] /\ obj[s].flags = flags
    BY DEF SkippedHasSourceAndFlags
  <2>2. obj[s] # NoObj /\ ~srcNewer[s] /\ fp[s] = flags /\ phase[s] = "idle" /\ flags # NoObj
    BY <2>1 DEF NeedsCompile, Idle, TypeOK
  <2>3. QED
    BY <2>1, <2>2 DEF StampInv, StampAt
<1>4. QED
  BY <1>1, <1>2, <1>3, TypeCorrect, PTL DEF Spec


------------------------------------------------------------------------------
(* How far a build is from its end: how much is ahead of its sources.  Whether *)
(* the fingerprint or the cache comes first depends on --jobs, so "recorded"   *)
(* and "stored" are one level; a source that failed has nothing ahead but the  *)
(* end.  A build of no sources does nothing but report.                        *)

Level(p) ==
    CASE p = "check" -> 0 [] p = "pending" -> 1 [] p = "missed" -> 2
      [] p = "running" -> 3 [] p = "read" -> 4 [] p = "compiled" -> 5
      [] p \in {"recorded", "stored"} -> 6 [] p \in {"done", "failed"} -> 7
      [] p = "idle" -> 8
Levels == [s \in Sources |-> Level(phase[s])]

Rank == <<Cardinality(Ahead(Sources, 8, Levels)), IF ok THEN 0 ELSE 1, 0, 0>>

LEMMA LevelsType ==
  ASSUME TypeOK, TypeOK'
  PROVE  Levels \in [Sources -> 0 .. 8] /\ Levels' \in [Sources -> 0 .. 8]
<1>1. \A p \in Phases : Level(p) \in 0 .. 8
  BY DEF Phases, Level
<1>2. QED
  BY <1>1 DEF TypeOK, Levels

LEMMA RankType == IsFiniteSet(Sources) => Rank \in RankSet
<1>1. IsFiniteSet(Sources) => Cardinality(Ahead(Sources, 8, Levels)) \in Nat
  BY AheadIsFinite
<1>2. QED
  BY <1>1 DEF Rank, RankSet

\* Some source comes further and none falls back.
LEMMA SourceLowers ==
  ASSUME IsFiniteSet(Sources), TypeOK, TypeOK', NEW s \in Sources,
         Level(phase[s]) < Level(phase'[s]),
         \A q \in Sources : q # s => Level(phase[q]) <= Level(phase'[q])
  PROVE  Lower(Rank', Rank)
<1>1. Levels \in [Sources -> 0 .. 8] /\ Levels' \in [Sources -> 0 .. 8]
  BY LevelsType
<1>2. \A q \in Sources : Levels[q] = Level(phase[q]) /\ Levels'[q] = Level(phase'[q])
  BY DEF Levels
<1>3. (\A q \in Sources : Levels[q] <= Levels'[q]) /\ Levels[s] < Levels'[s]
  BY <1>1, <1>2
<1>4. Cardinality(Ahead(Sources, 8, Levels')) < Cardinality(Ahead(Sources, 8, Levels))
  BY <1>1, <1>3, Advance
<1>5. QED
  BY <1>4 DEF Rank, Lower

LEMMA MoveLowers ==
  ASSUME IsFiniteSet(Sources), TypeOK, TypeOK', NEW s \in Sources, NEW p \in Phases,
         Move(s, p), Level(phase[s]) < Level(p)
  PROVE  Lower(Rank', Rank)
<1>1. \A q \in Sources : phase'[q] = IF q = s THEN p ELSE phase[q]
  BY DEF Move, TypeOK
<1>2. \A q \in Phases : Level(q) \in Nat
  BY DEF Phases, Level
<1>3. \A q \in Sources : q # s => Level(phase[q]) <= Level(phase'[q])
  BY <1>1, <1>2 DEF TypeOK
<1>4. QED
  BY <1>1, <1>3, SourceLowers

LEMMA EndLowers ==
  ASSUME IsFiniteSet(Sources), TypeOK, TypeOK', EndBuild,
         NEW s \in Sources, phase[s] # "idle"
  PROVE  Lower(Rank', Rank)
<1>1. \A p \in Phases : p # "idle" => Level(p) \in Nat /\ Level(p) < 8
  BY DEF Phases, Level
<1>2. Level("idle") = 8 /\ \A q \in Sources : phase'[q] = "idle"
  BY DEF Level, EndBuild
<1>3. \A q \in Sources : phase[q] \in Phases /\ Level(phase'[q]) = 8
  <2>1. \A q \in Sources : phase[q] \in Phases
    BY DEF TypeOK
  <2>2. QED
    BY <1>2, <2>1
<1>4. Level(phase[s]) < Level(phase'[s])
  BY <1>1, <1>3
<1>5. \A q \in Sources : Level(phase[q]) <= Level(phase'[q])
  BY <1>1, <1>2, <1>3
<1>6. QED
  BY <1>4, <1>5, SourceLowers

LEMMA BuildLowers ==
  ASSUME IsFiniteSet(Sources), TypeOK, TypeOK', [Next]_vars
  PROVE  [Build => Lower(Rank', Rank)]_vars
<1> SUFFICES ASSUME Build, vars' # vars PROVE Lower(Rank', Rank)
  OBVIOUS
<1>1. ASSUME NEW s \in Sources,
             \/ Check(s) \/ Hit(s) \/ Miss(s) \/ StartCompile(s) \/ CompilerReads(s)
             \/ CompilerWrites(s) \/ CompilerFails(s) \/ Record(s) \/ Store(s)
      PROVE  Lower(Rank', Rank)
  <2>1. \/ phase[s] = "check" /\ (Move(s, "pending") \/ Move(s, "done"))
        \/ phase[s] = "pending" /\ (Move(s, "done") \/ Move(s, "missed"))
        \/ phase[s] = "missed" /\ Move(s, "running")
        \/ phase[s] = "running" /\ Move(s, "read")
        \/ phase[s] = "read" /\ (Move(s, "compiled") \/ Move(s, "failed"))
        \/ /\ phase[s] = "compiled"
           /\ Move(s, "done") \/ Move(s, "recorded") \/ Move(s, "stored")
        \/ phase[s] \in {"recorded", "stored"} /\ Move(s, "done")
    <3>1. CASE Check(s)
      BY <3>1 DEF Check
    <3>2. CASE Hit(s) \/ Miss(s)
      BY <3>2 DEF Hit, Miss, MayLookUp
    <3>3. CASE StartCompile(s) \/ CompilerReads(s) \/ CompilerWrites(s) \/ CompilerFails(s)
      BY <3>3 DEF StartCompile, CompilerReads, CompilerWrites, CompilerFails
    <3>4. CASE Record(s)
      BY <3>4 DEF Record, MayRecord
    <3>5. CASE Store(s)
      BY <3>5 DEF Store, MayStore
    <3>6. QED
      BY <1>1, <3>1, <3>2, <3>3, <3>4, <3>5
  <2>2. \A p \in Phases : Move(s, p) /\ Level(phase[s]) < Level(p) => Lower(Rank', Rank)
    BY MoveLowers
  <2>3. {"pending", "missed", "running", "read", "compiled", "recorded", "stored",
         "done", "failed"} \subseteq Phases
    BY DEF Phases
  <2>4. QED
    BY <2>1, <2>2, <2>3 DEF Level
<1>2. CASE Fails
  <2>1. EndBuild /\ \E s \in Sources : phase[s] # "idle"
    BY <1>2 DEF Fails, Over, Failed
  <2>2. QED
    BY <2>1, EndLowers
<1>3. CASE Succeeds
  <2>1. EndBuild /\ ok' /\ \A s \in Sources : phase[s] = "done"
    BY <1>3 DEF Succeeds, AllIn
  <2>2. CASE \E s \in Sources : TRUE
    BY <2>1, <2>2, EndLowers
  <2>3. CASE Sources = {}
    <3>1. phase' = phase
      BY <2>1, <2>3 DEF EndBuild, TypeOK
    <3>2. ~ok
      BY <1>3, <2>1, <3>1 DEF Succeeds, vars, inputVars, diskVars, taskVars, report, TypeOK
    <3>3. Levels' = Levels
      BY <3>1 DEF Levels
    <3>4. QED
      BY <2>1, <3>2, <3>3 DEF Rank, Lower
  <2>4. QED
    BY <2>2, <2>3
<1>4. QED
  BY <1>1, <1>2, <1>3 DEF Build

\* A kill ends the build, and while it runs no edit takes a source back.
LEMMA KillLowers ==
  ASSUME IsFiniteSet(Sources), TypeOK, TypeOK', Kill
  PROVE  Lower(Rank', Rank)
<1>1. EndBuild /\ ~Idle
  BY DEF Kill, KilledAnywhere, KilledInGet, KilledInPut, Killed
<1>2. QED
  BY <1>1, EndLowers DEF Idle

LEMMA DeveloperKeeps ==
  ASSUME ~Idle, Developer
  PROVE  Rank' = Rank
<1>1. UNCHANGED <<phase, ok>>
  BY DEF Developer, EditSource, EditHeader, EditConfig, StartBuild, Clean
<1>2. Levels' = Levels
  BY <1>1 DEF Levels
<1>3. QED
  BY <1>1, <1>2 DEF Rank

\* No build goes on for ever: each of its steps takes a source further, and nothing
\* that is edited while it runs takes one back.
THEOREM BuildsAreFinite ==
  ASSUME IsFiniteSet(Sources)
  PROVE  Spec => /\ [](Rank \in RankSet)
                 /\ [][Build \/ Kill => Lower(Rank', Rank)]_vars
                 /\ [][~Idle /\ Developer => Rank' = Rank]_vars
<1>1. TypeOK /\ TypeOK' /\ [Next]_vars => [Build \/ Kill => Lower(Rank', Rank)]_vars
  BY BuildLowers, KillLowers
<1>2. [Next]_vars => [~Idle /\ Developer => Rank' = Rank]_vars
  BY DeveloperKeeps
<1>3. Rank \in RankSet
  BY RankType
<1>4. QED
  BY <1>1, <1>2, <1>3, TypeCorrect, PTL DEF Spec
==============================================================================
