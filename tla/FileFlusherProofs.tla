------------------------- MODULE FileFlusherProofs -------------------------
(* Proofs about FileFlusher, for any number of restarts, forks and profiles: *)
(* it is a BlockFlusher, and it never writes over a profile.                 *)
EXTENDS FileFlusher, BlockFlusherProofs, FiniteSetTheorems

-----------------------------------------------------------------------------
(* FileFlusher is a BlockFlusher                                           *)

LEMMA FileStepIsStep == [FileNext]_all_vars => [Next]_vars
<1> SUFFICES ASSUME [FileNext]_all_vars
             PROVE  [Next]_vars
    OBVIOUS
<1>1. ASSUME NEW f \in Flushers, FlushEnds(f)
      PROVE  Next
    BY <1>1 DEF Next, FlusherStep
<1>2. ASSUME NEW f \in Flushers, FileFlusherStep(f)
      PROVE  [Next]_vars
  <2>1. CASE FlusherStep(f)
      BY <2>1 DEF Next
  <2>2. CASE FileStep(f)
      BY <1>1, <2>2
      DEF FileStep, OnFlush, NoOnFlush, MakeDir, WriteFile, WriteFails,
          CountProfile, FlushOver
  <2> QED BY <1>2, <2>1, <2>2 DEF FileFlusherStep
<1>3. CASE \/ CallStop \/ CallStart \/ OwnerStep \/ Pause \/ Unpause
           \/ \E f \in Flushers : TimePasses(f)
           \/ FileFork
    BY <1>3 DEF Next, FileFork
<1>4. CASE \/ \E p \in Processes : ParentFlush(p)
           \/ UNCHANGED all_vars
    BY <1>4 DEF ParentFlush, all_vars
<1> QED BY <1>2, <1>3, <1>4 DEF FileNext

\* Every behaviour of a FileFlusher is one of a BlockFlusher: what is promised
\* of the latter holds of the former.
THEOREM FileFlusherIsBlockFlusher == FileSpec => Spec
<1>1. FileInit => Init
    BY DEF FileInit
<1> QED BY <1>1, FileStepIsStep, PTL DEF FileSpec, Spec

-----------------------------------------------------------------------------
(* The files                                                               *)

\* The name that a process will use next.
NextName(p) == <<p, profile_counter[p]>>

\* A name with a file is below the counter of its process, or is the one that
\* this process is about to count.
NamesUsed ==
    \A name \in files :
        /\ name[1] <= forks
        /\ \/ name[2] < profile_counter[name[1]]
           \/ step = "count" /\ name = NextName(forks)

FileTypes ==
    /\ forks \in Processes
    /\ on_flush \in BOOLEAN
    /\ step \in Step
    /\ profile_counter \in [Processes -> Nat]
    /\ files \subseteq Processes \X Nat
    /\ IsFiniteSet(files)
    /\ written \in Nat

FileInv == FileTypes /\ NamesUsed /\ KeptProfiles

\* A file with a new name is one file more.
LEMMA NewFile ==
    ASSUME FileTypes, KeptProfiles,
           NEW name \in (Processes \X Nat) \ files,
           files' = files \union {name}, written' = written + 1
    PROVE  /\ files' \subseteq Processes \X Nat
           /\ IsFiniteSet(files')
           /\ written' \in Nat
           /\ KeptProfiles'
<1>1. /\ IsFiniteSet(files \union {name})
      /\ Cardinality(files \union {name}) = Cardinality(files) + 1
    BY FS_AddElement DEF FileTypes
<1> QED BY <1>1 DEF FileTypes, KeptProfiles

\* The steps of a flush in this process.
LEMMA FileStepKeepsInv ==
    ASSUME FileInv, NEW f \in Flushers, FileStep(f)
    PROVE  FileInv'
<1> USE DEF FileInv
<1>f. /\ forks' = forks /\ forks \in Processes /\ forks \in Nat
      /\ on_flush' = on_flush
      /\ profile_counter[forks] \in Nat
    BY ThreadBound
    DEF FileStep, OnFlush, NoOnFlush, MakeDir, WriteFile, WriteFails,
        CountProfile, FlushOver, FlushEnds, FileTypes, vars, Processes,
        ThreadBound
<1>1. CASE OnFlush(f) \/ NoOnFlush(f) \/ MakeDir(f)
  <2>1. /\ UNCHANGED <<profile_counter, files, written>>
        /\ step # "count" /\ step' \in Step
      BY <1>1
      DEF OnFlush, NoOnFlush, MakeDir, FlushOver, Flushing, Step
  <2> QED BY <1>f, <2>1 DEF FileTypes, NamesUsed, KeptProfiles
<1>2. CASE WriteFile(f)
  <2> DEFINE name == NextName(forks)
  <2>1. /\ step = "write" /\ step' = "count"
        /\ profile_counter' = profile_counter
        /\ files' = files \union {name} /\ written' = written + 1
      BY <1>2 DEF WriteFile, Flushing, FileName, Pid, NextName
  <2>2. name \in (Processes \X Nat) \ files
      BY <1>f, <2>1 DEF NamesUsed, NextName
  <2>3. NamesUsed'
    <3>1. \A n \in files : n[1] <= forks /\ n[2] < profile_counter[n[1]]
        BY <2>1 DEF NamesUsed
    <3>2. name[1] <= forks /\ name = NextName(forks)'
        BY <1>f, <2>1 DEF NextName
    <3> HIDE DEF name
    <3> QED BY <1>f, <2>1, <3>1, <3>2 DEF NamesUsed
  <2> HIDE DEF name
  <2> QED BY <1>f, <2>1, <2>2, <2>3, NewFile DEF FileTypes, Step
\* What a write that fails truncates was no profile.
<1>3. CASE WriteFails(f)
  <2>1. /\ step = "write" /\ step' = "flush"
        /\ UNCHANGED <<profile_counter, written>>
        /\ files' \in {files, files \ {NextName(forks)}}
      BY <1>3
      DEF WriteFails, Flushing, FlushOver, FileName, Pid, NextName
  <2>2. NextName(forks) \notin files
      BY <1>f, <2>1 DEF NamesUsed, NextName
  <2>3. files' = files
      BY <2>1, <2>2
  <2> QED BY <1>f, <2>1, <2>3 DEF FileTypes, NamesUsed, KeptProfiles, Step
<1>4. CASE CountProfile(f)
  <2>1. /\ step = "count" /\ step' = "flush"
        /\ UNCHANGED <<files, written>>
        /\ profile_counter' = Counted(forks)
      BY <1>4 DEF CountProfile, Flushing, FlushOver
  <2>2. NamesUsed'
    <3> SUFFICES ASSUME NEW name \in files
                 PROVE  /\ name[1] <= forks
                        /\ name[2] < profile_counter'[name[1]]
        BY <1>f, <2>1 DEF NamesUsed
    <3>1. name[1] \in Processes /\ name[2] \in Nat
        BY DEF FileTypes
    <3>2. CASE name[2] < profile_counter[name[1]]
        BY <1>f, <2>1, <3>1, <3>2 DEF NamesUsed, FileTypes, Counted
    <3>3. CASE name = NextName(forks)
        BY <1>f, <2>1, <3>3 DEF NextName, FileTypes, Counted, NamesUsed
    <3> QED BY <3>2, <3>3 DEF NamesUsed
  <2> QED BY <1>f, <2>1, <2>2 DEF FileTypes, KeptProfiles, Counted, Step
<1> QED BY <1>1, <1>2, <1>3, <1>4 DEF FileStep

LEMMA ParentFlushKeepsInv ==
    ASSUME FileInv, NEW p \in Processes, ParentFlush(p)
    PROVE  FileInv'
<1> USE DEF FileInv
<1> DEFINE name == NextName(p)
<1>1. /\ forks' = forks /\ UNCHANGED <<on_flush, step>>
      /\ p < forks /\ forks \in Nat /\ p \in Nat
      /\ profile_counter' = Counted(p)
      /\ files' = files \union {name} /\ written' = written + 1
    BY ThreadBound
    DEF ParentFlush, FileName, Pid, NextName, vars, FileTypes, Processes,
        ThreadBound
<1>2. name \in (Processes \X Nat) \ files
    BY <1>1 DEF NamesUsed, NextName, FileTypes
<1>3. NamesUsed'
  <2> SUFFICES ASSUME NEW n \in files'
               PROVE  /\ n[1] <= forks
                      /\ \/ n[2] < profile_counter'[n[1]]
                         \/ step = "count" /\ n = NextName(forks)'
      BY <1>1 DEF NamesUsed
  <2>1. CASE n = name
      BY <1>1, <2>1 DEF NextName, Counted, FileTypes
  <2>2. CASE n \in files
    <3>1. n[1] \in Processes /\ n[2] \in Nat
        BY <2>2 DEF FileTypes
    <3> QED BY <1>1, <2>2, <3>1 DEF NamesUsed, NextName, Counted, FileTypes
  <2> QED BY <1>1, <2>1, <2>2
<1> HIDE DEF name
<1>4. /\ files' \subseteq Processes \X Nat /\ IsFiniteSet(files')
      /\ written' \in Nat /\ KeptProfiles'
    BY <1>1, <1>2, NewFile
<1>5. profile_counter' \in [Processes -> Nat]
    BY <1>1 DEF FileTypes, Counted
<1> QED BY <1>1, <1>3, <1>4, <1>5 DEF FileTypes

LEMMA ForkKeepsInv == FileInv /\ FileFork => FileInv'
<1> SUFFICES ASSUME FileInv, FileFork
             PROVE  FileInv'
    OBVIOUS
<1> USE DEF FileInv
<1> DEFINE before ==
        IF step = "count" THEN Counted(forks) ELSE profile_counter
<1>1. /\ forks' = forks + 1 /\ forks \in Nat /\ forks + 1 \in Processes
      /\ UNCHANGED <<on_flush, files, written>> /\ step' = "flush"
      /\ profile_counter' =
             [before EXCEPT ![forks + 1] = profile_counter[forks]]
    BY ThreadBound
    DEF FileFork, Fork, FileTypes, Processes, ThreadBound
<1>2. before \in [Processes -> Nat]
    BY DEF FileTypes, Counted
<1>3. \A name \in files : name[1] <= forks /\ name[2] < before[name[1]]
  <2> SUFFICES ASSUME NEW name \in files
               PROVE  name[1] <= forks /\ name[2] < before[name[1]]
      OBVIOUS
  <2>1. /\ name[1] \in Processes /\ name[2] \in Nat
        /\ forks \in Processes
      BY DEF FileTypes
  <2>2. CASE name[2] < profile_counter[name[1]]
      BY <2>1, <2>2 DEF NamesUsed, FileTypes, Counted
  <2>3. CASE step = "count" /\ name = NextName(forks)
      BY <2>1, <2>3 DEF NextName, FileTypes, Counted, NamesUsed
  <2> QED BY <2>2, <2>3 DEF NamesUsed
<1> HIDE DEF before
<1>4. NamesUsed'
  <2> SUFFICES ASSUME NEW name \in files
               PROVE  /\ name[1] <= forks + 1
                      /\ name[2] < profile_counter'[name[1]]
      BY <1>1 DEF NamesUsed
  <2>1. /\ name[1] \in Processes /\ name[1] \in Nat
        /\ name[1] # forks + 1 /\ name[1] <= forks + 1
      BY <1>1, <1>3, ThreadBound DEF FileTypes, Processes, ThreadBound
  <2>2. profile_counter'[name[1]] = before[name[1]]
      BY <1>1, <1>2, <2>1
  <2> QED BY <1>3, <2>1, <2>2
<1>5. profile_counter' \in [Processes -> Nat]
  <2>1. profile_counter[forks] \in Nat
      BY DEF FileTypes
  <2> QED BY <1>1, <1>2, <2>1
<1> QED BY <1>1, <1>4, <1>5 DEF FileTypes, KeptProfiles, Step

LEMMA FileInvStep == FileInv /\ [FileNext]_all_vars => FileInv'
<1>1. ASSUME UNCHANGED <<forks, file_vars>>
      PROVE  FileInv => FileInv'
    BY <1>1
    DEF FileInv, FileTypes, NamesUsed, KeptProfiles, NextName, file_vars
<1>2. ASSUME UNCHANGED file_vars,
             \/ CallStop \/ CallStart \/ OwnerStep \/ Pause \/ Unpause
             \/ \E f \in Flushers : FlusherStep(f) \/ TimePasses(f)
      PROVE  FileInv => FileInv'
  <2>1. forks' = forks
      BY <1>2
      DEF CallStop, CallStart, Signal, Pause, Unpause, TimePasses,
          OwnerStep, Join, JoinRaises, ClearThread, Unregister, Run, Spawn,
          Register,
          FlusherStep, Begin, End, Flush, Wait, WaitRaises, Wake, FlushEnds
  <2> QED BY <1>1, <1>2, <2>1
<1>3. CASE UNCHANGED all_vars
    BY <1>1, <1>3 DEF all_vars, vars
<1> QED
    BY <1>2, <1>3, FileStepKeepsInv, ParentFlushKeepsInv, ForkKeepsInv
    DEF FileNext, FileFlusherStep

LEMMA FileInvAlways == FileSpec => []FileInv
<1>1. FileInit => FileInv
  <2> SUFFICES ASSUME FileInit
               PROVE  FileInv
      OBVIOUS
  <2>1. forks \in Processes
      BY ThreadBound DEF FileInit, Init, Processes, ThreadBound
  <2>2. IsFiniteSet(files) /\ Cardinality(files) = written
      BY FS_EmptySet DEF FileInit
  <2> QED BY <2>1, <2>2
          DEF FileInit, FileInv, FileTypes, NamesUsed, KeptProfiles, Step
<1> QED BY <1>1, FileInvStep, PTL DEF FileSpec

\* The types of FileFlusher, and of the BlockFlusher that it has.
THEOREM FileFlusherTypes == FileSpec => []FileTypeOK
<1>1. TypeOK /\ FileInv => FileTypeOK
    BY DEF FileInv, FileTypes, FileTypeOK
<1> QED
    BY <1>1, FileInvAlways, FileFlusherIsBlockFlusher,
       BlockFlusherTypeCorrect, PTL

\* No profile is written over, by this process, its parents or its children.
THEOREM ProfilesAreKept == FileSpec => []KeptProfiles
<1>1. FileInv => KeptProfiles
    BY DEF FileInv
<1> QED BY <1>1, FileInvAlways, PTL

=============================================================================
