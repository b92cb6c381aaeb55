---------------------------- MODULE FileFlusher ----------------------------
(***************************************************************************)
(* MemprofilerPprof::FileFlusher: a BlockFlusher whose on_flush writes the *)
(* profile to a file.  The name of the file is made of a pattern, here the *)
(* %{pid} of the process and the %{index} of the profile in it.            *)
(*                                                                         *)
(* BlockFlusher goes on in the child of a fork.  So does this module, but  *)
(* the parents have flushers too, which write files beside it.  (The child *)
(* has a copy of @profile_counter.)  An application that has a BlockFlusher*)
(* of its own, without on_flush, is the other case of this module: only    *)
(* such a flusher can be paused, as FileFlusher does not delegate pause.   *)
(***************************************************************************)
EXTENDS BlockFlusher, FiniteSets

CONSTANT MaxProfiles  \* bound on the files that are written

ASSUME ProfileBound == MaxProfiles \in Nat

VARIABLES
    on_flush,         \* whether @on_flush is FileFlusher#on_flush
    step,             \* where the flusher of this process is in a flush
    profile_counter,  \* @profile_counter of each process
    files,            \* the names of the files that have a whole profile
    written           \* history: how many profiles were written

file_vars == <<on_flush, step, profile_counter, files, written>>
all_vars == <<vars, file_vars>>

\* Processes are numbered by their depth; this one has had that many forks.
Processes == 0 .. MaxForks

Step == {"flush", "mkdir", "write", "count"}

FileTypeOK ==
    /\ TypeOK
    /\ on_flush \in BOOLEAN
    /\ step \in Step
    /\ profile_counter \in [Processes -> Nat]
    /\ files \subseteq Processes \X Nat
    /\ IsFiniteSet(files)
    /\ written \in Nat

FileInit ==
    /\ Init
    /\ on_flush \in BOOLEAN
    /\ step = "flush"
    /\ profile_counter = [p \in Processes |-> 0]
    /\ files = {}
    /\ written = 0

\* Process.pid.
\* Fault: the pid of the process that has called initialize.
Pid_AtInitialize(p) == 0
Pid(p) == p

\* template_string(@pattern).
FileName(p) == <<Pid(p), profile_counter[p]>>

Counted(p) == [profile_counter EXCEPT ![p] = @ + 1]

-----------------------------------------------------------------------------
(* on_flush                                                                *)

Flushing(f, s) == fpc[f] = "flush" /\ step = s

\* flusher_thread goes on: there is nothing to call, Collector#flush or
\* on_flush has raised what is rescued, or on_flush has returned.
FlushOver(f) == FlushEnds(f) /\ step' = "flush" /\ UNCHANGED on_flush

\* Collector#flush has returned.
OnFlush(f) ==
    /\ Flushing(f, "flush")
    /\ on_flush
    /\ step' = "mkdir"
    /\ UNCHANGED <<vars, on_flush, profile_counter, files, written>>

NoOnFlush(f) ==
    /\ Flushing(f, "flush")
    /\ FlushOver(f)
    /\ UNCHANGED <<profile_counter, files, written>>

MakeDir(f) ==
    /\ Flushing(f, "mkdir")
    /\ \/ step' = "write" /\ UNCHANGED <<vars, on_flush>>
       \/ FlushOver(f)
    /\ UNCHANGED <<profile_counter, files, written>>

\* File.write truncates what is there; it may fail then, or before, when there
\* is no such directory (the name was not the same for mkdir_p).
WriteFile(f) ==
    /\ Flushing(f, "write")
    /\ written < MaxProfiles
    /\ files' = files \union {FileName(forks)}
    /\ written' = written + 1
    /\ step' = "count"
    /\ UNCHANGED <<vars, on_flush, profile_counter>>

WriteFails(f) ==
    /\ Flushing(f, "write")
    /\ files' \in {files, files \ {FileName(forks)}}
    /\ FlushOver(f)
    /\ UNCHANGED <<profile_counter, written>>

CountProfile(f) ==
    /\ Flushing(f, "count")
    /\ profile_counter' = Counted(forks)
    /\ FlushOver(f)
    /\ UNCHANGED <<files, written>>

FileStep(f) ==
    \/ OnFlush(f)
    \/ NoOnFlush(f)
    \/ MakeDir(f)
    \/ WriteFile(f)
    \/ WriteFails(f)
    \/ CountProfile(f)

\* A flush in a process that has forked, from end to end.
ParentFlush(p) ==
    /\ on_flush
    /\ p < forks
    /\ written < MaxProfiles
    /\ files' = files \union {FileName(p)}
    /\ profile_counter' = Counted(p)
    /\ written' = written + 1
    /\ UNCHANGED <<vars, on_flush, step>>

-----------------------------------------------------------------------------
(* fork                                                                    *)

\* The child has a copy of the counter; the parent finishes what it was at.
FileFork ==
    /\ Fork
    /\ step' = "flush"
    /\ profile_counter' =
           [IF step = "count" THEN Counted(forks) ELSE profile_counter
               EXCEPT ![forks + 1] = profile_counter[forks]]
    /\ UNCHANGED <<on_flush, files, written>>

-----------------------------------------------------------------------------
\* The steps of flusher_thread, with the flush in detail.
FileFlusherStep(f) ==
    \/ FlusherStep(f) /\ fpc[f] # "flush" /\ UNCHANGED file_vars
    \/ FileStep(f)

FileNext ==
    \/ (CallStop \/ CallStart) /\ UNCHANGED file_vars
    \/ OwnerStep /\ UNCHANGED file_vars
    \/ (Pause \/ Unpause) /\ ~on_flush /\ UNCHANGED file_vars
    \/ \E f \in Flushers : FileFlusherStep(f)
    \/ \E f \in Flushers : TimePasses(f) /\ UNCHANGED file_vars
    \/ FileFork
    \/ \E p \in Processes : ParentFlush(p)

FileSpec == FileInit /\ [][FileNext]_all_vars

\* As for BlockFlusher; and the system calls return, or fail.
FileFairSpec ==
    /\ FileSpec
    /\ WF_all_vars(OwnerStep /\ UNCHANGED file_vars)
    /\ \A f \in Flushers : WF_all_vars(FileFlusherStep(f))
    /\ \A f \in Flushers : WF_all_vars(TimePasses(f) /\ UNCHANGED file_vars)

-----------------------------------------------------------------------------
(* What makes the file flusher correct                                     *)

\* No profile is lost once it was written: every write goes to a name of its
\* own, whatever restarts, forks, and writes that failed lie in between.
KeptProfiles == Cardinality(files) = written

=============================================================================
