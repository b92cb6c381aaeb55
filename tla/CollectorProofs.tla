-------------------------- MODULE CollectorProofs --------------------------
(***************************************************************************)
(* Invariants of Collector, proved for every number of threads, slots,     *)
(* objects and VALUEs, every build and every bound.                        *)
(***************************************************************************)
EXTENDS Collector, FiniteSetTheorems, TLAPS

USE NothingIsNotAThing, BuildFlags, Bounds, SampleIsSomething

-----------------------------------------------------------------------------
(* The records                                                             *)

\* Replacing the fields of a flush by values of their types gives a flush.
LEMMA FlushFields ==
    ASSUME NEW f \in Flush
    PROVE  /\ f.epoch \in Nat /\ f.todo \subseteq Slots
           /\ f.key \in Slots \union {NoSlot}
           /\ f.held \in Objects \union {NoObject}
           /\ f.profile \in [Objects -> Tally] /\ f.before \subseteq Objects
           /\ \A T \in SUBSET Slots : [f EXCEPT !.todo = T] \in Flush
           /\ \A T \in SUBSET Slots, k \in Slots \union {NoSlot},
                 h \in Objects \union {NoObject} :
                 [f EXCEPT !.todo = T, !.key = k, !.held = h] \in Flush
           /\ \A k \in Slots \union {NoSlot}, h \in Objects \union {NoObject} :
                 [f EXCEPT !.key = k, !.held = h] \in Flush
           /\ \A o \in Objects, n \in Tally :
                 [f EXCEPT !.profile[o] = n] \in Flush
           /\ \A e \in Nat, T \in SUBSET Slots, B \in SUBSET Objects :
                 [f EXCEPT !.epoch = e, !.todo = T, !.before = B] \in Flush
BY DEF Flush, Tally

\* A thread that is not in #flush has a context of the right type.
LEMMA NoFlushType == NoFlush \in Flush
BY DEF NoFlush, Flush, EmptyProfile, Tally

LEMMA OneMoreType == ASSUME NEW n \in Tally PROVE OneMore(n) \in Tally
BY DEF OneMore, Tally

LEMMA ListedType ==
    ASSUME Types, NEW s \in Slots
    PROVE  /\ Listed(s) \in [Threads -> Flush]
           /\ Unlisted(s) \in [Threads -> Flush]
           /\ \A from \in Slots : Relisted(from, s) \in [Threads -> Flush]
<1> USE DEF Types
<1>1. ASSUME NEW t \in Threads
      PROVE  flush[t] \in Flush /\ flush[t].todo \subseteq Slots
    BY FlushFields
<1>2. Listed(s) \in [Threads -> Flush]
  <2>1. ASSUME NEW t \in Threads
        PROVE  [flush[t] EXCEPT !.todo = @ \union {s}] \in Flush
    <3>1. flush[t].todo \union {s} \in SUBSET Slots
        BY <1>1
    <3> QED BY <1>1, <3>1, FlushFields
  <2> QED BY <1>1, <2>1 DEF Listed
<1>3. Unlisted(s) \in [Threads -> Flush]
  <2>1. ASSUME NEW t \in Threads
        PROVE  [flush[t] EXCEPT !.todo = @ \ {s}] \in Flush
      BY <1>1, FlushFields
  <2> QED BY <1>1, <2>1 DEF Unlisted
<1>4. ASSUME NEW from \in Slots
      PROVE  Relisted(from, s) \in [Threads -> Flush]
  <2>1. ASSUME NEW t \in Threads, NEW T \in SUBSET Slots
        PROVE  [flush[t] EXCEPT !.todo = (@ \ {from}) \union T] \in Flush
      BY <1>1, FlushFields
  <2>2. ASSUME NEW t \in Threads
        PROVE  [flush[t] EXCEPT !.todo =
                  (@ \ {from}) \union
                  (IF Walking(t) /\ heap_samples[s] = NoObject
                   THEN {s} ELSE {})] \in Flush
      BY <2>1
  <2> QED BY <2>2 DEF Relisted
<1> QED BY <1>2, <1>3, <1>4

-----------------------------------------------------------------------------
(* Types                                                                   *)

LEMMA UnsampledType ==
    ASSUME Types, NEW s \in Slots
    PROVE  LET o == heap_samples[s] IN
           /\ WithoutSample(o) \in [Objects -> Sample \union {NoSample}]
           /\ CountWithout(o) \in Int
           /\ \A dec, inc : Recount(dec, inc) \in [Refs -> Int]
           /\ [heap_samples EXCEPT ![s] = NoObject]
                  \in [Slots -> Objects \union {NoObject}]
BY DEF Types, WithoutSample, CountWithout, Recount

LEMMA MarkSampleValueAsFreedType ==
    ASSUME Types, NEW s \in Slots, MarkSampleValueAsFreed(s)
    PROVE  /\ heap_samples' \in [Slots -> Objects \union {NoObject}]
           /\ heap_samples_count' \in Int
           /\ samples' \in [Objects -> Sample \union {NoSample}]
           /\ mark_table' \in [Refs -> Int]
           /\ flush' \in [Threads -> Flush]
BY UnsampledType, ListedType DEF MarkSampleValueAsFreed

\* flush_each_sample keeps the types.
LEMMA ProcessType ==
    ASSUME Types, NEW t \in Threads, NEW key \in Slots, NEW o \in Objects,
           NEW rest \in SUBSET Slots, Process(t, key, o, rest)
    PROVE  /\ status' \in Status
           /\ heap_samples' \in [Slots -> Objects \union {NoObject}]
           /\ heap_samples_count' \in Int
           /\ samples' \in [Objects -> Sample \union {NoSample}]
           /\ mark_table' \in [Refs -> Int]
           /\ flush' \in [Threads -> Flush]
<1> USE DEF Types
<1>1. flush[t] \in Flush
    OBVIOUS
<1>2. \A T \in SUBSET Slots : Onward(t, T) \in Flush
    BY <1>1, FlushFields DEF Onward
<1>3. [Onward(t, rest) EXCEPT !.profile[o] = OneMore(@)] \in Flush
  <2> DEFINE f == Onward(t, rest)
  <2>1. f \in Flush
      BY <1>2
  <2> HIDE DEF f
  <2>2. OneMore(f.profile[o]) \in Tally
      BY <2>1, FlushFields, OneMoreType
  <2>3. [f EXCEPT !.profile[o] = OneMore(f.profile[o])] \in Flush
      BY <2>1, <2>2, FlushFields
  <2> QED BY <2>3 DEF f
<1>4. CASE TooNew(t, o)
  <2>1. /\ flush' = [flush EXCEPT ![t] = Onward(t, rest)]
        /\ UNCHANGED <<status, table_vars>>
      BY <1>4 DEF Process
  <2> QED BY <1>2, <2>1 DEF table_vars
<1>5. CASE ~TooNew(t, o) /\ Validish(samples[o].allocated_value_weak)
    BY <1>3, <1>5 DEF Process, table_vars
<1>6. CASE ~TooNew(t, o) /\ ~Validish(samples[o].allocated_value_weak)
  <2>1. [Unlisted(key) EXCEPT ![t] = Onward(t, rest \ {key})]
            \in [Threads -> Flush]
      BY <1>2, ListedType
  <2>2. WithoutSample(o) \in [Objects -> Sample \union {NoSample}]
      BY DEF WithoutSample
  <2> QED BY <1>6, <2>1, <2>2 DEF Process, table_vars, Status
<1> QED BY <1>4, <1>5, <1>6

\* TypeOK is not inductive: that a compaction rewrites a sample and not the
\* absence of one needs the keys to be sound, and that flushes are consistent
\* once the collector is initialised needs that they were before.
Contexts == \A t \in Threads : FlushContext(t)

Sound ==
    /\ Types
    /\ status \in {"allocated", "ready"} => Contexts
    /\ SoundKeys

\* Every action keeps the types.
LEMMA TypesStep == Sound /\ [Next]_vars => Types'
<1> SUFFICES ASSUME Sound, [Next]_vars PROVE Types'
    OBVIOUS
<1> USE DEF Status, PC
<1>t. Types
    BY DEF Sound
<1>1. CASE UNCHANGED vars
    BY <1>t, <1>1 DEF Types, vars, table_vars, config_vars
<1>2. ASSUME NEW max \in MaxHeapSamples,
             Initialize(max) \/ SetMaxHeapSamples(max)
      PROVE  Types'
    BY <1>t, <1>2 DEF Types, Initialize, SetMaxHeapSamples, table_vars
<1>3. CASE GcBeforeInitialize \/ Stop
    BY <1>t, <1>3 DEF Types, GcBeforeInitialize, Stop, table_vars, config_vars
<1>4. ASSUME NEW t \in Threads, NEW s \in Slots, NEW o \in Objects,
             \/ NewObjUntraced(t, s, o)
             \/ NewObjNotSampled(t, s, o)
             \/ NewObjDropped(t, s, o)
      PROVE  Types'
  <2>1. /\ heap' \in [Slots -> Objects \union {NoObject}]
        /\ status' = status
        /\ dropped_samples_heap_bufsize' \in Nat
        /\ UNCHANGED <<is_tracing, max_heap_samples, current_flush_epoch,
                       flush_thread, pc>>
        /\ MarkSampleValueAsFreed(s) \/ UNCHANGED <<table_vars, flush>>
      BY <1>t, <1>4 DEF Types, NewObjUntraced, NewObjNotSampled, NewObjDropped,
                  Allocates, PurgeRecycled
  <2> QED BY <1>t, <2>1, MarkSampleValueAsFreedType DEF Types, table_vars
<1>5. ASSUME NEW t \in Threads, NEW s \in Slots, NEW o \in Objects,
             NEW refs \in SUBSET Refs, NewObjSampled(t, s, o, refs)
      PROVE  Types'
  <2> DEFINE new == [allocated_value_weak |-> s,
                     flush_epoch |-> current_flush_epoch,
                     refs |-> refs]
  <2>1. new \in Sample
      BY <1>t DEF Types, Sample
  <2>2. samples' \in [Objects -> Sample \union {NoSample}]
      BY <1>t, <1>5, <2>1 DEF Types, NewObjSampled, Captured, WithoutSample
  <2>3. heap_samples_count' \in Int
      BY <1>t, <1>5 DEF Types, NewObjSampled, Captured, CountAfterPurge, CountWithout
  <2>4. mark_table' \in [Refs -> Int]
      BY <1>t, <1>5 DEF Types, NewObjSampled, Captured, Recount
  <2>5. flush' \in [Threads -> Flush]
      BY <1>t, <1>5, ListedType DEF NewObjSampled, Captured
  <2> QED BY <1>t, <1>5, <2>2, <2>3, <2>4, <2>5
          DEF Types, NewObjSampled, Captured, Allocates
<1>6. ASSUME NEW s \in Slots, FreeObj(s) PROVE Types'
  <2>1. MarkSampleValueAsFreed(s) \/ UNCHANGED <<table_vars, flush>>
      BY <1>6 DEF FreeObj, FreeObjHook
  <2> QED BY <1>t, <1>6, <2>1, MarkSampleValueAsFreedType
          DEF Types, FreeObj, table_vars, config_vars
<1>7. ASSUME NEW s \in Slots, ForceRecycleObj(s) PROVE Types'
    BY <1>t, <1>7 DEF Types, ForceRecycleObj, table_vars, config_vars
<1>8. ASSUME NEW from \in Slots, NEW to \in Slots, CompactObject(from, to)
      PROVE  Types'
  <2>1. /\ heap' \in [Slots -> Objects \union {NoObject}]
        /\ UNCHANGED <<status, is_tracing, heap_samples_count, mark_table,
                       config_vars, flush_thread, pc>>
        /\ CompactHeapSample(from, to)
      BY <1>t, <1>8 DEF Types, CompactObject
  <2>2. CASE heap_samples[from] = NoObject
      BY <1>t, <2>1, <2>2 DEF Types, CompactHeapSample, config_vars
  <2>3. CASE heap_samples[from] # NoObject
    <3>1. heap_samples' \in [Slots -> Objects \union {NoObject}]
        BY <1>t, <2>1, <2>3 DEF Types, CompactHeapSample, Rekeyed
    <3>2. samples' \in [Objects -> Sample \union {NoSample}]
      <4>1. heap_samples[from] \in Objects
          BY <1>t, <2>3 DEF Types
      <4>2. samples' = [samples EXCEPT ![heap_samples[from]].allocated_value_weak = to]
          BY <2>1, <2>3 DEF CompactHeapSample, Relocated
      <4>3. samples[heap_samples[from]] \in Sample
          BY <1>t, <2>3, <4>1 DEF Types, Sound, SoundKeys, Tracked
      <4>4. [samples[heap_samples[from]] EXCEPT !.allocated_value_weak = to]
                \in Sample
          BY <4>3 DEF Sample
      <4> QED BY <1>t, <4>1, <4>2, <4>4 DEF Types
    <3>3. flush' \in [Threads -> Flush]
        BY <1>t, <2>1, <2>3, ListedType DEF CompactHeapSample
    <3> QED BY <1>t, <2>1, <3>1, <3>2, <3>3 DEF Types, config_vars
  <2> QED BY <2>2, <2>3

<1>9. ASSUME NEW r \in Refs, NEW q \in Refs, CompactRef(r, q) PROVE Types'
  <2>1. ASSUME NEW o \in Objects, o \in TrackedObjects
        PROVE  [samples[o] EXCEPT !.refs = Renamed(@, r, q)] \in Sample
    <3>1. samples[o] \in Sample
        BY <1>t, <2>1 DEF Sound, SoundKeys, TrackedObjects, Tracked, Types
    <3> QED BY <3>1 DEF Sample, Renamed
  <2>2. samples' \in [Objects -> Sample \union {NoSample}]
      BY <1>t, <1>9, <2>1 DEF Types, CompactRef
  <2> QED BY <1>t, <1>9, <2>2 DEF Types, CompactRef, Carried, config_vars
<1>10. CASE Start
  <2>1. /\ heap_samples' \in [Slots -> Objects \union {NoObject}]
        /\ heap_samples_count' \in Int
        /\ samples' \in [Objects -> Sample \union {NoSample}]
        /\ pc' \in [Threads -> PC]
      BY <1>t, <1>10 DEF Types, Start
  <2>2. flush' \in [Threads -> Flush]
    <3>1. \A t \in Threads : [flush[t] EXCEPT !.todo = {}] \in Flush
        BY <1>t, FlushFields DEF Types
    <3> QED BY <1>t, <1>10, <3>1 DEF Types, Start
  <2> QED BY <1>t, <1>10, <2>1, <2>2 DEF Types, Start
<1>11. CASE GcFree
    BY <1>t, <1>11 DEF Types, GcFree, config_vars
<1>12. ASSUME NEW t \in Threads, FlushBegin(t) PROVE Types'
  <2> DEFINE new == [NoFlush EXCEPT !.epoch = FlushEpoch, !.todo = Tracked,
                                    !.before = TrackedObjects]
  <2>1. new \in Flush
    <3>1. /\ FlushEpoch \in Nat /\ Tracked \subseteq Slots
          /\ TrackedObjects \subseteq Objects
        BY <1>t DEF Types, FlushEpoch, Tracked, TrackedObjects
    <3> QED BY <3>1, NoFlushType, FlushFields
  <2>2. flush' \in [Threads -> Flush]
      BY <1>t, <1>12, <2>1 DEF Types, FlushBegin
  <2> QED BY <1>t, <1>12, <2>2 DEF Types, FlushBegin, table_vars
<1>13. ASSUME NEW t \in Threads, NEW s \in Slots, FlushVisit(t, s)
       PROVE  Types'
  <2>1. heap_samples[s] \in Objects
      BY <1>t, <1>13 DEF Types, FlushVisit, Sound, Contexts, FlushContext, Tracked
  <2>2. flush[t].todo \ {s} \in SUBSET Slots
      BY <1>t, FlushFields DEF Types
  <2>3. Process(t, s, heap_samples[s], flush[t].todo \ {s})
      BY <1>13 DEF FlushVisit
  <2> QED BY <1>t, <1>13, <2>1, <2>2, <2>3, ProcessType
          DEF Types, FlushVisit, config_vars
<1>14. ASSUME NEW t \in Threads, NEW s \in Slots, FlushYield(t, s)
       PROVE  Types'
  <2>1. flush[t].todo \ {s} \in SUBSET Slots /\ flush[t] \in Flush
      BY <1>t, FlushFields DEF Types
  <2>2. [flush[t] EXCEPT !.todo = @ \ {s}, !.key = s,
                         !.held = heap_samples[s]] \in Flush
      BY <1>t, <2>1, FlushFields DEF Types
  <2>3. flush' \in [Threads -> Flush]
      BY <1>t, <1>14, <2>2 DEF Types, FlushYield
  <2> QED BY <1>t, <1>14, <2>3 DEF Types, FlushYield, table_vars, config_vars
<1>15. ASSUME NEW t \in Threads, FlushResume(t) PROVE Types'
  <2>1. flush[t].held \in Objects /\ flush[t].key \in Slots
      BY <1>t, <1>15, FlushFields
      DEF Types, FlushResume, Sound, Contexts, FlushContext, Running
  <2>2. flush[t].todo \in SUBSET Slots
      BY <1>t, FlushFields DEF Types
  <2>3. Process(t, flush[t].key, flush[t].held, flush[t].todo)
      BY <1>15 DEF FlushResume
  <2> QED BY <1>t, <1>15, <2>1, <2>2, <2>3, ProcessType
          DEF Types, FlushResume, config_vars
<1>16. ASSUME NEW t \in Threads,
              FlushResumeFreed(t) \/ FlushResumeOrphaned(t)
       PROVE  Types'
  <2> DEFINE f == Onward(t, flush[t].todo)
  <2>1. f \in Flush
      BY <1>t, FlushFields DEF Types, Onward
  <2> HIDE DEF f
  <2>2. CASE flush' = flush \/ flush' = [flush EXCEPT ![t] = f]
      BY <1>t, <1>16, <2>1, <2>2
      DEF Types, FlushResumeFreed, FlushResumeOrphaned, table_vars,
          config_vars
  <2>3. CASE FlushResumeFreed(t) /\ flush' = [flush EXCEPT ![t] =
                [f EXCEPT !.profile[flush[t].held] = OneMore(@)]]
    <3> DEFINE o == flush[t].held
    <3>1. o \in Objects
        BY <1>t, <2>3, FlushFields
        DEF Types, FlushResumeFreed, Sound, Contexts, FlushContext, Running
    <3>2. OneMore(f.profile[o]) \in Tally
        BY <2>1, <3>1, FlushFields, OneMoreType
    <3>3. [f EXCEPT !.profile[o] = OneMore(f.profile[o])] \in Flush
        BY <2>1, <3>1, <3>2, FlushFields
    <3> QED BY <1>t, <2>3, <3>3
            DEF Types, FlushResumeFreed, table_vars, config_vars
  <2> QED BY <1>16, <2>2, <2>3 DEF FlushResumeFreed, FlushResumeOrphaned, f
<1>17. ASSUME NEW t \in Threads, FlushEndWalk(t) \/ FlushSerialized(t)
       PROVE  Types'
    BY <1>t, <1>17
    DEF Types, FlushEndWalk, FlushSerialized, table_vars, config_vars
<1>18. ASSUME NEW t \in Threads, FlushFinish(t) \/ FlushFail(t)
       PROVE  Types'
    BY <1>t, <1>18, NoFlushType
    DEF Types, FlushFinish, FlushFail, FlushReturn, FlushThreadAfter,
        Destroyed, table_vars, config_vars
<1>19. CASE Terminated
    BY <1>1, <1>19 DEF Terminated
<1> QED
    BY <1>1, <1>2, <1>3, <1>4, <1>5, <1>6, <1>7, <1>8, <1>9, <1>10, <1>11,
       <1>12, <1>13, <1>14, <1>15, <1>16, <1>17, <1>18, <1>19
    DEF Next, FlusherStep

-----------------------------------------------------------------------------
(* The flushes in progress                                                 *)

\* What a change of the keys to visit leaves of a flush.
OnlyTodo(f, g) ==
    /\ g.held = f.held /\ g.key = f.key
    /\ g.epoch = f.epoch /\ g.before = f.before /\ g.profile = f.profile

LEMMA TodoOnly ==
    ASSUME NEW f \in Flush, NEW T
    PROVE  /\ OnlyTodo(f, [f EXCEPT !.todo = T])
           /\ [f EXCEPT !.todo = T].todo = T
           /\ T = f.todo => [f EXCEPT !.todo = T] = f
BY DEF Flush, OnlyTodo

\* How inserting, deleting and moving a key change the flushes in progress.
LEMMA ListedFacts ==
    ASSUME Types, NEW s \in Slots, NEW t \in Threads
    PROVE  /\ OnlyTodo(flush[t], Listed(s)[t])
           /\ pc[t] = "idle" => Listed(s)[t] = flush[t]
           /\ Listed(s)[t].todo \subseteq flush[t].todo \union {s}
<1>1. flush[t] \in Flush
    BY DEF Types
<1>2. CASE Walking(t)
    BY <1>1, <1>2, TodoOnly DEF Listed, Walking
<1>3. CASE ~Walking(t)
    BY <1>1, <1>3 DEF Listed, OnlyTodo
<1> QED BY <1>2, <1>3

LEMMA UnlistedFacts ==
    ASSUME Types, NEW s \in Slots, NEW t \in Threads
    PROVE  /\ OnlyTodo(flush[t], Unlisted(s)[t])
           /\ flush[t].todo = {} => Unlisted(s)[t] = flush[t]
           /\ Unlisted(s)[t].todo = flush[t].todo \ {s}
<1>1. flush[t] \in Flush
    BY DEF Types
<1>2. Unlisted(s)[t] = [flush[t] EXCEPT !.todo = flush[t].todo \ {s}]
    BY DEF Unlisted
<1> QED BY <1>1, <1>2, TodoOnly

LEMMA RelistedFacts ==
    ASSUME Types, NEW from \in Slots, NEW to \in Slots, NEW t \in Threads
    PROVE  /\ OnlyTodo(flush[t], Relisted(from, to)[t])
           /\ flush[t].todo = {} /\ ~Walking(t) =>
                 Relisted(from, to)[t] = flush[t]
           /\ Relisted(from, to)[t].todo
                 \subseteq (flush[t].todo \ {from}) \union {to}
<1>1. flush[t] \in Flush
    BY DEF Types
<1> DEFINE T == (flush[t].todo \ {from}) \union
                (IF Walking(t) /\ heap_samples[to] = NoObject
                 THEN {to} ELSE {})
<1>2. Relisted(from, to)[t] = [flush[t] EXCEPT !.todo = T]
    BY DEF Relisted
<1>3. T \subseteq (flush[t].todo \ {from}) \union {to}
    OBVIOUS
<1>4. flush[t].todo = {} /\ ~Walking(t) => T = flush[t].todo
    OBVIOUS
<1> HIDE DEF T
<1> QED BY <1>1, <1>2, <1>3, <1>4, TodoOnly

\* A step that only changes the keys a thread has to visit keeps its context,
\* when all of them have entries.
LEMMA ContextKept ==
    ASSUME NEW t \in Threads, FlushContext(t),
           pc'[t] = pc[t], OnlyTodo(flush[t], flush'[t]),
           pc[t] = "idle" /\ flush[t].todo = {} => flush'[t] = flush[t],
           flush'[t].todo \subseteq Tracked'
    PROVE  FlushContext(t)'
BY DEF FlushContext, OnlyTodo, NoFlush

LEMMA FreedContext ==
    ASSUME Types, Contexts, NEW s \in Slots, UNCHANGED pc,
           MarkSampleValueAsFreed(s)
    PROVE  Contexts'
<1> SUFFICES ASSUME NEW t \in Threads PROVE FlushContext(t)'
    BY DEF Contexts
<1>1. flush'[t] = Unlisted(s)[t]
    BY DEF MarkSampleValueAsFreed
<1>2. Tracked' = Tracked \ {s}
    BY DEF MarkSampleValueAsFreed, Tracked, Types
<1>3. FlushContext(t)
    BY DEF Contexts
<1> QED BY <1>1, <1>2, <1>3, UnlistedFacts, ContextKept DEF FlushContext

LEMMA OnwardFacts ==
    ASSUME Types, NEW t \in Threads, NEW rest
    PROVE  LET f == Onward(t, rest) IN
           /\ f.todo = rest /\ f.key = NoSlot /\ f.held = NoObject
           /\ f.epoch = flush[t].epoch /\ f.before = flush[t].before
           /\ f.profile = flush[t].profile
           /\ \A o, n : LET g == [f EXCEPT !.profile[o] = n] IN
                 /\ g.todo = rest /\ g.key = NoSlot /\ g.held = NoObject
                 /\ g.epoch = f.epoch /\ g.before = f.before
                 /\ g.profile = [f.profile EXCEPT ![o] = n]
BY DEF Types, Flush, Onward

\* What flush_each_sample does to the table, and to the flushes: thread t lets
\* go of the entry, the others at most of the deleted key.
LEMMA ProcessFacts ==
    ASSUME Types, NEW t \in Threads, NEW key \in Slots,
           NEW o \in Objects, NEW rest \in SUBSET Tracked,
           Process(t, key, o, rest), status' = "ready"
    PROVE  /\ \/ UNCHANGED table_vars
              \/ /\ heap_samples' = [heap_samples EXCEPT ![key] = NoObject]
                 /\ heap_samples_count' = heap_samples_count - 1
                 /\ samples' = WithoutSample(o)
                 /\ \A k \in Slots : heap_samples[k] = o => k = key
                 /\ ~Validish(samples[o].allocated_value_weak)
                 /\ UNCHANGED mark_table
           /\ \A u \in Threads \ {t} :
                 \/ flush'[u] = flush[u] /\ UNCHANGED heap_samples
                 \/ /\ flush'[u] = Unlisted(key)[u]
                    /\ heap_samples' = [heap_samples EXCEPT ![key] = NoObject]
           /\ flush'[t].todo \subseteq Tracked'
           /\ flush'[t].key = NoSlot /\ flush'[t].held = NoObject
           /\ flush'[t].epoch = flush[t].epoch
           /\ flush'[t].before = flush[t].before
           /\ \/ flush'[t].profile = flush[t].profile
              \/ /\ flush'[t].profile =
                       [flush[t].profile EXCEPT ![o] = OneMore(@)]
                 /\ ~TooNew(t, o)
                 /\ Validish(samples[o].allocated_value_weak)
                 /\ UNCHANGED table_vars
<1> USE DEF Types
<1>1. CASE TooNew(t, o)
  <2>1. flush' = [flush EXCEPT ![t] = Onward(t, rest)] /\ UNCHANGED table_vars
      BY <1>1 DEF Process
  <2> QED BY <2>1, OnwardFacts DEF Tracked, table_vars
<1>2. CASE ~TooNew(t, o) /\ Validish(samples[o].allocated_value_weak)
  <2>1. /\ flush' = [flush EXCEPT ![t] =
                       [Onward(t, rest) EXCEPT !.profile[o] = OneMore(@)]]
        /\ UNCHANGED table_vars
      BY <1>2 DEF Process
  <2>2. \A u \in Threads \ {t} : flush'[u] = flush[u]
      BY <2>1
  <2>3. flush'[t] = [Onward(t, rest) EXCEPT
                       !.profile[o] = OneMore(Onward(t, rest).profile[o])]
      BY <2>1
  <2> QED BY <1>2, <2>1, <2>2, <2>3, OnwardFacts DEF Tracked, table_vars
<1>3. CASE ~TooNew(t, o) /\ ~Validish(samples[o].allocated_value_weak)
  <2>1. /\ heap_samples' = [heap_samples EXCEPT ![key] = NoObject]
        /\ heap_samples_count' = heap_samples_count - 1
        /\ samples' = WithoutSample(o)
        /\ flush' = [Unlisted(key) EXCEPT ![t] = Onward(t, rest \ {key})]
        /\ ~\E k \in Slots \ {key} : heap_samples[k] = o
        /\ UNCHANGED mark_table
      BY <1>3 DEF Process
  <2>2. /\ flush'[t] = Onward(t, rest \ {key})
        /\ \A u \in Threads \ {t} : flush'[u] = Unlisted(key)[u]
      BY <2>1, ListedType
  <2>3. Tracked' = Tracked \ {key}
      BY <2>1 DEF Tracked
  <2> QED BY <1>3, <2>1, <2>2, <2>3, OnwardFacts
<1> QED BY <1>1, <1>2, <1>3

LEMMA ProcessContext ==
    ASSUME Types, Contexts, NEW t \in Threads, NEW key \in Slots,
           NEW o \in Objects, NEW rest \in SUBSET Tracked,
           Process(t, key, o, rest), status' = "ready",
           pc' = [pc EXCEPT ![t] = "walk"]
    PROVE  Contexts'
<1> SUFFICES ASSUME NEW u \in Threads PROVE FlushContext(u)'
    BY DEF Contexts
<1>1. CASE u = t
  <2>1. pc'[t] = "walk"
      BY DEF Types
  <2> QED BY <1>1, <2>1, ProcessFacts DEF FlushContext
<1>2. CASE u # t
  <2>1. pc'[u] = pc[u] /\ FlushContext(u)
      BY <1>2 DEF Types, Contexts
  <2>2. CASE flush'[u] = flush[u] /\ UNCHANGED heap_samples
      BY <2>1, <2>2 DEF FlushContext, Tracked
  <2>3. CASE /\ flush'[u] = Unlisted(key)[u]
             /\ heap_samples' = [heap_samples EXCEPT ![key] = NoObject]
    <3>1. Tracked' = Tracked \ {key}
        BY <2>3 DEF Tracked, Types
    <3>2. /\ OnlyTodo(flush[u], flush'[u])
          /\ pc[u] = "idle" /\ flush[u].todo = {} => flush'[u] = flush[u]
          /\ flush'[u].todo = flush[u].todo \ {key}
        BY <2>3, UnlistedFacts
    <3>3. flush'[u].todo \subseteq Tracked'
        BY <2>1, <3>1, <3>2 DEF FlushContext
    <3> HIDE DEF Types
    <3> QED BY <2>1, <3>2, <3>3 DEF FlushContext, OnlyTodo, NoFlush
  <2>4. \/ flush'[u] = flush[u] /\ UNCHANGED heap_samples
        \/ /\ flush'[u] = Unlisted(key)[u]
           /\ heap_samples' = [heap_samples EXCEPT ![key] = NoObject]
      BY <1>2, ProcessFacts
  <2> QED BY <2>2, <2>3, <2>4
<1> QED BY <1>1, <1>2

\* Every action keeps the contexts of the flushes.
LEMMA ContextStep ==
    Sound /\ [Next]_vars => (status' \in {"allocated", "ready"} => Contexts')
<1> SUFFICES ASSUME Sound, [Next]_vars, status' \in {"allocated", "ready"}
             PROVE  Contexts'
    OBVIOUS
<1>t. Types
    BY DEF Sound
<1>1. ASSUME UNCHANGED <<status, heap_samples, pc, flush>> PROVE Contexts'
    BY <1>1 DEF Sound, Contexts, FlushContext, Tracked
<1>2. ASSUME NEW max \in MaxHeapSamples,
             Initialize(max) \/ SetMaxHeapSamples(max)
      PROVE  Contexts'
    BY <1>2 DEF Initialize, SetMaxHeapSamples, Running, Sound, Contexts,
                FlushContext, Tracked, table_vars
<1>3. ASSUME NEW s \in Slots, status = "ready", UNCHANGED pc,
             MarkSampleValueAsFreed(s) \/ UNCHANGED <<table_vars, flush>>
      PROVE  Contexts'
  <2>1. Contexts
      BY <1>3 DEF Sound
  <2>2. CASE UNCHANGED <<table_vars, flush>>
      BY <1>3, <2>1, <2>2 DEF Contexts, FlushContext, Tracked, table_vars
  <2> QED BY <1>t, <1>3, <2>1, <2>2, FreedContext
<1>4. ASSUME NEW t \in Threads, NEW s \in Slots, NEW o \in Objects,
             \/ NewObjUntraced(t, s, o)
             \/ NewObjNotSampled(t, s, o)
             \/ NewObjDropped(t, s, o)
      PROVE  Contexts'
    BY <1>3, <1>4 DEF NewObjUntraced, NewObjNotSampled, NewObjDropped,
                      Allocates, PurgeRecycled, Running
<1>5. ASSUME NEW t \in Threads, NEW s \in Slots, NEW o \in Objects,
             NEW refs \in SUBSET Refs, NewObjSampled(t, s, o, refs)
      PROVE  Contexts'
  <2>1. Contexts /\ UNCHANGED pc /\ flush' = Listed(s)
      BY <1>5 DEF NewObjSampled, Captured, Allocates, Running, Sound
  <2>2. Tracked' = Tracked \union {s}
      BY <1>t, <1>5 DEF NewObjSampled, Captured, Tracked, Types
  <2> SUFFICES ASSUME NEW u \in Threads PROVE FlushContext(u)'
      BY DEF Contexts
  <2>3. FlushContext(u)
      BY <2>1 DEF Contexts
  <2>4. /\ pc'[u] = pc[u] /\ OnlyTodo(flush[u], flush'[u])
        /\ pc[u] = "idle" => flush'[u] = flush[u]
        /\ flush'[u].todo \subseteq flush[u].todo \union {s}
      BY <1>t, <2>1, ListedFacts
  <2> QED BY <2>2, <2>3, <2>4 DEF FlushContext, OnlyTodo
<1>6. ASSUME NEW s \in Slots, FreeObj(s) PROVE Contexts'
    BY <1>3, <1>6 DEF FreeObj, FreeObjHook, Running
<1>7. ASSUME NEW s \in Slots, ForceRecycleObj(s) PROVE Contexts'
    BY <1>1, <1>7 DEF ForceRecycleObj, table_vars
<1>8. ASSUME NEW from \in Slots, NEW to \in Slots, CompactObject(from, to)
      PROVE  Contexts'
  <2>1. CASE heap_samples[from] = NoObject
      BY <1>1, <1>8, <2>1 DEF CompactObject, CompactHeapSample
  <2>2. CASE heap_samples[from] # NoObject
    <3>1. /\ Contexts /\ UNCHANGED pc
          /\ flush' = Relisted(from, to)
          /\ heap_samples' = Rekeyed(from, to)
        BY <1>8, <2>2
        DEF CompactObject, CompactHeapSample, Running, Sound
    <3>2. Tracked' = (Tracked \ {from}) \union {to}
        BY <1>t, <1>8, <2>2, <3>1 DEF CompactObject, Rekeyed, Tracked, Types
    <3> SUFFICES ASSUME NEW u \in Threads PROVE FlushContext(u)'
        BY DEF Contexts
    <3>3. FlushContext(u) /\ pc'[u] = pc[u]
        BY <3>1 DEF Contexts
    <3>4. /\ OnlyTodo(flush[u], flush'[u])
          /\ flush[u].todo = {} /\ ~Walking(u) => flush'[u] = flush[u]
          /\ flush'[u].todo \subseteq (flush[u].todo \ {from}) \union {to}
        BY <1>t, <3>1, RelistedFacts
    <3>5. pc[u] = "idle" => flush'[u] = flush[u]
        BY <3>3, <3>4 DEF FlushContext, Walking, NoFlush
    <3> QED BY <3>2, <3>3, <3>4, <3>5 DEF FlushContext, OnlyTodo
  <2> QED BY <2>1, <2>2
<1>9. ASSUME NEW r \in Refs, NEW q \in Refs, CompactRef(r, q)
      PROVE  Contexts'
    BY <1>1, <1>9 DEF CompactRef
<1>10. CASE Start
  <2>1. Contexts
      BY <1>10 DEF Start, Running, Sound
  <2>2. CASE ~MustClear
      BY <1>1, <1>10, <2>2 DEF Start
  <2>3. CASE MustClear
    <3> SUFFICES ASSUME NEW u \in Threads PROVE FlushContext(u)'
        BY DEF Contexts
    <3>1. FlushContext(u) /\ flush[u] \in Flush
        BY <1>t, <2>1 DEF Contexts, Types
    <3>2. /\ pc'[u] = IF pc[u] = "yielded" THEN "orphaned" ELSE pc[u]
          /\ flush'[u] = [flush[u] EXCEPT !.todo = {}]
        BY <1>t, <1>10, <2>3 DEF Start, Types
    <3>3. /\ OnlyTodo(flush[u], flush'[u]) /\ flush'[u].todo = {}
          /\ flush[u].todo = {} => flush'[u] = flush[u]
      <4>1. /\ OnlyTodo(flush[u], [flush[u] EXCEPT !.todo = {}])
            /\ [flush[u] EXCEPT !.todo = {}].todo = {}
            /\ {} = flush[u].todo => [flush[u] EXCEPT !.todo = {}] = flush[u]
          BY <3>1, TodoOnly
      <4> QED BY <3>2, <4>1
    <3>4. pc[u] # "walk"
        BY <1>10 DEF Start, Running, GvlFree
    <3> QED BY <3>1, <3>2, <3>3, <3>4 DEF FlushContext, OnlyTodo, NoFlush
  <2> QED BY <2>2, <2>3
<1>11. CASE Stop
    BY <1>1, <1>11 DEF Stop, table_vars
<1>12. ASSUME NEW t \in Threads, FlushBegin(t) PROVE Contexts'
  <2> DEFINE new == [NoFlush EXCEPT !.epoch = FlushEpoch, !.todo = Tracked,
                                    !.before = TrackedObjects]
  <2>1. new.todo = Tracked /\ new.held = NoObject /\ new.key = NoSlot
      BY DEF NoFlush
  <2>2. /\ Contexts /\ Tracked' = Tracked
        /\ pc' = [pc EXCEPT ![t] = "walk"]
        /\ flush' = [flush EXCEPT ![t] = new]
      BY <1>12 DEF FlushBegin, Running, Sound, Tracked, table_vars
  <2> HIDE DEF new
  <2> QED BY <1>t, <2>1, <2>2 DEF Contexts, FlushContext, Types
<1>13. ASSUME NEW t \in Threads, NEW s \in Slots, FlushVisit(t, s)
       PROVE  Contexts'
  <2>1. /\ Contexts /\ Process(t, s, heap_samples[s], flush[t].todo \ {s})
        /\ s \in flush[t].todo
        /\ pc' = [pc EXCEPT ![t] = "walk"]
      BY <1>t, <1>13 DEF FlushVisit, Sound, Types
  <2>2. flush[t].todo \subseteq Tracked
      BY <2>1 DEF Contexts, FlushContext
  <2>3. heap_samples[s] \in Objects /\ flush[t].todo \ {s} \subseteq Tracked
      BY <1>t, <2>1, <2>2 DEF Types, Tracked
  <2>4. CASE status' = "ready"
      BY <1>t, <2>1, <2>3, <2>4, ProcessContext
  <2>5. status' # "allocated"
      BY <1>13 DEF FlushVisit, Process
  <2> QED BY <2>4, <2>5
<1>14. ASSUME NEW t \in Threads, NEW s \in Slots, FlushYield(t, s)
       PROVE  Contexts'
  <2> DEFINE f == [flush[t] EXCEPT !.todo = @ \ {s}, !.key = s,
                                   !.held = heap_samples[s]]
  <2>1. /\ Contexts /\ Tracked' = Tracked
        /\ pc' = [pc EXCEPT ![t] = "yielded"]
        /\ flush' = [flush EXCEPT ![t] = f]
        /\ s \in flush[t].todo
      BY <1>14 DEF FlushYield, Sound, Tracked, table_vars
  <2>2. flush[t].todo \subseteq Tracked
      BY <2>1 DEF Contexts, FlushContext
  <2>3. /\ f.todo = flush[t].todo \ {s} /\ f.key = s
        /\ f.held = heap_samples[s]
      BY <1>t DEF Types, Flush
  <2>4. heap_samples[s] # NoObject
      BY <2>1, <2>2 DEF Tracked
  <2> HIDE DEF f
  <2> QED BY <1>t, <2>1, <2>2, <2>3, <2>4 DEF Contexts, FlushContext, Types
<1>15. ASSUME NEW t \in Threads, FlushResume(t) PROVE Contexts'
  <2>1. /\ Contexts
        /\ Process(t, flush[t].key, flush[t].held, flush[t].todo)
        /\ pc[t] = "yielded" /\ pc' = [pc EXCEPT ![t] = "walk"]
      BY <1>15 DEF FlushResume, Running, Sound
  <2>2. /\ flush[t].held \in Objects /\ flush[t].key \in Slots
        /\ flush[t].todo \subseteq Tracked
      BY <1>t, <2>1, FlushFields DEF Types, Contexts, FlushContext
  <2>3. CASE status' = "ready"
      BY <1>t, <2>1, <2>2, <2>3, ProcessContext
  <2>4. status' # "allocated"
      BY <1>15 DEF FlushResume, Running, Process
  <2> QED BY <2>3, <2>4
<1>16. ASSUME NEW t \in Threads, FlushResumeFreed(t) \/ FlushResumeOrphaned(t)
       PROVE  Contexts'
  <2> DEFINE f == Onward(t, flush[t].todo)
  <2>1. /\ Contexts /\ status' = "ready" /\ Tracked' = Tracked
        /\ \E p \in {"walk", "serialize"} : pc' = [pc EXCEPT ![t] = p]
      BY <1>16 DEF FlushResumeFreed, FlushResumeOrphaned, Running, Sound,
                   Tracked, table_vars
  <2>2. flush[t].todo \subseteq Tracked
      BY <2>1 DEF Contexts, FlushContext
  <2>3. \E g : /\ g.todo = flush[t].todo /\ g.key = NoSlot
               /\ g.held = NoObject /\ flush' = [flush EXCEPT ![t] = g]
    <3>1. f.todo = flush[t].todo /\ f.key = NoSlot /\ f.held = NoObject
        BY <1>t, OnwardFacts
    <3>2. \A o, n : /\ [f EXCEPT !.profile[o] = n].todo = flush[t].todo
                    /\ [f EXCEPT !.profile[o] = n].key = NoSlot
                    /\ [f EXCEPT !.profile[o] = n].held = NoObject
        BY <1>t, OnwardFacts
    <3> HIDE DEF f
    <3>3. \/ flush' = [flush EXCEPT ![t] = f]
          \/ flush' = [flush EXCEPT ![t] =
                  [f EXCEPT !.profile[flush[t].held] =
                      OneMore(f.profile[flush[t].held])]]
        BY <1>16, <2>1 DEF FlushResumeFreed, FlushResumeOrphaned, Running, f
    <3> QED BY <3>1, <3>2, <3>3
  <2> QED BY <1>t, <2>1, <2>2, <2>3 DEF Contexts, FlushContext, Types
<1>17. ASSUME NEW t \in Threads, FlushEndWalk(t) \/ FlushSerialized(t)
       PROVE  Contexts'
    BY <1>t, <1>17
    DEF FlushEndWalk, FlushSerialized, table_vars, Running, Sound, Contexts,
        FlushContext, Tracked, Types
<1>18. ASSUME NEW t \in Threads, FlushFinish(t) \/ FlushFail(t)
       PROVE  Contexts'
  <2>1. /\ Contexts /\ Tracked' = Tracked
        /\ pc' = [pc EXCEPT ![t] = "idle"]
        /\ flush' = [flush EXCEPT ![t] = NoFlush]
      BY <1>18 DEF FlushFinish, FlushFail, FlushReturn, Destroyed, Running,
                   Sound, Tracked, table_vars
  <2>2. NoFlush.todo = {} /\ NoFlush.held = NoObject /\ NoFlush.key = NoSlot
      BY DEF NoFlush
  <2> QED BY <1>t, <2>1, <2>2 DEF Contexts, FlushContext, Types
<1>19. CASE GcBeforeInitialize \/ GcFree
    BY <1>19 DEF GcBeforeInitialize, GcFree
<1>20. CASE Terminated \/ UNCHANGED vars
    BY <1>1, <1>20 DEF Terminated, vars, table_vars
<1> QED
    BY <1>2, <1>4, <1>5, <1>6, <1>7, <1>8, <1>9, <1>10, <1>11, <1>12, <1>13,
       <1>14, <1>15, <1>16, <1>17, <1>18, <1>19, <1>20
    DEF Next, FlusherStep

-----------------------------------------------------------------------------
(* The keys                                                                *)

\* What SoundKeys says of one key.
SoundKey(s) ==
    /\ samples[heap_samples[s]] # NoSample
    /\ samples[heap_samples[s]].allocated_value_weak = s

\* Two keys never lead to one sample, as it knows its key.
LEMMA KeysInjective ==
    ASSUME SoundKeys, NEW s \in Tracked, NEW k \in Tracked,
           heap_samples[s] = heap_samples[k]
    PROVE  s = k
BY DEF SoundKeys

LEMMA FreedKeys ==
    ASSUME Types, SoundKeys, NEW s \in Slots, MarkSampleValueAsFreed(s)
    PROVE  SoundKeys'
<1> SUFFICES ASSUME NEW k \in Tracked' PROVE SoundKey(k)'
    BY DEF SoundKeys, SoundKey
<1>1. k # s /\ k \in Tracked /\ heap_samples'[k] = heap_samples[k]
    BY DEF MarkSampleValueAsFreed, Tracked, Types
<1>2. heap_samples[k] # heap_samples[s] /\ heap_samples[k] \in Objects
    BY <1>1, KeysInjective DEF Tracked, Types
<1>3. samples'[heap_samples[k]] = samples[heap_samples[k]]
    BY <1>2 DEF MarkSampleValueAsFreed, WithoutSample
<1> QED BY <1>1, <1>3 DEF SoundKeys, SoundKey

LEMMA ProcessKeys ==
    ASSUME Types, SoundKeys, NEW t \in Threads, NEW key \in Slots,
           NEW o \in Objects, NEW rest \in SUBSET Tracked,
           Process(t, key, o, rest)
    PROVE  SoundKeys'
<1>1. CASE UNCHANGED table_vars
    BY <1>1 DEF SoundKeys, Tracked, table_vars
<1>2. CASE /\ heap_samples' = [heap_samples EXCEPT ![key] = NoObject]
           /\ samples' = WithoutSample(o)
           /\ ~\E k \in Slots \ {key} : heap_samples[k] = o
  <2> SUFFICES ASSUME NEW k \in Tracked' PROVE SoundKey(k)'
      BY DEF SoundKeys, SoundKey
  <2>1. k # key /\ k \in Tracked /\ heap_samples'[k] = heap_samples[k]
      BY <1>2 DEF Tracked, Types
  <2>2. heap_samples[k] # o /\ heap_samples[k] \in Objects
      BY <1>2, <2>1 DEF Tracked, Types
  <2>3. samples'[heap_samples[k]] = samples[heap_samples[k]]
      BY <1>2, <2>2 DEF WithoutSample
  <2> QED BY <2>1, <2>3 DEF SoundKeys, SoundKey
<1> QED BY <1>1, <1>2 DEF Process

\* Every action keeps the keys sound.
LEMMA KeysStep == Sound /\ [Next]_vars => SoundKeys'
<1> SUFFICES ASSUME Sound, [Next]_vars PROVE SoundKeys'
    OBVIOUS
<1>t. Types /\ SoundKeys
    BY DEF Sound
<1>1. ASSUME UNCHANGED <<heap_samples, samples>> PROVE SoundKeys'
    BY <1>t, <1>1 DEF SoundKeys, Tracked
<1>2. ASSUME NEW s \in Slots,
             MarkSampleValueAsFreed(s) \/ UNCHANGED <<table_vars, flush>>
      PROVE  SoundKeys'
    BY <1>t, <1>1, <1>2, FreedKeys DEF table_vars
<1>3. ASSUME NEW t \in Threads, NEW s \in Slots, NEW o \in Objects,
             \/ NewObjUntraced(t, s, o)
             \/ NewObjNotSampled(t, s, o)
             \/ NewObjDropped(t, s, o)
      PROVE  SoundKeys'
    BY <1>2, <1>3 DEF NewObjUntraced, NewObjNotSampled, NewObjDropped,
                      PurgeRecycled
<1>4. ASSUME NEW t \in Threads, NEW s \in Slots, NEW o \in Objects,
             NEW refs \in SUBSET Refs, NewObjSampled(t, s, o, refs)
      PROVE  SoundKeys'
  <2> DEFINE new == [allocated_value_weak |-> s,
                     flush_epoch |-> current_flush_epoch,
                     refs |-> refs]
  <2>1. /\ heap_samples' = [heap_samples EXCEPT ![s] = o]
        /\ samples' = [WithoutSample(Purged(s)) EXCEPT ![o] = new]
        /\ samples[o] = NoSample
      BY <1>4 DEF NewObjSampled, Captured, Allocates, Fresh
  <2>2. new \in Sample /\ new.allocated_value_weak = s
      BY <1>t DEF Types, Sample
  <2> HIDE DEF new
  <2> SUFFICES ASSUME NEW k \in Tracked' PROVE SoundKey(k)'
      BY DEF SoundKeys, SoundKey
  <2>3. CASE k = s
    <3>1. heap_samples'[s] = o
        BY <1>t, <2>1 DEF Types
    <3>2. samples'[o] = new
        BY <2>1 DEF WithoutSample
    <3> QED BY <2>2, <2>3, <3>1, <3>2 DEF SoundKey
  <2>4. CASE k # s
    <3>1. /\ k \in Tracked /\ heap_samples'[k] = heap_samples[k]
          /\ heap_samples[k] \in Objects
        BY <1>t, <2>1, <2>4 DEF Tracked, Types
    <3>2. heap_samples[k] # o
        BY <1>t, <2>1, <3>1 DEF SoundKeys
    <3>3. heap_samples[k] # Purged(s)
        BY <1>t, <2>4, <3>1, KeysInjective DEF Purged, Tracked
    <3>4. samples'[heap_samples[k]] = samples[heap_samples[k]]
        BY <2>1, <3>1, <3>2, <3>3 DEF WithoutSample
    <3> QED BY <1>t, <3>1, <3>4 DEF SoundKeys, SoundKey
  <2> QED BY <2>3, <2>4
<1>5. ASSUME NEW s \in Slots, FreeObj(s) PROVE SoundKeys'
    BY <1>2, <1>5 DEF FreeObj, FreeObjHook
<1>6. ASSUME NEW from \in Slots, NEW to \in Slots, CompactObject(from, to)
      PROVE  SoundKeys'
  <2>1. CASE heap_samples[from] = NoObject
      BY <1>1, <1>6, <2>1 DEF CompactObject, CompactHeapSample
  <2>2. CASE heap_samples[from] # NoObject
    <3> DEFINE o == heap_samples[from]
    <3>1. /\ heap_samples' = Rekeyed(from, to)
          /\ samples' = [samples EXCEPT ![o].allocated_value_weak = to]
          /\ from \in Tracked /\ o \in Objects /\ from # to
        BY <1>t, <1>6, <2>2
        DEF CompactObject, CompactHeapSample, Relocated, Tracked, Types
    <3>2. samples[o] \in Sample
        BY <1>t, <3>1 DEF Types, SoundKeys
    <3>3. [samples[o] EXCEPT !.allocated_value_weak = to] \in Sample
        BY <3>2 DEF Sample
    <3> SUFFICES ASSUME NEW k \in Tracked' PROVE SoundKey(k)'
        BY DEF SoundKeys, SoundKey
    <3>4. CASE k = to
      <4>1. heap_samples'[to] = o
          BY <1>t, <3>1 DEF Rekeyed, Types
      <4>2. samples'[o] = [samples[o] EXCEPT !.allocated_value_weak = to]
          BY <1>t, <3>1 DEF Types
      <4>3. samples'[o].allocated_value_weak = to
          BY <3>2, <4>2 DEF Sample
      <4> QED BY <3>3, <3>4, <4>1, <4>2, <4>3 DEF SoundKey
    <3>5. CASE k # to
      <4>1. /\ k # from /\ k \in Tracked
            /\ heap_samples'[k] = heap_samples[k]
          BY <1>t, <3>1, <3>5 DEF Rekeyed, Tracked, Types
      <4>2. heap_samples[k] # o
          BY <1>t, <3>1, <4>1, KeysInjective
      <4>3. samples'[heap_samples[k]] = samples[heap_samples[k]]
          BY <1>t, <3>1, <4>1, <4>2 DEF Tracked, Types
      <4> QED BY <1>t, <4>1, <4>3 DEF SoundKeys, SoundKey
    <3> QED BY <3>4, <3>5
  <2> QED BY <2>1, <2>2
<1>7. ASSUME NEW r \in Refs, NEW q \in Refs, CompactRef(r, q)
      PROVE  SoundKeys'
  <2> SUFFICES ASSUME NEW k \in Tracked' PROVE SoundKey(k)'
      BY DEF SoundKeys, SoundKey
  <2> DEFINE o == heap_samples[k]
  <2>1. k \in Tracked /\ heap_samples'[k] = o /\ o \in TrackedObjects
        /\ o \in Objects
      BY <1>t, <1>7 DEF CompactRef, Tracked, TrackedObjects, Types
  <2>2. samples[o] \in Sample /\ samples[o].allocated_value_weak = k
      BY <1>t, <2>1 DEF Types, SoundKeys
  <2>3. samples'[o] = [samples[o] EXCEPT !.refs = Renamed(@, r, q)]
      BY <1>7, <2>1 DEF CompactRef
  <2>4. /\ samples'[o] \in Sample
        /\ samples'[o].allocated_value_weak = samples[o].allocated_value_weak
      BY <2>2, <2>3 DEF Sample, Renamed
  <2> QED BY <2>1, <2>2, <2>4 DEF SoundKey
<1>8. CASE Start
  <2>1. CASE MustClear
      BY <1>t, <1>8, <2>1 DEF Start, SoundKeys, Tracked
  <2> QED BY <1>1, <1>8, <2>1 DEF Start
<1>9. CASE GcFree
    BY <1>9 DEF GcFree, SoundKeys, Tracked
<1>10. ASSUME NEW t \in Threads, NEW s \in Slots, FlushVisit(t, s)
       PROVE  SoundKeys'
  <2>1. flush[t].todo \subseteq Tracked /\ s \in flush[t].todo
      BY <1>10 DEF FlushVisit, Sound, Contexts, FlushContext
  <2>2. heap_samples[s] \in Objects /\ flush[t].todo \ {s} \subseteq Tracked
      BY <1>t, <2>1 DEF Types, Tracked
  <2>3. Process(t, s, heap_samples[s], flush[t].todo \ {s})
      BY <1>10 DEF FlushVisit
  <2> QED BY <1>t, <2>2, <2>3, ProcessKeys
<1>11. ASSUME NEW t \in Threads, FlushResume(t) PROVE SoundKeys'
  <2>1. /\ Contexts /\ pc[t] = "yielded"
        /\ Process(t, flush[t].key, flush[t].held, flush[t].todo)
      BY <1>11 DEF FlushResume, Running, Sound
  <2>2. /\ flush[t].held \in Objects /\ flush[t].key \in Slots
        /\ flush[t].todo \subseteq Tracked
      BY <1>t, <2>1, FlushFields DEF Types, Contexts, FlushContext
  <2> QED BY <1>t, <2>1, <2>2, ProcessKeys
<1>12. ASSUME \/ \E max \in MaxHeapSamples :
                    Initialize(max) \/ SetMaxHeapSamples(max)
              \/ GcBeforeInitialize \/ Stop \/ Terminated
              \/ \E s \in Slots : ForceRecycleObj(s)
              \/ UNCHANGED vars
       PROVE  SoundKeys'
    BY <1>1, <1>12
    DEF Initialize, SetMaxHeapSamples, GcBeforeInitialize, Stop, Terminated,
        ForceRecycleObj, table_vars, vars
<1>13. ASSUME NEW t \in Threads,
              \/ FlushBegin(t) \/ \E s \in Slots : FlushYield(t, s)
              \/ FlushResumeFreed(t) \/ FlushResumeOrphaned(t)
              \/ FlushEndWalk(t) \/ FlushSerialized(t)
              \/ FlushFinish(t) \/ FlushFail(t)
       PROVE  SoundKeys'
    BY <1>1, <1>13
    DEF FlushBegin, FlushYield, FlushResumeFreed, FlushResumeOrphaned,
        FlushEndWalk, FlushSerialized, FlushFinish, FlushFail, FlushReturn,
        table_vars
<1> QED
    BY <1>3, <1>4, <1>5, <1>6, <1>7, <1>8, <1>9, <1>10, <1>11, <1>12, <1>13
    DEF Next, FlusherStep

-----------------------------------------------------------------------------
LEMMA SoundInit == Init => Sound
<1> SUFFICES ASSUME Init PROVE Sound
    OBVIOUS
<1>1. Types
  <2>1. flush \in [Threads -> Flush]
      BY NoFlushType DEF Init
  <2>2. samples \in [Objects -> Sample \union {NoSample}]
      BY DEF Init
  <2>3. /\ heap \in [Slots -> Objects \union {NoObject}]
        /\ heap_samples \in [Slots -> Objects \union {NoObject}]
        /\ mark_table \in [Refs -> Int]
        /\ pc \in [Threads -> PC]
      BY DEF Init, PC
  <2>4. status \in Status /\ is_tracing \in BOOLEAN
      BY Zenon DEF Init, Status
  <2>5. heap_samples_count = 0 /\ max_heap_samples = 0
      BY Zenon DEF Init
  <2>6. current_flush_epoch = 0 /\ dropped_samples_heap_bufsize = 0
      BY Zenon DEF Init
  <2>7. flush_thread \in Threads \union {NoThread}
      BY Zenon DEF Init
  <2> QED BY <2>1, <2>2, <2>3, <2>4, <2>5, <2>6, <2>7 DEF Types
<1>2. Tracked = {}
    BY DEF Init, Tracked
<1>3. Contexts
    BY <1>2 DEF Init, Contexts, FlushContext, NoFlush
<1> QED BY <1>1, <1>2, <1>3 DEF Sound, SoundKeys

LEMMA SoundAlways == Spec => []Sound
<1>1. Sound /\ [Next]_vars => Sound'
    BY TypesStep, ContextStep, KeysStep DEF Sound
<1> QED BY SoundInit, <1>1, PTL DEF Spec

\* Every variable keeps its type, and no return, failure, yield or hook
\* leaves the context of a flush in a state its next step does not expect.
THEOREM TypeCorrect == Spec => []TypeOK
<1>1. Sound => TypeOK
    BY DEF Sound, TypeOK, Contexts
<1> QED BY SoundAlways, <1>1, PTL

\* Every entry of heap_samples leads to an allocated sample that knows its
\* key, whatever hooks, compactions, restarts and flushes came before.
THEOREM KeysAreSound == Spec => []SoundKeys
<1>1. Sound => SoundKeys
    BY DEF Sound
<1> QED BY SoundAlways, <1>1, PTL

-----------------------------------------------------------------------------
(* The count                                                               *)

\* The samples that heap_samples_count has to cover.
Covered == TrackedObjects \union HeldSamples

\* Cardinality(Covered) only bounds the count before initialize and while the
\* collector is in use; without the first, initialize would not establish it.
CountInv ==
    status \in {"allocated", "ready"} =>
        heap_samples_count >= Cardinality(Covered)

LEMMA CoveredFinite ==
    ASSUME Types
    PROVE  /\ Covered \subseteq Objects
           /\ IsFiniteSet(Covered) /\ Cardinality(Covered) \in Nat
<1>1. Covered \subseteq Objects
    BY DEF Types, Covered, TrackedObjects, Tracked, HeldSamples
<1> QED BY <1>1, FiniteHeap, FS_Subset, FS_CardinalityType

\* The same after a step.
LEMMA CoveredCardinality ==
    ASSUME Types'
    PROVE  Cardinality(Covered') \in Nat
<1>1. Covered' \subseteq Objects
    BY DEF Types, Covered, TrackedObjects, Tracked, HeldSamples
<1>2. IsFiniteSet(Covered')
    BY ONLY <1>1, FiniteHeap, FS_Subset
<1> QED BY ONLY <1>2, FS_CardinalityType

\* How the number of covered samples follows the count.
LEMMA CardinalitySteps ==
    ASSUME NEW S, IsFiniteSet(S), NEW T
    PROVE  /\ T \subseteq S => Cardinality(T) <= Cardinality(S)
           /\ \A o \in S : T \subseteq S \ {o} =>
                 Cardinality(T) <= Cardinality(S) - 1
           /\ \A o : T \subseteq S \union {o} =>
                 Cardinality(T) <= Cardinality(S) + 1
<1>1. Cardinality(S) \in Nat
    BY FS_CardinalityType
<1>2. ASSUME T \subseteq S PROVE Cardinality(T) <= Cardinality(S)
    BY <1>2, FS_Subset
<1>3. ASSUME NEW o \in S, T \subseteq S \ {o}
      PROVE  Cardinality(T) <= Cardinality(S) - 1
  <2>1. /\ IsFiniteSet(S \ {o})
        /\ Cardinality(S \ {o}) = Cardinality(S) - 1
      BY FS_RemoveElement
  <2> QED BY <1>3, <2>1, FS_Subset
<1>4. ASSUME NEW o, T \subseteq S \union {o}
      PROVE  Cardinality(T) <= Cardinality(S) + 1
  <2> DEFINE U == S \union {o}
  <2>1. /\ IsFiniteSet(U)
        /\ Cardinality(U) = IF o \in S THEN Cardinality(S)
                                       ELSE Cardinality(S) + 1
      BY FS_AddElement
  <2> HIDE DEF U
  <2>2. IsFiniteSet(T) /\ Cardinality(T) <= Cardinality(U)
      BY <1>4, <2>1, FS_Subset DEF U
  <2>3. Cardinality(T) \in Nat
      BY <2>2, FS_CardinalityType
  <2> QED BY <1>1, <2>1, <2>2, <2>3
<1> QED BY <1>2, <1>3, <1>4

\* The three ways in which a step may change the count.
LEMMA CountChange ==
    ASSUME Types, Types', status = "ready", CountInv,
           \/ /\ heap_samples_count' >= heap_samples_count
              /\ Covered' \subseteq Covered
           \/ /\ heap_samples_count' = heap_samples_count - 1
              /\ \E o \in Covered : Covered' \subseteq Covered \ {o}
           \/ /\ heap_samples_count' = heap_samples_count + 1
              /\ \E o : Covered' \subseteq Covered \union {o}
    PROVE  CountInv'
<1>1. heap_samples_count \in Int /\ heap_samples_count' \in Int
    BY DEF Types
<1>2. IsFiniteSet(Covered) /\ Cardinality(Covered) \in Nat
    BY CoveredFinite
<1>3. Cardinality(Covered') \in Nat
    BY CoveredCardinality
<1>4. heap_samples_count >= Cardinality(Covered)
    BY DEF CountInv
<1>5. CASE /\ heap_samples_count' >= heap_samples_count
           /\ Covered' \subseteq Covered
  <2>1. Cardinality(Covered') <= Cardinality(Covered)
      BY <1>2, <1>5, CardinalitySteps
  <2> QED BY <1>1, <1>2, <1>3, <1>4, <1>5, <2>1 DEF CountInv
<1>6. CASE /\ heap_samples_count' = heap_samples_count - 1
           /\ \E o \in Covered : Covered' \subseteq Covered \ {o}
  <2>1. Cardinality(Covered') <= Cardinality(Covered) - 1
      BY <1>2, <1>6, CardinalitySteps
  <2> QED BY <1>1, <1>2, <1>3, <1>4, <1>6, <2>1 DEF CountInv
<1>7. CASE /\ heap_samples_count' = heap_samples_count + 1
           /\ \E o : Covered' \subseteq Covered \union {o}
  <2>1. Cardinality(Covered') <= Cardinality(Covered) + 1
      BY <1>2, <1>7, CardinalitySteps
  <2> QED BY <1>1, <1>2, <1>3, <1>4, <1>7, <2>1 DEF CountInv
<1> QED BY <1>5, <1>6, <1>7

\* A sample that is held after a step was held before, if all that happened
\* to the flushes is that keys were added or removed.
LEMMA HeldBefore ==
    ASSUME UNCHANGED pc, \A t \in Threads : OnlyTodo(flush[t], flush'[t]),
           NEW o \in HeldSamples'
    PROVE  /\ \E t \in Threads : pc[t] = "yielded" /\ flush[t].held = o
           /\ samples[o] # NoSample => o \in HeldSamples
           /\ o \in Objects /\ samples'[o] # NoSample
BY DEF HeldSamples, OnlyTodo

LEMMA FreedCount ==
    ASSUME Types, SoundKeys, Types', NEW s \in Slots, status = "ready",
           CountInv, UNCHANGED pc, MarkSampleValueAsFreed(s)
    PROVE  CountInv'
<1> DEFINE x == heap_samples[s]
<1>1. \A t \in Threads : OnlyTodo(flush[t], flush'[t])
    BY UnlistedFacts DEF MarkSampleValueAsFreed
<1>2. CASE x = NoObject
  <2>1. heap_samples' = heap_samples /\ heap_samples_count' = heap_samples_count
      BY <1>2 DEF MarkSampleValueAsFreed, CountWithout, Types
  <2>2. \A o \in Objects : samples'[o] = samples[o]
      BY <1>2 DEF MarkSampleValueAsFreed, WithoutSample, Types
  <2>3. Covered' \subseteq Covered
      BY <1>1, <2>1, <2>2, HeldBefore DEF Covered, TrackedObjects, Tracked
  <2>4. heap_samples_count' >= heap_samples_count
      BY <2>1 DEF Types
  <2> QED BY <2>3, <2>4, CountChange
<1>3. CASE x # NoObject
  <2>1. /\ heap_samples' = [heap_samples EXCEPT ![s] = NoObject]
        /\ heap_samples_count' = heap_samples_count - 1
        /\ samples' = WithoutSample(x)
      BY <1>3 DEF MarkSampleValueAsFreed, CountWithout
  <2>2. s \in Tracked /\ x \in Objects /\ x \in Covered
      BY <1>3 DEF Types, Tracked, Covered, TrackedObjects
  <2>3. ASSUME NEW o \in TrackedObjects' PROVE o \in TrackedObjects \ {x}
    <3>1. PICK k \in Slots : heap_samples'[k] = o /\ o # NoObject
        BY <2>3 DEF TrackedObjects, Tracked
    <3>2. k # s /\ heap_samples[k] = o
        BY <2>1, <3>1 DEF Types
    <3>3. k \in Tracked
        BY <3>1, <3>2 DEF Tracked
    <3> QED BY <2>2, <3>2, <3>3, KeysInjective DEF TrackedObjects
  <2>4. ASSUME NEW o \in HeldSamples' PROVE o \in HeldSamples \ {x}
    <3>1. o \in Objects /\ samples'[o] # NoSample
        BY <1>1, HeldBefore
    <3>2. o # x /\ samples[o] = samples'[o]
        BY <2>1, <3>1 DEF WithoutSample
    <3> QED BY <1>1, <3>1, <3>2, HeldBefore
  <2>5. Covered' \subseteq Covered \ {x}
      BY <2>3, <2>4 DEF Covered
  <2> QED BY <2>1, <2>2, <2>5, CountChange
<1> QED BY <1>2, <1>3

\* flush_each_sample frees a sample that was tracked or held.
LEMMA ProcessCount ==
    ASSUME Types, SoundKeys, Types', CountInv, status = "ready",
           NEW t \in Threads, NEW key \in Slots, NEW o \in Objects,
           NEW rest \in SUBSET Tracked, Process(t, key, o, rest), o \in Covered,
           pc' = [pc EXCEPT ![t] = "walk"]
    PROVE  CountInv'
<1>1. CASE status' # "ready"
  <2>1. status' # "allocated"
      BY DEF Process
  <2> QED BY <1>1, <2>1 DEF CountInv
<1>2. CASE status' = "ready"
  <2>p. \/ UNCHANGED table_vars
        \/ /\ heap_samples' = [heap_samples EXCEPT ![key] = NoObject]
           /\ heap_samples_count' = heap_samples_count - 1
           /\ samples' = WithoutSample(o)
           /\ \A k \in Slots : heap_samples[k] = o => k = key
           /\ ~Validish(samples[o].allocated_value_weak)
           /\ UNCHANGED mark_table
      BY <1>2, ProcessFacts, Zenon
  <2>q. ASSUME NEW u \in Threads, u # t
        PROVE  \/ flush'[u] = flush[u] /\ UNCHANGED heap_samples
               \/ /\ flush'[u] = Unlisted(key)[u]
                  /\ heap_samples' = [heap_samples EXCEPT ![key] = NoObject]
      BY <1>2, <2>q, ProcessFacts
  <2>1. ASSUME NEW x \in HeldSamples', samples[x] # NoSample
        PROVE  x \in HeldSamples
    <3>1. PICK u \in Threads : pc'[u] = "yielded" /\ flush'[u].held = x
        BY DEF HeldSamples
    <3>2. u # t /\ pc[u] = "yielded"
        BY <3>1 DEF Types
    <3>3. flush'[u] = flush[u] \/ flush'[u] = Unlisted(key)[u]
        BY <2>q, <3>2
    <3>4. flush'[u].held = flush[u].held
        BY <3>3, UnlistedFacts DEF OnlyTodo
    <3> QED BY <2>1, <3>1, <3>2, <3>4 DEF HeldSamples
  <2>2. CASE UNCHANGED table_vars
    <3>1. \A x \in HeldSamples' : samples[x] # NoSample
        BY <2>2 DEF HeldSamples, table_vars
    <3>2. Covered' \subseteq Covered
        BY <2>1, <2>2, <3>1 DEF Covered, TrackedObjects, Tracked, table_vars
    <3>3. heap_samples_count' >= heap_samples_count
        BY <2>2 DEF Types, table_vars
    <3> QED BY <3>2, <3>3, CountChange
  <2>3. CASE /\ heap_samples' = [heap_samples EXCEPT ![key] = NoObject]
             /\ heap_samples_count' = heap_samples_count - 1
             /\ samples' = WithoutSample(o)
             /\ \A k \in Slots : heap_samples[k] = o => k = key
    <3>1. TrackedObjects' \subseteq TrackedObjects \ {o}
        BY <2>3 DEF Types, TrackedObjects, Tracked
    <3>2. \A x \in HeldSamples' : x # o /\ samples[x] # NoSample
        BY <2>3 DEF HeldSamples, WithoutSample
    <3>3. Covered' \subseteq Covered \ {o}
        BY <2>1, <3>1, <3>2 DEF Covered
    <3> QED BY <2>3, <3>3, CountChange
  <2> QED BY <2>p, <2>2, <2>3
<1> QED BY <1>1, <1>2

\* Every action keeps the count.
LEMMA CountStep == Sound /\ Sound' /\ CountInv /\ [Next]_vars => CountInv'
<1> SUFFICES ASSUME Sound, Sound', CountInv, [Next]_vars PROVE CountInv'
    OBVIOUS
<1>t. Types /\ Types' /\ SoundKeys
    BY DEF Sound
<1>1. ASSUME UNCHANGED <<heap_samples, heap_samples_count>>,
             status' \in {"allocated", "ready"} =>
                 status' = status /\ HeldSamples' \subseteq HeldSamples
      PROVE  CountInv'
  <2>1. TrackedObjects' = TrackedObjects
      BY <1>1 DEF TrackedObjects, Tracked
  <2>2. CASE status = "ready" /\ status' = "ready"
    <3>1. Covered' \subseteq Covered
        BY <1>1, <2>1, <2>2 DEF Covered
    <3>2. heap_samples_count' >= heap_samples_count
        BY <1>t, <1>1 DEF Types
    <3> QED BY <1>t, <2>2, <3>1, <3>2, CountChange
  <2>3. CASE status = "allocated" /\ status' = "allocated"
    <3>1. Covered' \subseteq Covered
        BY <1>1, <2>1, <2>3 DEF Covered
    <3>2. Cardinality(Covered') <= Cardinality(Covered)
        BY <1>t, <3>1, CoveredFinite, CardinalitySteps
    <3>3. Cardinality(Covered') \in Nat
      <4>1. Covered' \subseteq Objects
          BY <1>t, <3>1, CoveredFinite
      <4> QED BY <4>1, FiniteHeap, FS_Subset, FS_CardinalityType
    <3> QED BY <1>t, <1>1, <2>3, <3>2, <3>3, CoveredFinite
            DEF CountInv, Types
  <2>4. CASE status' \notin {"allocated", "ready"}
      BY <2>4 DEF CountInv
  <2> QED BY <1>1, <2>2, <2>3, <2>4
<1>2. ASSUME NEW s \in Slots, status = "ready", UNCHANGED <<status, pc>>,
             MarkSampleValueAsFreed(s) \/ UNCHANGED <<table_vars, flush>>
      PROVE  CountInv'
  <2>1. CASE MarkSampleValueAsFreed(s)
      BY <1>t, <1>2, <2>1, FreedCount
  <2>2. CASE UNCHANGED <<table_vars, flush>>
      BY <1>1, <1>2, <2>2 DEF HeldSamples, table_vars
  <2> QED BY <1>2, <2>1, <2>2
<1>3. ASSUME NEW t \in Threads, NEW s \in Slots, NEW o \in Objects,
             \/ NewObjUntraced(t, s, o)
             \/ NewObjNotSampled(t, s, o)
             \/ NewObjDropped(t, s, o)
      PROVE  CountInv'
    BY <1>2, <1>3 DEF NewObjUntraced, NewObjNotSampled, NewObjDropped,
                      Allocates, PurgeRecycled, Running
<1>4. ASSUME NEW t \in Threads, NEW s \in Slots, NEW o \in Objects,
             NEW refs \in SUBSET Refs, NewObjSampled(t, s, o, refs)
      PROVE  CountInv'
  <2> DEFINE x == Purged(s)
             new == [allocated_value_weak |-> s,
                     flush_epoch |-> current_flush_epoch,
                     refs |-> refs]
  <2>1. /\ status = "ready" /\ UNCHANGED pc
        /\ heap_samples' = [heap_samples EXCEPT ![s] = o]
        /\ heap_samples_count' = CountWithout(x) + 1
        /\ samples' = [WithoutSample(x) EXCEPT ![o] = new]
        /\ flush' = Listed(s)
        /\ samples[o] = NoSample
        /\ \A u \in Threads : o # flush[u].held
      BY <1>4 DEF NewObjSampled, Captured, Allocates, Running, Fresh, CountAfterPurge
  <2> HIDE DEF new
  <2>2. \A u \in Threads : OnlyTodo(flush[u], flush'[u])
      BY <1>t, <2>1, ListedFacts
  <2>3. CASE status' # "ready"
      BY <1>4, <2>3 DEF CountInv, NewObjSampled, Captured
  <2>4. CASE status' = "ready"
    <3>1. heap_samples[s] \in {NoObject, x}
        BY <1>4, <2>4 DEF NewObjSampled, Captured
    <3>2. x = heap_samples[s] \/ x = NoObject
        BY DEF Purged
    <3>3. heap_samples[s] = x
        BY <3>1, <3>2
    <3>4. ASSUME NEW y \in TrackedObjects'
          PROVE  y = o \/ y \in TrackedObjects \ {x}
      <4>1. PICK k \in Slots : heap_samples'[k] = y /\ y # NoObject
          BY <3>4 DEF TrackedObjects, Tracked
      <4>2. CASE k = s
          BY <1>t, <2>1, <4>1, <4>2 DEF Types
      <4>3. CASE k # s
        <5>1. heap_samples[k] = y /\ k \in Tracked
            BY <1>t, <2>1, <4>1, <4>3 DEF Types, Tracked
        <5>2. y # x
            BY <1>t, <3>3, <4>1, <4>3, <5>1, KeysInjective DEF Tracked
        <5> QED BY <5>1, <5>2 DEF TrackedObjects
      <4> QED BY <4>2, <4>3
    <3>5. ASSUME NEW y \in HeldSamples' PROVE y \in HeldSamples \ {x}
      <4>1. /\ y \in Objects /\ samples'[y] # NoSample
            /\ \E u \in Threads : pc[u] = "yielded" /\ flush[u].held = y
          BY <2>1, <2>2, HeldBefore
      <4>2. y # o
          BY <2>1, <4>1
      <4>3. y # x /\ samples[y] = samples'[y]
          BY <2>1, <4>1, <4>2 DEF WithoutSample
      <4> QED BY <4>1, <4>3 DEF HeldSamples
    <3>6. Covered' \subseteq (Covered \ {x}) \union {o}
        BY <3>4, <3>5 DEF Covered
    <3>7. CASE x = NoObject
      <4>1. heap_samples_count' = heap_samples_count + 1
          BY <2>1, <3>7 DEF CountWithout
      <4>2. Covered' \subseteq Covered \union {o}
          BY <3>6
      <4> QED BY <1>t, <2>1, <4>1, <4>2, CountChange
    <3>8. CASE x # NoObject
      <4>1. heap_samples_count' = heap_samples_count
          BY <1>t, <2>1, <3>8 DEF CountWithout, Types
      <4>2. x \in Covered
          BY <3>3, <3>8 DEF Covered, TrackedObjects, Tracked
      <4>3. /\ IsFiniteSet(Covered) /\ Cardinality(Covered) \in Nat
            /\ IsFiniteSet(Covered \ {x})
            /\ Cardinality(Covered \ {x}) = Cardinality(Covered) - 1
          BY <1>t, <4>2, CoveredFinite, FS_RemoveElement
      <4>4. Cardinality(Covered') <= Cardinality(Covered \ {x}) + 1
          BY <3>6, <4>3, CardinalitySteps
      <4>5. Cardinality(Covered') \in Nat
          BY <1>t, CoveredCardinality
      <4> QED BY <1>t, <2>1, <4>1, <4>3, <4>4, <4>5 DEF CountInv, Types
    <3> QED BY <3>7, <3>8
  <2> QED BY <2>3, <2>4
<1>5. ASSUME NEW s \in Slots, FreeObj(s) PROVE CountInv'
    BY <1>2, <1>5 DEF FreeObj, FreeObjHook, Running
<1>6. ASSUME NEW from \in Slots, NEW to \in Slots, CompactObject(from, to)
      PROVE  CountInv'
  <2>1. /\ status = "ready"
        /\ UNCHANGED <<status, heap_samples_count, pc>>
        /\ CompactHeapSample(from, to)
      BY <1>6 DEF CompactObject, Running
  <2>2. CASE heap_samples[from] = NoObject
      BY <1>1, <2>1, <2>2 DEF CompactHeapSample, HeldSamples
  <2>3. CASE heap_samples[from] # NoObject
    <3> DEFINE o == heap_samples[from]
    <3>1. /\ heap_samples' = Rekeyed(from, to)
          /\ samples' = [samples EXCEPT ![o].allocated_value_weak = to]
          /\ flush' = Relisted(from, to)
          /\ from \in Tracked /\ o \in Objects
        BY <1>t, <2>1, <2>3
        DEF CompactHeapSample, Relocated, Tracked, Types
    <3>2. TrackedObjects' \subseteq TrackedObjects
        BY <1>t, <3>1 DEF Rekeyed, TrackedObjects, Tracked, Types
    <3>3. samples[o] # NoSample
        BY <1>t, <3>1 DEF SoundKeys
    <3>4. \A x \in Objects : samples'[x] # NoSample => samples[x] # NoSample
        BY <1>t, <3>1, <3>3 DEF Types
    <3>5. \A u \in Threads : OnlyTodo(flush[u], flush'[u])
        BY <1>t, <3>1, RelistedFacts
    <3>6. HeldSamples' \subseteq HeldSamples
        BY <2>1, <3>4, <3>5, HeldBefore
    <3>7. Covered' \subseteq Covered
        BY <3>2, <3>6 DEF Covered
    <3>8. heap_samples_count' >= heap_samples_count
        BY <1>t, <2>1 DEF Types
    <3> QED BY <1>t, <2>1, <3>7, <3>8, CountChange
  <2> QED BY <2>2, <2>3
<1>7. ASSUME NEW r \in Refs, NEW q \in Refs, CompactRef(r, q)
      PROVE  CountInv'
  <2>1. \A o \in TrackedObjects : samples[o] # NoSample
      BY <1>t DEF SoundKeys, TrackedObjects
  <2>2. \A o \in Objects : samples'[o] # NoSample => samples[o] # NoSample
      BY <1>7, <2>1 DEF CompactRef
  <2>3. HeldSamples' \subseteq HeldSamples
      BY <1>7, <2>2 DEF CompactRef, HeldSamples
  <2> QED BY <1>1, <1>7, <2>3 DEF CompactRef
<1>8. CASE Start
  <2>1. CASE ~MustClear
      BY <1>1, <1>8, <2>1 DEF Start, HeldSamples
  <2>2. CASE MustClear
    <3>1. TrackedObjects' = {}
        BY <1>8, <2>2 DEF Start, TrackedObjects, Tracked
    <3>2. HeldSamples' = {}
        BY <1>t, <1>8, <2>2 DEF Start, HeldSamples, Types
    <3>3. Cardinality(Covered') = 0 /\ heap_samples_count' = 0
        BY <1>8, <2>2, <3>1, <3>2, FS_EmptySet DEF Start, Covered
    <3> QED BY <3>3 DEF CountInv
  <2> QED BY <2>1, <2>2
<1>9. CASE GcFree \/ GcBeforeInitialize
    BY <1>9 DEF GcFree, GcBeforeInitialize, CountInv
<1>10. ASSUME NEW max \in MaxHeapSamples, Initialize(max) PROVE CountInv'
  <2>1. Covered' = Covered
      BY <1>10 DEF Initialize, table_vars, Covered, HeldSamples,
                   TrackedObjects, Tracked
  <2> QED BY <1>10, <2>1 DEF Initialize, table_vars, CountInv
<1>11. ASSUME NEW t \in Threads, NEW s \in Slots, FlushVisit(t, s)
       PROVE  CountInv'
  <2>1. /\ Contexts /\ s \in flush[t].todo /\ status = "ready"
        /\ Process(t, s, heap_samples[s], flush[t].todo \ {s})
        /\ pc' = [pc EXCEPT ![t] = "walk"]
      BY <1>t, <1>11 DEF FlushVisit, Sound, Types
  <2>2. flush[t].todo \subseteq Tracked
      BY <2>1 DEF Contexts, FlushContext
  <2>3. /\ heap_samples[s] \in Objects /\ heap_samples[s] \in Covered
        /\ flush[t].todo \ {s} \subseteq Tracked
      BY <1>t, <2>1, <2>2 DEF Types, Tracked, Covered, TrackedObjects
  <2> QED BY <1>t, <2>1, <2>3, ProcessCount
<1>12. ASSUME NEW t \in Threads, FlushResume(t) PROVE CountInv'
  <2>1. /\ Contexts /\ status = "ready" /\ pc[t] = "yielded"
        /\ Process(t, flush[t].key, flush[t].held, flush[t].todo)
        /\ pc' = [pc EXCEPT ![t] = "walk"]
        /\ samples[flush[t].held] # NoSample
      BY <1>12 DEF FlushResume, Running, Sound
  <2>2. /\ flush[t].held \in Objects /\ flush[t].key \in Slots
        /\ flush[t].todo \subseteq Tracked
      BY <1>t, <2>1, FlushFields DEF Types, Contexts, FlushContext
  <2>3. flush[t].held \in Covered
      BY <2>1, <2>2 DEF Covered, HeldSamples
  <2> QED BY <1>t, <2>1, <2>2, <2>3, ProcessCount
<1>13. ASSUME NEW t \in Threads, NEW s \in Slots, FlushYield(t, s)
       PROVE  CountInv'
  <2>1. /\ Contexts /\ s \in flush[t].todo
        /\ status = "ready" /\ status' = "ready"
        /\ UNCHANGED <<heap_samples, heap_samples_count, samples>>
        /\ pc' = [pc EXCEPT ![t] = "yielded"]
        /\ \A u \in Threads \ {t} : flush'[u] = flush[u]
        /\ flush'[t].held = heap_samples[s]
    <3>1. [flush[t] EXCEPT !.todo = @ \ {s}, !.key = s,
                           !.held = heap_samples[s]].held = heap_samples[s]
        BY <1>t DEF Types, Flush
    <3> QED BY <1>t, <1>13, <3>1
            DEF FlushYield, Sound, Types, table_vars
  <2>2. s \in Tracked
      BY <2>1 DEF Contexts, FlushContext
  <2>3. heap_samples[s] \in TrackedObjects
      BY <2>2 DEF TrackedObjects
  <2>4. ASSUME NEW o \in HeldSamples'
        PROVE  o \in HeldSamples \/ o = heap_samples[s]
      BY <1>t, <2>1 DEF HeldSamples, Types
  <2>5. Covered' \subseteq Covered
      BY <2>1, <2>3, <2>4 DEF Covered, TrackedObjects, Tracked
  <2>6. heap_samples_count' >= heap_samples_count
      BY <1>t, <2>1 DEF Types
  <2> QED BY <1>t, <2>1, <2>5, <2>6, CountChange
<1>14. ASSUME NEW t \in Threads,
              \/ FlushBegin(t) \/ FlushEndWalk(t) \/ FlushSerialized(t)
              \/ FlushFinish(t) \/ FlushFail(t)
              \/ FlushResumeFreed(t) \/ FlushResumeOrphaned(t)
       PROVE  CountInv'
  <2>1. /\ UNCHANGED <<heap_samples, heap_samples_count, samples>>
        /\ status = "ready"
      BY <1>14
      DEF FlushBegin, FlushEndWalk, FlushSerialized, FlushFinish, FlushFail,
          FlushResumeFreed, FlushResumeOrphaned, FlushReturn, Running,
          table_vars
  <2>2. ASSUME status' = "ready", NEW u \in Threads, pc'[u] = "yielded"
        PROVE  pc[u] = "yielded" /\ flush'[u] = flush[u]
      BY <1>t, <1>14, <2>2
      DEF FlushBegin, FlushEndWalk, FlushSerialized, FlushFinish, FlushFail,
          FlushResumeFreed, FlushResumeOrphaned, FlushReturn, Destroyed, Types
  <2>3. status' = "ready" => HeldSamples' \subseteq HeldSamples
      BY <2>1, <2>2 DEF HeldSamples
  <2>4. status' # "allocated"
      BY <1>14, <2>1
      DEF FlushBegin, FlushEndWalk, FlushSerialized, FlushFinish, FlushFail,
          FlushResumeFreed, FlushResumeOrphaned, FlushReturn
  <2> QED BY <1>1, <2>1, <2>3, <2>4
<1>15. ASSUME \/ \E max \in MaxHeapSamples : SetMaxHeapSamples(max)
              \/ Stop \/ Terminated \/ \E s \in Slots : ForceRecycleObj(s)
              \/ UNCHANGED vars
       PROVE  CountInv'
  <2>1. UNCHANGED <<status, heap_samples, heap_samples_count, samples, pc,
                    flush>>
      BY <1>15 DEF SetMaxHeapSamples, Stop, Terminated, ForceRecycleObj,
                   vars, table_vars
  <2> QED BY <1>1, <2>1 DEF HeldSamples
<1> QED
    BY <1>3, <1>4, <1>5, <1>6, <1>7, <1>8, <1>9, <1>10, <1>11, <1>12, <1>13,
       <1>14, <1>15
    DEF Next, FlusherStep

LEMMA CountInit == Init => CountInv
<1> SUFFICES ASSUME Init PROVE CountInv
    OBVIOUS
<1>1. Covered = {} /\ heap_samples_count = 0
    BY DEF Init, Covered, TrackedObjects, Tracked, HeldSamples
<1> QED BY <1>1, FS_EmptySet DEF CountInv

LEMMA CountAlways == Spec => [](Sound /\ CountInv)
<1>1. Sound /\ CountInv /\ [Next]_vars => (Sound /\ CountInv)'
    BY TypesStep, ContextStep, KeysStep, CountStep DEF Sound
<1> QED BY SoundInit, CountInit, <1>1, PTL DEF Spec

\* heap_samples_count is never less than the number of samples that live in
\* the table or in a suspended flush: it bounds them, and it is never
\* negative, so that the size_t of the code does not wrap.
THEOREM CountIsSafe == Spec => []CountCovers
<1>1. Sound /\ CountInv => CountCovers
    BY DEF CountInv, CountCovers, Covered
<1> QED BY CountAlways, <1>1, PTL

-----------------------------------------------------------------------------
(* The objects at the keys                                                 *)

\* TrackedAreCurrent holds in every build but one that has both a force
\* recycle, which leaves an entry at an empty slot, and a compaction, which
\* may then put an object there without a look at the entry.
CurrentInv == ~(ForceRecycle /\ Movable) => TrackedAreCurrent

\* What TrackedAreCurrent says of one key.
Current(s) == \/ heap[s] = heap_samples[s]
              \/ ForceRecycle /\ heap[s] = NoObject

LEMMA CurrentStep ==
    Sound /\ CountInv /\ CurrentInv /\ [Next]_vars => CurrentInv'
<1> SUFFICES ASSUME Sound, CountInv, TrackedAreCurrent, [Next]_vars,
                    ~(ForceRecycle /\ Movable),
                    is_tracing', NEW k \in Tracked'
             PROVE  Current(k)'
    BY DEF CurrentInv, TrackedAreCurrent, Current
<1>t. Types /\ SoundKeys
    BY DEF Sound
<1>1. ASSUME is_tracing, k \in Tracked, heap_samples'[k] = heap_samples[k],
             heap'[k] = heap[k]
      PROVE  Current(k)'
    BY <1>1 DEF TrackedAreCurrent, Current
<1>2. ASSUME NEW s \in Slots, is_tracing, MarkSampleValueAsFreed(s),
             \A x \in Slots \ {s} : heap'[x] = heap[x]
      PROVE  Current(k)'
  <2>1. k # s /\ k \in Tracked /\ heap_samples'[k] = heap_samples[k]
      BY <1>t, <1>2 DEF MarkSampleValueAsFreed, Tracked, Types
  <2>2. heap'[k] = heap[k]
      BY <1>2, <2>1 DEF Tracked
  <2> QED BY <1>1, <1>2, <2>1, <2>2
<1>3. ASSUME NEW t \in Threads, NEW s \in Slots, NEW o \in Objects,
             \/ NewObjUntraced(t, s, o)
             \/ NewObjNotSampled(t, s, o)
             \/ NewObjDropped(t, s, o)
      PROVE  Current(k)'
  <2>1. is_tracing
      BY <1>3 DEF NewObjUntraced, NewObjNotSampled, NewObjDropped, Allocates
  <2>2. /\ PurgeRecycled(s)
        /\ heap' = [heap EXCEPT ![s] = o] /\ heap[s] = NoObject
      BY <1>3, <2>1
      DEF NewObjUntraced, NewObjNotSampled, NewObjDropped, Allocates
  <2>3. CASE ForceRecycle
      BY <1>t, <1>2, <2>1, <2>2, <2>3 DEF PurgeRecycled, Types
  <2>4. CASE ~ForceRecycle
    <3>1. k \in Tracked /\ heap_samples'[k] = heap_samples[k]
        BY <2>2, <2>4 DEF PurgeRecycled, Tracked, table_vars
    <3>2. k # s
        BY <2>1, <2>2, <2>4, <3>1 DEF TrackedAreCurrent, Tracked
    <3>3. heap'[k] = heap[k]
        BY <1>t, <2>2, <3>1, <3>2 DEF Types, Tracked
    <3> QED BY <1>1, <2>1, <3>1, <3>3
  <2> QED BY <2>3, <2>4
<1>4. ASSUME NEW t \in Threads, NEW s \in Slots, NEW o \in Objects,
             NEW refs \in SUBSET Refs, NewObjSampled(t, s, o, refs)
      PROVE  Current(k)'
  <2>1. /\ is_tracing
        /\ heap' = [heap EXCEPT ![s] = o]
        /\ heap_samples' = [heap_samples EXCEPT ![s] = o]
      BY <1>4 DEF NewObjSampled, Captured, Allocates
  <2>2. CASE k = s
      BY <1>t, <2>1, <2>2 DEF Current, Types
  <2>3. CASE k # s
    <3>1. /\ k \in Tracked /\ heap_samples'[k] = heap_samples[k]
          /\ heap'[k] = heap[k]
        BY <1>t, <2>1, <2>3 DEF Tracked, Types
    <3> QED BY <1>1, <2>1, <3>1
  <2> QED BY <2>2, <2>3
<1>5. ASSUME NEW s \in Slots, FreeObj(s) PROVE Current(k)'
  <2>1. is_tracing /\ heap' = [heap EXCEPT ![s] = NoObject]
        /\ MarkSampleValueAsFreed(s)
      BY <1>5 DEF FreeObj, FreeObjHook
  <2> QED BY <1>t, <1>2, <2>1 DEF Types
<1>6. ASSUME NEW s \in Slots, ForceRecycleObj(s) PROVE Current(k)'
  <2>1. /\ is_tracing /\ ForceRecycle
        /\ heap' = [heap EXCEPT ![s] = NoObject]
        /\ k \in Tracked /\ heap_samples'[k] = heap_samples[k]
      BY <1>6 DEF ForceRecycleObj, Tracked, table_vars
  <2>2. CASE k = s
      BY <1>t, <2>1, <2>2 DEF Current, Types
  <2>3. CASE k # s
    <3>1. heap'[k] = heap[k]
        BY <1>t, <2>1, <2>3 DEF Types, Tracked
    <3> QED BY <1>1, <2>1, <3>1
  <2> QED BY <2>2, <2>3
<1>7. ASSUME NEW from \in Slots, NEW to \in Slots, CompactObject(from, to)
      PROVE  Current(k)'
  <2>1. /\ is_tracing /\ ~ForceRecycle
        /\ heap[from] # NoObject /\ heap[to] = NoObject
        /\ heap' = [heap EXCEPT ![from] = NoObject, ![to] = heap[from]]
        /\ CompactHeapSample(from, to)
      BY <1>7 DEF CompactObject
  <2>2. to \notin Tracked
      BY <2>1 DEF TrackedAreCurrent, Tracked
  <2>3. CASE heap_samples[from] = NoObject
    <3>1. /\ k \in Tracked /\ heap_samples'[k] = heap_samples[k]
          /\ k # from /\ k # to
        BY <2>1, <2>2, <2>3 DEF CompactHeapSample, Tracked
    <3>2. heap'[k] = heap[k]
        BY <1>t, <2>1, <3>1 DEF Types, Tracked
    <3> QED BY <1>1, <2>1, <3>1, <3>2
  <2>4. CASE heap_samples[from] # NoObject
    <3>1. /\ heap_samples' = Rekeyed(from, to)
          /\ heap[from] = heap_samples[from]
        BY <2>1, <2>4 DEF CompactHeapSample, TrackedAreCurrent, Tracked
    <3>2. CASE k = to
        BY <1>t, <2>1, <3>1, <3>2 DEF Current, Rekeyed, Types
    <3>3. CASE k # to
      <4>1. /\ k \in Tracked /\ heap_samples'[k] = heap_samples[k]
            /\ k # from
          BY <1>t, <3>1, <3>3 DEF Rekeyed, Tracked, Types
      <4>2. heap'[k] = heap[k]
          BY <1>t, <2>1, <3>3, <4>1 DEF Types, Tracked
      <4> QED BY <1>1, <2>1, <4>1, <4>2
    <3> QED BY <3>2, <3>3
  <2> QED BY <2>3, <2>4
<1>8. CASE Start
  <2>1. CASE MustClear
      BY <1>8, <2>1 DEF Start, Tracked
  <2>2. CASE ~MustClear
    <3>1. /\ status = "ready" /\ Tracked' = Tracked
          /\ heap_samples_count <= 0
        BY <1>t, <1>8, <2>2 DEF Start, Running, MustClear, Tracked, Types
    <3>2. Cardinality(Covered) = 0
        BY <1>t, <3>1, CoveredFinite DEF CountInv, Types
    <3>3. Covered = {}
        BY <1>t, <3>2, CoveredFinite, FS_EmptySet
    <3> QED BY <3>1, <3>3 DEF Covered, TrackedObjects
  <2> QED BY <2>1, <2>2
<1>9. ASSUME NEW t \in Threads, NEW s \in Slots, NEW o,
             NEW rest, Process(t, s, o, rest), UNCHANGED <<is_tracing, heap>>
      PROVE  Current(k)'
  <2>1. \/ heap_samples' = heap_samples
        \/ heap_samples' = [heap_samples EXCEPT ![s] = NoObject]
      BY <1>9 DEF Process, table_vars
  <2>2. k \in Tracked /\ heap_samples'[k] = heap_samples[k]
      BY <1>t, <2>1 DEF Tracked, Types
  <2> QED BY <1>1, <1>9, <2>2
<1>10. ASSUME NEW t \in Threads, NEW s \in Slots, FlushVisit(t, s)
       PROVE  Current(k)'
    BY <1>9, <1>10 DEF FlushVisit
<1>11. ASSUME NEW t \in Threads, FlushResume(t) PROVE Current(k)'
  <2>1. flush[t].key \in Slots
      BY <1>t, <1>11, FlushFields
      DEF Types, FlushResume, Running, Sound, Contexts, FlushContext
  <2> QED BY <1>9, <1>11, <2>1 DEF FlushResume
<1>12. CASE Stop \/ GcFree
    BY <1>12 DEF Stop, GcFree
<1>13. ASSUME UNCHANGED <<is_tracing, heap, heap_samples>>
       PROVE  Current(k)'
    BY <1>1, <1>13 DEF Tracked
<1>14. ASSUME \/ \E max \in MaxHeapSamples :
                    Initialize(max) \/ SetMaxHeapSamples(max)
              \/ \E r, q \in Refs : CompactRef(r, q)
              \/ GcBeforeInitialize \/ Terminated \/ UNCHANGED vars
       PROVE  Current(k)'
    BY <1>13, <1>14
    DEF Initialize, SetMaxHeapSamples, CompactRef, GcBeforeInitialize,
        Terminated, table_vars, vars
<1>15. ASSUME NEW t \in Threads,
              \/ FlushBegin(t) \/ \E s \in Slots : FlushYield(t, s)
              \/ FlushResumeFreed(t) \/ FlushResumeOrphaned(t)
              \/ FlushEndWalk(t) \/ FlushSerialized(t)
              \/ FlushFinish(t) \/ FlushFail(t)
       PROVE  Current(k)'
    BY <1>13, <1>15
    DEF FlushBegin, FlushYield, FlushResumeFreed, FlushResumeOrphaned,
        FlushEndWalk, FlushSerialized, FlushFinish, FlushFail, FlushReturn,
        table_vars
<1> QED
    BY <1>3, <1>4, <1>5, <1>6, <1>7, <1>8, <1>10, <1>11, <1>12, <1>14, <1>15
    DEF Next, FlusherStep

LEMMA CurrentAlways == Spec => [](Sound /\ CountInv /\ CurrentInv)
<1>1. Init => CurrentInv
    BY DEF Init, CurrentInv, TrackedAreCurrent
<1>2. Sound /\ CountInv /\ CurrentInv /\ [Next]_vars =>
          (Sound /\ CountInv /\ CurrentInv)'
    BY TypesStep, ContextStep, KeysStep, CountStep, CurrentStep DEF Sound
<1> QED BY SoundInit, CountInit, <1>1, <1>2, PTL DEF Spec

\* On a Ruby without rb_gc_force_recycle or without GC.compact, an entry of
\* heap_samples is never about another object than the one that lives at its
\* key, while the collector is tracing.
THEOREM SamplesAreCurrent ==
    ASSUME ~(ForceRecycle /\ Movable)
    PROVE  Spec => []TrackedAreCurrent
<1>1. CurrentInv => TrackedAreCurrent
    BY DEF CurrentInv
<1> QED BY CurrentAlways, <1>1, PTL

\* On every Ruby, the newobj hook never finds its key in heap_samples: the
\* hook has deleted a stale entry just before, or there is none.
LEMMA AssertStep ==
    Sound /\ CurrentInv /\ AssertHolds /\ [Next]_vars => AssertHolds'
<1> SUFFICES ASSUME Sound, CurrentInv, AssertHolds, [Next]_vars,
                    status' = "assert_failed"
             PROVE  FALSE
    BY DEF AssertHolds
<1>1. PICK t \in Threads, s \in Slots, o \in Objects, refs \in SUBSET Refs :
          NewObjSampled(t, s, o, refs)
  <2>1. status # "assert_failed"
      BY DEF AssertHolds
  <2> QED
      BY <2>1
      DEF Next, FlusherStep, vars, Initialize, GcBeforeInitialize,
          NewObjUntraced, NewObjNotSampled, NewObjDropped, Allocates, FreeObj,
          ForceRecycleObj, CompactObject, CompactRef, Start, Stop,
          SetMaxHeapSamples, GcFree, FlushBegin, FlushVisit, FlushYield,
          FlushResume, FlushResumeFreed, FlushResumeOrphaned, FlushEndWalk,
          FlushSerialized, FlushFinish, FlushFail, FlushReturn, Process,
          Terminated
<1>2. is_tracing /\ heap[s] = NoObject /\ heap_samples[s] \notin {NoObject, Purged(s)}
    BY <1>1 DEF NewObjSampled, Captured, Allocates
<1>3. CASE ForceRecycle
    BY <1>2, <1>3 DEF Purged
<1>4. CASE ~ForceRecycle
  <2>1. s \in Tracked
      BY <1>2 DEF Tracked
  <2> QED BY <1>2, <1>4, <2>1 DEF CurrentInv, TrackedAreCurrent
<1> QED BY <1>3, <1>4

\* The MPP_ASSERT_MSG of the newobj hook never fails, on any Ruby.
THEOREM InsertIsNew == Spec => []AssertHolds
<1>1. Init => AssertHolds
    BY DEF Init, AssertHolds
<1> QED BY CurrentAlways, AssertStep, <1>1, PTL DEF Spec

-----------------------------------------------------------------------------
(* The epochs                                                              *)

\* An allocated sample that the walk of thread t may still come to.
InWalk(t, o) ==
    /\ samples[o] # NoSample
    /\ o \in TrackedObjects \/ o = flush[t].held

\* Of those, the ones that a flush takes are from before it began.
OldInWalk(t) ==
    Walking(t) =>
        \A o \in Objects :
            InWalk(t, o) /\ samples[o].flush_epoch <= flush[t].epoch =>
                o \in flush[t].before

EpochPast(t) == pc[t] # "idle" => flush[t].epoch < current_flush_epoch

NoNew(t) ==
    \A o \in Objects : flush[t].profile[o] > 0 => o \in flush[t].before

\* ProfileNoNew, and why the next sample keeps it.
EpochInv ==
    /\ ProfileNoNew
    /\ status \in {"allocated", "ready"} =>
           \A t \in Threads : OldInWalk(t) /\ EpochPast(t)

LEMMA EpochKept ==
    ASSUME NEW t \in Threads, OnlyTodo(flush[t], flush'[t]),
           OldInWalk(t), EpochPast(t), NoNew(t),
           Walking(t)' => Walking(t), pc'[t] # "idle" => pc[t] # "idle",
           current_flush_epoch' = current_flush_epoch,
           ASSUME NEW o \in Objects, InWalk(t, o)'
           PROVE  /\ InWalk(t, o)
                  /\ samples'[o].flush_epoch = samples[o].flush_epoch
    PROVE  OldInWalk(t)' /\ EpochPast(t)' /\ NoNew(t)'
<1>1. /\ flush'[t].epoch = flush[t].epoch
      /\ flush'[t].before = flush[t].before
      /\ flush'[t].profile = flush[t].profile
    BY DEF OnlyTodo
<1>2. OldInWalk(t)'
    BY <1>1 DEF OldInWalk
<1> QED BY <1>1, <1>2 DEF EpochPast, NoNew

\* A step that frees samples, and moves none.
LEMMA WithoutSampleEpoch ==
    ASSUME Types, NEW x, samples' = WithoutSample(x),
           TrackedObjects' \subseteq TrackedObjects,
           NEW t \in Threads, flush'[t].held = flush[t].held,
           NEW o \in Objects, InWalk(t, o)'
    PROVE  /\ InWalk(t, o)
           /\ samples'[o].flush_epoch = samples[o].flush_epoch
<1>1. samples'[o] # NoSample /\ (o \in TrackedObjects \/ o = flush[t].held)
    BY DEF InWalk
<1>2. samples'[o] = samples[o]
    BY <1>1 DEF WithoutSample
<1> QED BY <1>1, <1>2 DEF InWalk

LEMMA FewerTracked ==
    ASSUME Types, NEW s \in Slots,
           heap_samples' = [heap_samples EXCEPT ![s] = NoObject]
    PROVE  TrackedObjects' \subseteq TrackedObjects
BY DEF Types, TrackedObjects, Tracked

LEMMA FreedEpoch ==
    ASSUME Types, NEW s \in Slots, MarkSampleValueAsFreed(s),
           UNCHANGED <<pc, current_flush_epoch>>,
           NEW t \in Threads, OldInWalk(t), EpochPast(t), NoNew(t)
    PROVE  OldInWalk(t)' /\ EpochPast(t)' /\ NoNew(t)'
<1>1. /\ OnlyTodo(flush[t], flush'[t])
      /\ flush'[t].held = flush[t].held
    BY UnlistedFacts DEF MarkSampleValueAsFreed, OnlyTodo
<1>2. /\ samples' = WithoutSample(heap_samples[s])
      /\ TrackedObjects' \subseteq TrackedObjects
    BY FewerTracked DEF MarkSampleValueAsFreed
<1>3. ASSUME NEW o \in Objects, InWalk(t, o)'
      PROVE  /\ InWalk(t, o)
             /\ samples'[o].flush_epoch = samples[o].flush_epoch
    BY <1>1, <1>2, <1>3, WithoutSampleEpoch
<1>4. Walking(t)' => Walking(t)
    BY DEF Walking
<1> QED BY <1>1, <1>3, <1>4, EpochKept

\* flush_each_sample takes what the walk of t may come to, if it is old.
LEMMA ProcessEpoch ==
    ASSUME Types, \A u \in Threads : OldInWalk(u) /\ EpochPast(u) /\ NoNew(u),
           NEW t \in Threads, NEW key \in Slots, NEW o \in Objects,
           NEW rest \in SUBSET Tracked, Process(t, key, o, rest),
           InWalk(t, o), Walking(t), status' = "ready",
           pc' = [pc EXCEPT ![t] = "walk"],
           current_flush_epoch' = current_flush_epoch
    PROVE  \A u \in Threads : OldInWalk(u)' /\ EpochPast(u)' /\ NoNew(u)'
<1>p. \/ UNCHANGED table_vars
      \/ /\ heap_samples' = [heap_samples EXCEPT ![key] = NoObject]
         /\ heap_samples_count' = heap_samples_count - 1
         /\ samples' = WithoutSample(o)
         /\ \A k \in Slots : heap_samples[k] = o => k = key
         /\ ~Validish(samples[o].allocated_value_weak)
         /\ UNCHANGED mark_table
    BY ProcessFacts, Zenon
<1>1. TrackedObjects' \subseteq TrackedObjects
  <2>1. CASE UNCHANGED table_vars
      BY <2>1 DEF table_vars, TrackedObjects, Tracked
  <2> QED BY <1>p, <2>1, FewerTracked
<1>2. \A x \in Objects : samples'[x] # NoSample => samples'[x] = samples[x]
    BY <1>p DEF WithoutSample, table_vars
<1>3. ASSUME NEW u \in Threads, flush'[u].held \in {flush[u].held, NoObject},
             NEW x \in Objects, InWalk(u, x)'
      PROVE  InWalk(u, x) /\ samples'[x].flush_epoch = samples[x].flush_epoch
    BY <1>1, <1>2, <1>3 DEF InWalk
<1>4. ASSUME NEW u \in Threads, u # t
      PROVE  OldInWalk(u)' /\ EpochPast(u)' /\ NoNew(u)'
  <2>1. \/ flush'[u] = flush[u] /\ UNCHANGED heap_samples
        \/ /\ flush'[u] = Unlisted(key)[u]
           /\ heap_samples' = [heap_samples EXCEPT ![key] = NoObject]
      BY <1>4, ProcessFacts
  <2>2. OnlyTodo(flush[u], flush'[u])
      BY <2>1, UnlistedFacts DEF OnlyTodo
  <2>3. ASSUME NEW x \in Objects, InWalk(u, x)'
        PROVE  /\ InWalk(u, x)
               /\ samples'[x].flush_epoch = samples[x].flush_epoch
      BY <1>3, <2>2, <2>3 DEF OnlyTodo
  <2>4. pc'[u] = pc[u] /\ (Walking(u)' => Walking(u))
      BY <1>4 DEF Types, Walking
  <2> QED BY <2>2, <2>3, <2>4, EpochKept
<1>5. OldInWalk(t)' /\ EpochPast(t)' /\ NoNew(t)'
  <2>1. /\ flush'[t].held = NoObject
        /\ flush'[t].epoch = flush[t].epoch
        /\ flush'[t].before = flush[t].before
      BY ProcessFacts
  <2>2. \/ flush'[t].profile = flush[t].profile
        \/ /\ flush'[t].profile = [flush[t].profile EXCEPT ![o] = OneMore(@)]
           /\ ~TooNew(t, o)
           /\ Validish(samples[o].allocated_value_weak)
           /\ UNCHANGED table_vars
      BY ProcessFacts
  <2>3. OldInWalk(t)'
      BY <1>3, <2>1 DEF OldInWalk
  <2>4. pc[t] # "idle"
      BY DEF Walking
  <2>5. EpochPast(t)'
      BY <2>1, <2>4 DEF EpochPast
  <2>6. ~TooNew(t, o) => samples[o].flush_epoch <= flush[t].epoch
    <3>1. samples[o] \in Sample /\ flush[t] \in Flush
        BY DEF InWalk, Types
    <3> QED BY <3>1 DEF Sample, Flush, TooNew
  <2>7. ~TooNew(t, o) => o \in flush[t].before
      BY <2>6 DEF OldInWalk
  <2>8. \A x \in Objects : x # o \/ TooNew(t, o) =>
            (flush'[t].profile[x] > 0 => flush[t].profile[x] > 0)
    <3>1. flush[t].profile \in [Objects -> Tally]
        BY FlushFields DEF Types
    <3>2. CASE flush'[t].profile = flush[t].profile
        BY <3>2
    <3>3. CASE /\ ~TooNew(t, o)
               /\ flush'[t].profile =
                      [flush[t].profile EXCEPT ![o] = OneMore(@)]
      <4>1. \A x \in Objects : x # o =>
                flush'[t].profile[x] = flush[t].profile[x]
          BY <3>1, <3>3
      <4> QED BY <3>3, <4>1
    <3> QED BY <2>2, <3>2, <3>3
  <2>9. NoNew(t)'
      BY <2>1, <2>7, <2>8 DEF NoNew
  <2> QED BY <2>3, <2>5, <2>9
<1> QED BY <1>4, <1>5

\* Every action keeps the epochs and the profiles of the flushes.
LEMMA EpochStep == Sound /\ EpochInv /\ [Next]_vars => EpochInv'
<1> DEFINE Good(t) == OldInWalk(t)' /\ EpochPast(t)' /\ NoNew(t)'
<1>s. SUFFICES ASSUME Sound, EpochInv, [Next]_vars,
                      status \in {"allocated", "ready"},
                      status' \in {"allocated", "ready"},
                      ~UNCHANGED vars
               PROVE  \A t \in Threads : Good(t)
  <2> SUFFICES ASSUME Sound, EpochInv, [Next]_vars,
                      ~(/\ status \in {"allocated", "ready"}
                        /\ status' \in {"allocated", "ready"}
                        /\ ~UNCHANGED vars)
               PROVE  EpochInv'
      BY DEF EpochInv, ProfileNoNew, NoNew
  <2>1. CASE UNCHANGED vars
      BY <2>1 DEF vars, table_vars, config_vars, EpochInv, ProfileNoNew,
                  OldInWalk, InWalk, EpochPast, Walking, TrackedObjects,
                  Tracked
  <2>2. ASSUME status \notin {"allocated", "ready"}, ~UNCHANGED vars
        PROVE  FALSE
      BY <2>2
      DEF Next, FlusherStep, vars, Initialize, GcBeforeInitialize,
          NewObjUntraced, NewObjNotSampled, NewObjDropped, NewObjSampled, Captured,
          Allocates, FreeObj, ForceRecycleObj, CompactObject, CompactRef,
          Start, Stop, SetMaxHeapSamples, GcFree, FlushBegin, FlushVisit,
          FlushYield, FlushResume, FlushResumeFreed, FlushResumeOrphaned,
          FlushEndWalk, FlushSerialized, FlushFinish, FlushFail, Running,
          Terminated
  <2>3. CASE status' \notin {"allocated", "ready"} /\ ~UNCHANGED vars
    <3>1. ProfileNoNew
        BY DEF EpochInv
    <3>2. CASE flush' = flush
        BY <2>3, <3>1, <3>2 DEF EpochInv, ProfileNoNew
    <3>3. ASSUME NEW t \in Threads, NEW s \in Slots, NEW o \in Objects,
                 NEW refs \in SUBSET Refs, NewObjSampled(t, s, o, refs)
          PROVE  EpochInv'
      <4>1. \A u \in Threads : OnlyTodo(flush[u], flush'[u])
          BY <3>3, ListedFacts DEF NewObjSampled, Captured, Sound
      <4> QED BY <2>3, <3>1, <4>1 DEF EpochInv, ProfileNoNew, OnlyTodo
    <3>4. status \in {"allocated", "ready"}
        BY <2>2, <2>3
    <3>5. \/ \E t \in Threads, s \in Slots, o \in Objects,
                 refs \in SUBSET Refs : NewObjSampled(t, s, o, refs)
          \/ GcBeforeInitialize \/ GcFree
          \/ \E t \in Threads : \/ \E s \in Slots : FlushVisit(t, s)
                                \/ FlushResume(t) \/ FlushResumeFreed(t)
                                \/ FlushResumeOrphaned(t)
      <4>1. ASSUME NEW t \in Threads, NEW s \in Slots, NEW o \in Objects,
                   \/ NewObjUntraced(t, s, o)
                   \/ NewObjNotSampled(t, s, o)
                   \/ NewObjDropped(t, s, o)
            PROVE  status' = status
          BY <4>1 DEF NewObjUntraced, NewObjNotSampled, NewObjDropped
      <4>2. ASSUME \/ \E s \in Slots : FreeObj(s) \/ ForceRecycleObj(s)
                   \/ \E from, to \in Slots : CompactObject(from, to)
                   \/ \E r, q \in Refs : CompactRef(r, q)
                   \/ Start \/ Stop \/ Terminated
                   \/ \E max \in MaxHeapSamples : SetMaxHeapSamples(max)
            PROVE  status' = status
          BY <4>2 DEF FreeObj, ForceRecycleObj, CompactObject, CompactRef,
                      Start, Stop, SetMaxHeapSamples, Terminated, vars
      <4>3. ASSUME NEW t \in Threads,
                   \/ FlushBegin(t) \/ \E s \in Slots : FlushYield(t, s)
                   \/ FlushEndWalk(t) \/ FlushSerialized(t)
                   \/ FlushFinish(t) \/ FlushFail(t)
            PROVE  status' = status
          BY <4>3 DEF FlushBegin, FlushYield, FlushEndWalk, FlushSerialized,
                      FlushFinish, FlushFail, FlushReturn
      <4>4. ASSUME NEW max \in MaxHeapSamples, Initialize(max)
            PROVE  status' = "ready"
          BY <4>4 DEF Initialize
      <4> QED BY <2>3, <3>4, <4>1, <4>2, <4>3, <4>4 DEF Next, FlusherStep
    <3>6. CASE GcBeforeInitialize \/ GcFree
        BY <3>2, <3>6 DEF GcBeforeInitialize, GcFree
    <3>7. ASSUME NEW t \in Threads,
                 \/ \E s \in Slots : FlushVisit(t, s)
                 \/ FlushResume(t) \/ FlushResumeFreed(t)
                 \/ FlushResumeOrphaned(t)
          PROVE  flush' = flush
        BY <2>3, <3>4, <3>7
        DEF FlushVisit, FlushResume, FlushResumeFreed, FlushResumeOrphaned,
            Process, Running
    <3> QED BY <3>2, <3>3, <3>5, <3>6, <3>7
  <2> QED BY <2>1, <2>2, <2>3
<1>t. Types /\ SoundKeys /\ Contexts
    BY <1>s DEF Sound
<1>g. \A t \in Threads : OldInWalk(t) /\ EpochPast(t) /\ NoNew(t)
    BY <1>s DEF EpochInv, ProfileNoNew, NoNew
<1>1. ASSUME NEW t \in Threads,
             UNCHANGED <<pc, current_flush_epoch, heap_samples, samples>>,
             flush'[t] = flush[t]
      PROVE  Good(t)
    BY <1>g, <1>1 DEF OldInWalk, InWalk, EpochPast, NoNew, Walking,
                      TrackedObjects, Tracked
<1>2. ASSUME \/ \E max \in MaxHeapSamples :
                   Initialize(max) \/ SetMaxHeapSamples(max)
             \/ Stop \/ \E s \in Slots : ForceRecycleObj(s)
             \/ GcBeforeInitialize \/ GcFree \/ Terminated
      PROVE  \A t \in Threads : Good(t)
    BY <1>s, <1>1, <1>2
    DEF Initialize, SetMaxHeapSamples, Stop, ForceRecycleObj,
        GcBeforeInitialize, GcFree, Terminated, table_vars, config_vars
<1>3. ASSUME NEW s \in Slots, UNCHANGED <<pc, current_flush_epoch>>,
             MarkSampleValueAsFreed(s) \/ UNCHANGED <<table_vars, flush>>
      PROVE  \A t \in Threads : Good(t)
    BY <1>t, <1>g, <1>1, <1>3, FreedEpoch DEF table_vars
<1>4. ASSUME NEW t \in Threads, NEW s \in Slots, NEW o \in Objects,
             \/ NewObjUntraced(t, s, o)
             \/ NewObjNotSampled(t, s, o)
             \/ NewObjDropped(t, s, o)
      PROVE  \A u \in Threads : Good(u)
    BY <1>3, <1>4 DEF NewObjUntraced, NewObjNotSampled, NewObjDropped,
                      Allocates, PurgeRecycled
<1>5. ASSUME NEW t \in Threads, NEW s \in Slots, NEW o \in Objects,
             NEW refs \in SUBSET Refs, NewObjSampled(t, s, o, refs),
             NEW u \in Threads
      PROVE  Good(u)
  <2> DEFINE new == [allocated_value_weak |-> s,
                     flush_epoch |-> current_flush_epoch,
                     refs |-> refs]
  <2>1. /\ UNCHANGED <<pc, current_flush_epoch>>
        /\ heap_samples' = [heap_samples EXCEPT ![s] = o]
        /\ samples' = [WithoutSample(Purged(s)) EXCEPT ![o] = new]
        /\ OnlyTodo(flush[u], flush'[u])
      BY <1>t, <1>5, ListedFacts DEF NewObjSampled, Captured, Allocates
  <2>2. new.flush_epoch = current_flush_epoch
      OBVIOUS
  <2> HIDE DEF new
  <2>3. samples'[o] = new
      BY <2>1 DEF WithoutSample
  <2>4. ASSUME NEW x \in Objects, x # o, InWalk(u, x)'
        PROVE  InWalk(u, x) /\ samples'[x].flush_epoch = samples[x].flush_epoch
    <3>1. samples'[x] = samples[x] /\ samples[x] # NoSample
        BY <2>1, <2>4 DEF InWalk, WithoutSample
    <3>2. x \in TrackedObjects' => x \in TrackedObjects
        BY <1>t, <2>1, <2>4 DEF TrackedObjects, Tracked, Types
    <3> QED BY <2>1, <2>4, <3>1, <3>2 DEF InWalk, OnlyTodo
  <2>5. EpochPast(u)'
      BY <1>g, <2>1 DEF EpochPast, OnlyTodo
  <2>6. NoNew(u)'
      BY <1>g, <2>1 DEF NoNew, OnlyTodo
  <2>7. OldInWalk(u)'
    <3> SUFFICES ASSUME Walking(u)', NEW x \in Objects, InWalk(u, x)',
                        samples'[x].flush_epoch <= flush'[u].epoch
                 PROVE  x \in flush'[u].before
        BY DEF OldInWalk
    <3>1. CASE x = o
      <4>1. flush[u].epoch < current_flush_epoch
          BY <1>g, <2>1 DEF EpochPast, Walking
      <4>2. flush[u].epoch \in Nat /\ current_flush_epoch \in Nat
          BY <1>t, FlushFields DEF Types
      <4> QED BY <2>1, <2>2, <2>3, <3>1, <4>1, <4>2 DEF OnlyTodo
    <3>2. CASE x # o
        BY <1>g, <2>1, <2>4, <3>2 DEF OldInWalk, OnlyTodo, Walking
    <3> QED BY <3>1, <3>2
  <2> QED BY <2>5, <2>6, <2>7
<1>6. ASSUME NEW s \in Slots, FreeObj(s) PROVE \A t \in Threads : Good(t)
    BY <1>3, <1>6 DEF FreeObj, FreeObjHook, config_vars
<1>7. ASSUME NEW from \in Slots, NEW to \in Slots, CompactObject(from, to),
             NEW u \in Threads
      PROVE  Good(u)
  <2>1. /\ UNCHANGED <<pc, current_flush_epoch>>
        /\ CompactHeapSample(from, to)
      BY <1>7 DEF CompactObject, config_vars
  <2>2. CASE heap_samples[from] = NoObject
      BY <1>1, <2>1, <2>2 DEF CompactHeapSample
  <2>3. CASE heap_samples[from] # NoObject
    <3> DEFINE o == heap_samples[from]
    <3>1. /\ heap_samples' = Rekeyed(from, to)
          /\ samples' = [samples EXCEPT ![o].allocated_value_weak = to]
          /\ flush' = Relisted(from, to)
          /\ o \in Objects /\ samples[o] # NoSample
      <4>1. from \in Tracked /\ o \in Objects
          BY <1>t, <2>3 DEF Tracked, Types
      <4>2. samples[o] # NoSample
          BY <1>t, <4>1 DEF SoundKeys
      <4> QED BY <2>1, <2>3, <4>1, <4>2 DEF CompactHeapSample, Relocated
    <3>2. OnlyTodo(flush[u], flush'[u])
        BY <1>t, <3>1, RelistedFacts
    <3>3. TrackedObjects' \subseteq TrackedObjects
        BY <1>t, <3>1 DEF Rekeyed, TrackedObjects, Tracked, Types
    <3>4. ASSUME NEW x \in Objects, samples'[x] # NoSample
          PROVE  /\ samples[x] # NoSample
                 /\ samples'[x].flush_epoch = samples[x].flush_epoch
        BY <1>t, <3>1, <3>4 DEF Types, Sample
    <3>5. ASSUME NEW x \in Objects, InWalk(u, x)'
          PROVE  /\ InWalk(u, x)
                 /\ samples'[x].flush_epoch = samples[x].flush_epoch
        BY <3>2, <3>3, <3>4, <3>5 DEF InWalk, OnlyTodo
    <3>6. Walking(u)' => Walking(u)
        BY <2>1 DEF Walking
    <3> QED BY <1>g, <2>1, <3>2, <3>5, <3>6, EpochKept
  <2> QED BY <2>2, <2>3
<1>8. ASSUME NEW r \in Refs, NEW q \in Refs, CompactRef(r, q),
             NEW u \in Threads
      PROVE  Good(u)
  <2>1. UNCHANGED <<pc, current_flush_epoch, heap_samples, flush>>
      BY <1>8 DEF CompactRef, config_vars
  <2>2. \A x \in TrackedObjects : x \in Objects /\ samples[x] \in Sample
      BY <1>t DEF SoundKeys, TrackedObjects, Tracked, Types
  <2>3. ASSUME NEW x \in Objects
        PROVE  /\ samples'[x] # NoSample => samples[x] # NoSample
               /\ samples'[x].flush_epoch = samples[x].flush_epoch
    <3>1. CASE x \in TrackedObjects
      <4>1. samples'[x] = [samples[x] EXCEPT !.refs = Renamed(@, r, q)]
          BY <1>8, <3>1 DEF CompactRef
      <4> QED BY <2>2, <3>1, <4>1 DEF Sample
    <3>2. CASE x \notin TrackedObjects
        BY <1>8, <3>2 DEF CompactRef
    <3> QED BY <3>1, <3>2
  <2>4. TrackedObjects' = TrackedObjects
      BY <2>1 DEF TrackedObjects, Tracked
  <2> QED BY <1>g, <2>1, <2>3, <2>4
          DEF OldInWalk, InWalk, EpochPast, NoNew, Walking
<1>9. ASSUME Start, NEW u \in Threads PROVE Good(u)
  <2>1. CASE ~MustClear
      BY <1>1, <1>9, <2>1 DEF Start
  <2>2. CASE MustClear
    <3>1. /\ pc'[u] = IF pc[u] = "yielded" THEN "orphaned" ELSE pc[u]
          /\ flush'[u] = [flush[u] EXCEPT !.todo = {}]
          /\ current_flush_epoch' = current_flush_epoch
        BY <1>t, <1>9, <2>2 DEF Start, Types
    <3>2. OnlyTodo(flush[u], [flush[u] EXCEPT !.todo = {}])
        BY <1>t, TodoOnly DEF Types
    <3>3. pc[u] # "walk"
        BY <1>9 DEF Start, Running, GvlFree
    <3>4. ~Walking(u)' /\ (pc'[u] # "idle" => pc[u] # "idle")
        BY <3>1, <3>3 DEF Walking
    <3> QED BY <1>g, <3>1, <3>2, <3>4
            DEF OnlyTodo, OldInWalk, EpochPast, NoNew
  <2> QED BY <2>1, <2>2
<1>10. ASSUME NEW t \in Threads, FlushBegin(t), NEW u \in Threads
       PROVE  Good(u)
  <2> DEFINE new == [NoFlush EXCEPT !.epoch = FlushEpoch, !.todo = Tracked,
                                    !.before = TrackedObjects]
  <2>1. /\ new.epoch = current_flush_epoch /\ new.before = TrackedObjects
        /\ new.held = NoObject /\ new.profile = EmptyProfile
      BY DEF NoFlush, FlushEpoch
  <2>2. /\ current_flush_epoch' = current_flush_epoch + 1
        /\ UNCHANGED <<heap_samples, samples>>
        /\ pc' = [pc EXCEPT ![t] = "walk"]
        /\ flush' = [flush EXCEPT ![t] = new]
        /\ TrackedObjects' = TrackedObjects
      BY <1>10 DEF FlushBegin, table_vars, TrackedObjects, Tracked
  <2> HIDE DEF new
  <2>3. current_flush_epoch \in Nat /\ flush[u].epoch \in Nat
      BY <1>t, FlushFields DEF Types
  <2>4. CASE u = t
    <3>1. flush'[u] = new
        BY <1>t, <2>2, <2>4 DEF Types
    <3>2. OldInWalk(u)'
        BY <2>1, <2>2, <3>1 DEF OldInWalk, InWalk
    <3>3. EpochPast(u)'
        BY <2>1, <2>2, <2>3, <3>1 DEF EpochPast
    <3>4. NoNew(u)'
        BY <2>1, <3>1 DEF NoNew, EmptyProfile
    <3> QED BY <3>2, <3>3, <3>4
  <2>5. CASE u # t
    <3>1. flush'[u] = flush[u] /\ pc'[u] = pc[u]
        BY <1>t, <2>2, <2>5 DEF Types
    <3>2. OldInWalk(u)' /\ NoNew(u)'
        BY <1>g, <2>2, <3>1 DEF OldInWalk, InWalk, NoNew, Walking
    <3>3. EpochPast(u)'
        BY <1>g, <2>2, <2>3, <3>1 DEF EpochPast
    <3> QED BY <3>2, <3>3
  <2> QED BY <2>4, <2>5
<1>11. ASSUME NEW t \in Threads, NEW s \in Slots, FlushVisit(t, s)
       PROVE  \A u \in Threads : Good(u)
  <2>1. /\ s \in flush[t].todo /\ pc[t] = "walk"
        /\ Process(t, s, heap_samples[s], flush[t].todo \ {s})
        /\ pc' = [pc EXCEPT ![t] = "walk"]
        /\ current_flush_epoch' = current_flush_epoch
        /\ status' = "ready"
      BY <1>t, <1>s, <1>11 DEF FlushVisit, Types, config_vars, Process
  <2>2. flush[t].todo \subseteq Tracked
      BY <1>t DEF Contexts, FlushContext
  <2>3. /\ heap_samples[s] \in Objects /\ heap_samples[s] \in TrackedObjects
        /\ flush[t].todo \ {s} \subseteq Tracked
        /\ samples[heap_samples[s]] # NoSample
      BY <1>t, <2>1, <2>2 DEF Types, Tracked, TrackedObjects, SoundKeys
  <2>4. InWalk(t, heap_samples[s]) /\ Walking(t)
      BY <2>1, <2>3 DEF InWalk, Walking
  <2> QED BY <1>t, <1>g, <2>1, <2>3, <2>4, ProcessEpoch
<1>12. ASSUME NEW t \in Threads, FlushResume(t)
       PROVE  \A u \in Threads : Good(u)
  <2>1. /\ pc[t] = "yielded" /\ samples[flush[t].held] # NoSample
        /\ Process(t, flush[t].key, flush[t].held, flush[t].todo)
        /\ pc' = [pc EXCEPT ![t] = "walk"]
        /\ current_flush_epoch' = current_flush_epoch
        /\ status' = "ready"
      BY <1>s, <1>12 DEF FlushResume, Running, config_vars, Process
  <2>2. /\ flush[t].held \in Objects /\ flush[t].key \in Slots
        /\ flush[t].todo \subseteq Tracked
      BY <1>t, <2>1, FlushFields DEF Types, Contexts, FlushContext
  <2>3. InWalk(t, flush[t].held) /\ Walking(t)
      BY <2>1, <2>2 DEF InWalk, Walking
  <2> QED BY <1>t, <1>g, <2>1, <2>2, <2>3, ProcessEpoch
<1>13. ASSUME NEW t \in Threads, NEW s \in Slots, FlushYield(t, s),
              NEW u \in Threads
       PROVE  Good(u)
  <2> DEFINE f == [flush[t] EXCEPT !.todo = @ \ {s}, !.key = s,
                                   !.held = heap_samples[s]]
  <2>1. /\ UNCHANGED <<heap_samples, samples, current_flush_epoch>>
        /\ pc' = [pc EXCEPT ![t] = "yielded"]
        /\ flush' = [flush EXCEPT ![t] = f]
        /\ pc[t] = "walk" /\ s \in flush[t].todo
        /\ TrackedObjects' = TrackedObjects
      BY <1>13 DEF FlushYield, table_vars, config_vars, TrackedObjects,
                   Tracked
  <2>2. /\ f.held = heap_samples[s] /\ f.epoch = flush[t].epoch
        /\ f.before = flush[t].before /\ f.profile = flush[t].profile
      BY <1>t DEF Types, Flush
  <2> HIDE DEF f
  <2>3. heap_samples[s] \in TrackedObjects
    <3>1. s \in Tracked
        BY <1>t, <2>1 DEF Contexts, FlushContext
    <3> QED BY <3>1 DEF TrackedObjects
  <2>4. CASE u = t
    <3>1. flush'[u] = f /\ Walking(u)
        BY <1>t, <2>1, <2>4 DEF Types, Walking
    <3>2. \A x \in Objects : InWalk(u, x)' => InWalk(u, x)
        BY <2>1, <2>2, <2>3, <3>1 DEF InWalk
    <3> QED BY <1>g, <2>1, <2>2, <2>4, <3>1, <3>2
            DEF OldInWalk, EpochPast, NoNew
  <2>5. CASE u # t
    <3>1. flush'[u] = flush[u] /\ pc'[u] = pc[u]
        BY <1>t, <2>1, <2>5 DEF Types
    <3> QED BY <1>g, <2>1, <3>1
            DEF OldInWalk, InWalk, NoNew, Walking, EpochPast
  <2> QED BY <2>4, <2>5
<1>14. ASSUME NEW t \in Threads, NEW u \in Threads,
              \/ FlushResumeFreed(t) \/ FlushResumeOrphaned(t)
              \/ FlushEndWalk(t) \/ FlushSerialized(t)
              \/ FlushFinish(t) \/ FlushFail(t)
       PROVE  Good(u)
  <2>1. /\ UNCHANGED <<heap_samples, samples, current_flush_epoch>>
        /\ TrackedObjects' = TrackedObjects
        /\ u # t => flush'[u] = flush[u] /\ pc'[u] = pc[u]
      BY <1>t, <1>14
      DEF FlushResumeFreed, FlushResumeOrphaned, FlushEndWalk,
          FlushSerialized, FlushFinish, FlushFail, FlushReturn, Destroyed,
          Types, table_vars, config_vars, TrackedObjects, Tracked
  <2>2. CASE u # t
      BY <1>g, <2>1, <2>2
      DEF OldInWalk, InWalk, NoNew, Walking, EpochPast
  <2>3. CASE u = t /\ (FlushFinish(t) \/ FlushFail(t))
    <3>1. pc'[t] = "idle" /\ flush'[t] = NoFlush
        BY <1>t, <2>3 DEF FlushFinish, FlushFail, FlushReturn, Destroyed,
                          Types
    <3> QED BY <2>3, <3>1 DEF OldInWalk, Walking, EpochPast, NoNew, NoFlush,
                              EmptyProfile
  <2>4. CASE u = t /\ (FlushEndWalk(t) \/ FlushSerialized(t))
    <3>1. /\ pc[t] # "idle" /\ pc'[t] \in {"serialize", "finish"}
          /\ flush'[t] = flush[t]
        BY <1>t, <2>4 DEF FlushEndWalk, FlushSerialized, Types
    <3> QED BY <1>g, <2>1, <2>4, <3>1
            DEF OldInWalk, Walking, EpochPast, NoNew
  <2>5. CASE u = t /\ (FlushResumeFreed(t) \/ FlushResumeOrphaned(t))
    <3> DEFINE f == Onward(t, flush[t].todo)
               o == flush[t].held
    <3>1. /\ f.held = NoObject /\ f.epoch = flush[t].epoch
          /\ f.before = flush[t].before /\ f.profile = flush[t].profile
          /\ \A n : LET g == [f EXCEPT !.profile[o] = n] IN
                /\ g.held = NoObject /\ g.epoch = f.epoch
                /\ g.before = f.before
                /\ g.profile = [f.profile EXCEPT ![o] = n]
        BY <1>t, OnwardFacts
    <3> HIDE DEF f
    <3>2. /\ pc[t] \in {"yielded", "orphaned"} /\ pc'[t] # "idle"
          /\ Walking(t)' => Walking(t)
          /\ \/ flush'[t] = f
             \/ /\ o \in flush[t].before
                /\ flush'[t] = [f EXCEPT !.profile[o] = OneMore(f.profile[o])]
        BY <1>s, <1>t, <2>5
        DEF FlushResumeFreed, FlushResumeOrphaned, Types, Walking, f
    <3>3. /\ flush'[t].held = NoObject
          /\ flush'[t].epoch = flush[t].epoch
          /\ flush'[t].before = flush[t].before
        BY <3>1, <3>2
    <3>4. NoNew(t)'
      <4>1. flush[t].profile \in [Objects -> Tally]
          BY <1>t, FlushFields DEF Types
      <4>2. CASE flush'[t] = f
          BY <1>g, <3>1, <4>2 DEF NoNew
      <4>3. CASE /\ o \in flush[t].before
                 /\ flush'[t].profile =
                        [flush[t].profile EXCEPT ![o] =
                            OneMore(flush[t].profile[o])]
        <5>1. \A x \in Objects : x # o =>
                  flush'[t].profile[x] = flush[t].profile[x]
            BY <4>1, <4>3
        <5> QED BY <1>g, <3>3, <4>3, <5>1 DEF NoNew
      <4> QED BY <3>1, <3>2, <4>2, <4>3
    <3>5. \A x \in Objects : InWalk(t, x)' => InWalk(t, x)
        BY <2>1, <3>3 DEF InWalk
    <3>6. OldInWalk(t)' /\ EpochPast(t)'
        BY <1>g, <2>1, <3>2, <3>3, <3>5 DEF OldInWalk, EpochPast
    <3> QED BY <2>5, <3>4, <3>6
  <2> QED BY <1>14, <2>2, <2>3, <2>4, <2>5
<1> QED
    BY <1>s, <1>2, <1>4, <1>5, <1>6, <1>7, <1>8, <1>9, <1>10, <1>11, <1>12,
       <1>13, <1>14
    DEF Next, FlusherStep

LEMMA EpochAlways == Spec => [](Sound /\ EpochInv)
<1>1. Init => EpochInv
    BY DEF Init, EpochInv, ProfileNoNew, OldInWalk, EpochPast, Walking,
           NoFlush, EmptyProfile
<1>2. Sound /\ EpochInv /\ [Next]_vars => (Sound /\ EpochInv)'
    BY TypesStep, ContextStep, KeysStep, EpochStep DEF Sound
<1> QED BY SoundInit, <1>1, <1>2, PTL DEF Spec

\* No allocation after a flush began is in its profile, though the flush
\* yields between two samples and compaction inserts samples again.
THEOREM ProfilesHaveNothingNew == Spec => []ProfileNoNew
<1>1. EpochInv => ProfileNoNew
    BY DEF EpochInv
<1> QED BY EpochAlways, <1>1, PTL

-----------------------------------------------------------------------------
(* The thread whose allocations are excluded                               *)

Excluding == flush_thread # NoThread => pc[flush_thread] # "idle"

LEMMA ExcludingStep == Sound /\ Excluding /\ [Next]_vars => Excluding'
<1> SUFFICES ASSUME Sound, Excluding, [Next]_vars
             PROVE  Excluding'
    OBVIOUS
<1>t. Types
    BY DEF Sound
<1>1. ASSUME UNCHANGED <<flush_thread, pc>>
      PROVE  Excluding'
    BY <1>1 DEF Excluding
<1>2. ASSUME NEW t \in Threads, NEW s \in Slots, NEW o \in Objects,
             \/ NewObjUntraced(t, s, o) \/ NewObjNotSampled(t, s, o)
             \/ NewObjDropped(t, s, o)
             \/ \E refs \in SUBSET Refs : NewObjSampled(t, s, o, refs)
      PROVE  Excluding'
    BY <1>1, <1>2
    DEF NewObjUntraced, NewObjNotSampled, NewObjDropped, NewObjSampled, Captured,
        Allocates
<1>3. ASSUME NEW s \in Slots,
             \/ FreeObj(s) \/ ForceRecycleObj(s)
             \/ \E to \in Slots : CompactObject(s, to)
      PROVE  Excluding'
    BY <1>1, <1>3 DEF FreeObj, ForceRecycleObj, CompactObject
<1>4. CASE \/ \E max \in MaxHeapSamples : Initialize(max)
           \/ \E max \in MaxHeapSamples : SetMaxHeapSamples(max)
           \/ \E r, q \in Refs : CompactRef(r, q)
           \/ GcBeforeInitialize \/ Stop \/ GcFree
           \/ Terminated \/ UNCHANGED vars
    BY <1>1, <1>4
    DEF Initialize, SetMaxHeapSamples, CompactRef, GcBeforeInitialize, Stop,
        GcFree, Terminated, vars
\* start! takes a walk its table, and not its thread.
<1>5. CASE Start
  <2>1. /\ flush_thread' = flush_thread
        /\ \/ pc' = pc
           \/ pc' = [t \in Threads |->
                       IF pc[t] = "yielded" THEN "orphaned" ELSE pc[t]]
      BY <1>5 DEF Start
  <2> QED BY <1>t, <2>1 DEF Excluding, Types
<1>6. ASSUME NEW t \in Threads, FlushBegin(t)
      PROVE  Excluding'
    BY <1>t, <1>6 DEF FlushBegin, Excluding, Types
\* A flush in progress stays in progress until it returns.
<1>7. ASSUME NEW t \in Threads,
             \/ \E s \in Slots : FlushVisit(t, s) \/ FlushYield(t, s)
             \/ FlushResume(t) \/ FlushResumeFreed(t)
             \/ FlushResumeOrphaned(t) \/ FlushEndWalk(t)
             \/ FlushSerialized(t)
      PROVE  Excluding'
  <2>1. /\ flush_thread' = flush_thread
        /\ \/ pc' = pc
           \/ \E c \in PC \ {"idle"} : pc' = [pc EXCEPT ![t] = c]
      BY <1>7
      DEF FlushVisit, FlushYield, FlushResume, FlushResumeFreed,
          FlushResumeOrphaned, FlushEndWalk, FlushSerialized, PC
  <2> QED BY <1>t, <2>1 DEF Excluding, Types
<1>8. ASSUME NEW t \in Threads, FlushFinish(t) \/ FlushFail(t)
      PROVE  Excluding'
    BY <1>8
    DEF FlushFinish, FlushFail, FlushReturn, FlushThreadAfter, Excluding
<1> QED
    BY <1>2, <1>3, <1>4, <1>5, <1>6, <1>7, <1>8 DEF Next, FlusherStep

\* No thread that is not flushing is left without samples, whatever flushes
\* overlap, raise or lose their table.
THEOREM OnlyFlushersAreExcluded == Spec => []ExcludesOnlyFlushers
<1>1. Init => Excluding
    BY DEF Init, Excluding
<1>2. Sound /\ Excluding /\ [Next]_vars => (Sound /\ Excluding)'
    BY TypesStep, ContextStep, KeysStep, ExcludingStep DEF Sound
<1>3. Excluding => ExcludesOnlyFlushers
    BY DEF Excluding, ExcludesOnlyFlushers
<1> QED BY SoundInit, <1>1, <1>2, <1>3, PTL DEF Spec

-----------------------------------------------------------------------------
(* The reference counts                                                    *)

\* What MarkTableCovers says of one VALUE.
CountedRef(r) == mark_table[r] >= Cardinality(Referencing(r))

LEMMA ReferencingFinite ==
    ASSUME Types, NEW r \in Refs
    PROVE  /\ Referencing(r) \subseteq Objects
           /\ IsFiniteSet(Referencing(r))
           /\ Cardinality(Referencing(r)) \in Nat
<1>1. Referencing(r) \subseteq Objects
    BY DEF Types, Referencing, TrackedObjects, Tracked
<1> QED BY <1>1, FiniteHeap, FS_Subset, FS_CardinalityType

\* The same after a step.
LEMMA ReferencingCardinality ==
    ASSUME Types', NEW r \in Refs
    PROVE  Cardinality(Referencing(r)') \in Nat
<1>1. Referencing(r)' \subseteq Objects
    BY DEF Types, Referencing, TrackedObjects, Tracked
<1>2. IsFiniteSet(Referencing(r)')
    BY ONLY <1>1, FiniteHeap, FS_Subset
<1> QED BY ONLY <1>2, FS_CardinalityType

\* The ways in which a step may change the refcount of a VALUE.
LEMMA RefcountChange ==
    ASSUME Types, Types', NEW r \in Refs, CountedRef(r),
           \/ /\ mark_table'[r] >= mark_table[r]
              /\ Referencing(r)' \subseteq Referencing(r)
           \/ /\ mark_table'[r] = mark_table[r] - 1
              /\ \E o \in Referencing(r) :
                    Referencing(r)' \subseteq Referencing(r) \ {o}
           \/ /\ mark_table'[r] = mark_table[r] + 1
              /\ \E o : Referencing(r)' \subseteq Referencing(r) \union {o}
           \/ /\ mark_table'[r] = mark_table[r]
              /\ \E p \in Referencing(r), o \in Objects :
                    Referencing(r)' \subseteq (Referencing(r) \ {p}) \union {o}
    PROVE  CountedRef(r)'
<1> DEFINE S == Referencing(r)
           T == Referencing(r)'
<1>1. mark_table[r] \in Int /\ mark_table'[r] \in Int
    BY DEF Types
<1>2. IsFiniteSet(S) /\ Cardinality(S) \in Nat /\ Cardinality(T) \in Nat
    BY ReferencingFinite, ReferencingCardinality
<1>3. mark_table[r] >= Cardinality(S)
    BY DEF CountedRef
<1>g. SUFFICES mark_table'[r] >= Cardinality(T)
    BY DEF CountedRef
<1>4. CASE mark_table'[r] >= mark_table[r] /\ T \subseteq S
  <2>1. Cardinality(T) <= Cardinality(S)
      BY <1>2, <1>4, CardinalitySteps
  <2> HIDE DEF S, T
  <2> QED BY <1>1, <1>2, <1>3, <1>4, <2>1
<1>5. CASE /\ mark_table'[r] = mark_table[r] - 1
           /\ \E o \in S : T \subseteq S \ {o}
  <2>1. Cardinality(T) <= Cardinality(S) - 1
      BY <1>2, <1>5, CardinalitySteps
  <2> HIDE DEF S, T
  <2> QED BY <1>1, <1>2, <1>3, <1>5, <2>1
<1>6. CASE /\ mark_table'[r] = mark_table[r] + 1
           /\ \E o : T \subseteq S \union {o}
  <2>1. Cardinality(T) <= Cardinality(S) + 1
      BY <1>2, <1>6, CardinalitySteps
  <2> HIDE DEF S, T
  <2> QED BY <1>1, <1>2, <1>3, <1>6, <2>1
<1>7. CASE /\ mark_table'[r] = mark_table[r]
           /\ \E p \in S, o \in Objects : T \subseteq (S \ {p}) \union {o}
  <2>1. PICK p \in S, o \in Objects : T \subseteq (S \ {p}) \union {o}
      BY <1>7
  <2> DEFINE U == S \ {p}
  <2>2. IsFiniteSet(U) /\ Cardinality(U) = Cardinality(S) - 1
      BY <1>2, <2>1, FS_RemoveElement
  <2>3. Cardinality(T) <= Cardinality(U) + 1
      BY <2>1, <2>2, CardinalitySteps
  <2> HIDE DEF S, T, U
  <2> QED BY <1>1, <1>2, <1>3, <1>7, <2>2, <2>3
<1> HIDE DEF S, T
<1> QED BY <1>4, <1>5, <1>6, <1>7 DEF S, T

\* Freeing the sample of an entry gives back exactly what it counted.
LEMMA FreedRefcount ==
    ASSUME Types, SoundKeys, Types', MarkTableCovers, NEW s \in Slots,
           MarkSampleValueAsFreed(s)
    PROVE  MarkTableCovers'
<1> SUFFICES ASSUME NEW r \in Refs PROVE CountedRef(r)'
    BY DEF MarkTableCovers, CountedRef
<1> DEFINE x == heap_samples[s]
<1>c. CountedRef(r)
    BY DEF MarkTableCovers, CountedRef
<1>m. mark_table[r] \in Int
    BY DEF Types
<1>1. CASE x = NoObject
  <2>1. Referencing(r)' \subseteq Referencing(r)
    <3>1. heap_samples' = heap_samples
        BY <1>1 DEF MarkSampleValueAsFreed, Types
    <3>2. \A o \in Objects : samples'[o] = samples[o]
        BY <1>1 DEF MarkSampleValueAsFreed, WithoutSample, Types
    <3> QED BY <3>1, <3>2 DEF Referencing, TrackedObjects, Tracked, Types
  <2>2. mark_table'[r] = mark_table[r]
      BY <1>1, <1>m DEF MarkSampleValueAsFreed, Recount, RefsOf
  <2> QED BY <1>c, <1>m, <2>1, <2>2, RefcountChange
<1>2. CASE x # NoObject
  <2>1. /\ heap_samples' = [heap_samples EXCEPT ![s] = NoObject]
        /\ samples' = WithoutSample(x)
        /\ mark_table'[r] = mark_table[r] - (IF r \in samples[x].refs
                                             THEN 1 ELSE 0)
      BY <1>2, <1>m DEF MarkSampleValueAsFreed, Recount, RefsOf
  <2>2. s \in Tracked /\ x \in Objects /\ x \in TrackedObjects
      BY <1>2 DEF Types, Tracked, TrackedObjects
  <2>3. Referencing(r)' \subseteq Referencing(r) \ {x}
    <3> SUFFICES ASSUME NEW o \in Referencing(r)'
                 PROVE  o \in Referencing(r) \ {x}
        OBVIOUS
    <3>1. PICK k \in Slots : heap_samples'[k] = o /\ o # NoObject
        BY DEF Referencing, TrackedObjects, Tracked
    <3>2. k # s /\ heap_samples[k] = o /\ k \in Tracked
        BY <2>1, <3>1 DEF Types, Tracked
    <3>3. o # x /\ o \in Objects /\ o \in TrackedObjects
        BY <2>2, <3>2, KeysInjective DEF Types, Tracked, TrackedObjects
    <3>4. samples'[o] = samples[o]
        BY <2>1, <3>3 DEF WithoutSample
    <3> QED BY <3>3, <3>4 DEF Referencing
  <2>4. CASE r \in samples[x].refs
    <3>1. x \in Referencing(r)
        BY <2>2, <2>4 DEF Referencing
    <3> QED BY <1>c, <2>1, <2>3, <2>4, <3>1, RefcountChange
  <2>5. CASE r \notin samples[x].refs
    <3>1. mark_table'[r] = mark_table[r]
        BY <1>m, <2>1, <2>5
    <3> QED BY <1>c, <1>m, <2>3, <3>1, RefcountChange
  <2> QED BY <2>4, <2>5
<1> QED BY <1>1, <1>2

\* flush_each_sample frees a sample without giving back what it counted.
LEMMA ProcessRefcount ==
    ASSUME Types, Types', MarkTableCovers, NEW t \in Threads,
           NEW key \in Slots, NEW o \in Objects, NEW rest,
           Process(t, key, o, rest)
    PROVE  MarkTableCovers'
<1> SUFFICES ASSUME NEW r \in Refs PROVE CountedRef(r)'
    BY DEF MarkTableCovers, CountedRef
<1>1. CountedRef(r) /\ mark_table[r] \in Int
    BY DEF MarkTableCovers, CountedRef, Types
<1>2. mark_table' = mark_table
    BY DEF Process, table_vars
<1>3. Referencing(r)' \subseteq Referencing(r)
  <2>1. CASE UNCHANGED table_vars
      BY <2>1 DEF Referencing, TrackedObjects, Tracked, table_vars
  <2>2. CASE /\ heap_samples' = [heap_samples EXCEPT ![key] = NoObject]
             /\ samples' = WithoutSample(o)
             /\ ~\E k \in Slots \ {key} : heap_samples[k] = o
    <3> SUFFICES ASSUME NEW x \in Referencing(r)'
                 PROVE  x \in Referencing(r)
        OBVIOUS
    <3>1. PICK k \in Slots : heap_samples'[k] = x /\ x # NoObject
        BY DEF Referencing, TrackedObjects, Tracked
    <3>2. k # key /\ heap_samples[k] = x /\ x # o /\ x \in Objects
        BY <2>2, <3>1 DEF Types
    <3>3. samples'[x] = samples[x] /\ x \in TrackedObjects
        BY <2>2, <3>1, <3>2 DEF WithoutSample, TrackedObjects, Tracked
    <3> QED BY <3>3 DEF Referencing
  <2> QED BY <2>1, <2>2 DEF Process
<1> QED BY <1>1, <1>2, <1>3, RefcountChange

\* Every action keeps the counts above the references.
LEMMA RefcountStep == Sound /\ Sound' /\ MarkTableCovers /\ [Next]_vars
                          => MarkTableCovers'
<1> SUFFICES ASSUME Sound, Sound', MarkTableCovers, [Next]_vars
             PROVE  MarkTableCovers'
    OBVIOUS
<1>t. Types /\ Types' /\ SoundKeys
    BY DEF Sound
<1>1. ASSUME UNCHANGED <<heap_samples, samples, mark_table>>
      PROVE  MarkTableCovers'
    BY <1>1 DEF MarkTableCovers, Referencing, TrackedObjects, Tracked
<1>2. ASSUME NEW s \in Slots,
             MarkSampleValueAsFreed(s) \/ UNCHANGED <<table_vars, flush>>
      PROVE  MarkTableCovers'
    BY <1>t, <1>1, <1>2, FreedRefcount DEF table_vars
<1>3. ASSUME NEW t \in Threads, NEW s \in Slots, NEW o \in Objects,
             \/ NewObjUntraced(t, s, o)
             \/ NewObjNotSampled(t, s, o)
             \/ NewObjDropped(t, s, o)
      PROVE  MarkTableCovers'
    BY <1>2, <1>3 DEF NewObjUntraced, NewObjNotSampled, NewObjDropped,
                      PurgeRecycled
<1>4. ASSUME NEW t \in Threads, NEW s \in Slots, NEW o \in Objects,
             NEW refs \in SUBSET Refs, NewObjSampled(t, s, o, refs)
      PROVE  MarkTableCovers'
  <2> SUFFICES ASSUME NEW r \in Refs PROVE CountedRef(r)'
      BY DEF MarkTableCovers, CountedRef
  <2> DEFINE new == Captured(s, refs)
             p == Purged(s)
  <2>1. /\ heap_samples' = [heap_samples EXCEPT ![s] = o]
        /\ samples' = [WithoutSample(p) EXCEPT ![o] = new]
        /\ mark_table' = Recount(RefsOf(p), refs)
        /\ samples[o] = NoSample
      BY <1>4 DEF NewObjSampled, Allocates, Fresh
  <2>2. new.refs = refs
      BY DEF Captured
  <2>3. p = NoObject \/ (p = heap_samples[s] /\ p \in Objects
                            /\ p \in TrackedObjects /\ s \in Tracked)
      BY <1>t DEF Purged, Types, TrackedObjects, Tracked
  <2> HIDE DEF new, p
  <2>4. samples'[o] = new
      BY <2>1 DEF WithoutSample
  <2>5. ASSUME NEW x \in Referencing(r)', x # o
        PROVE  x \in Referencing(r) /\ x # p
    <3>1. PICK k \in Slots : heap_samples'[k] = x /\ x # NoObject
        BY DEF Referencing, TrackedObjects, Tracked
    <3>2. /\ k # s /\ heap_samples[k] = x /\ k \in Tracked
          /\ x \in Objects /\ x \in TrackedObjects
        BY <1>t, <2>1, <2>5, <3>1 DEF Types, Tracked, TrackedObjects
    <3>3. x # p
        BY <1>t, <2>3, <3>1, <3>2, KeysInjective
    <3>4. samples'[x] = samples[x]
        BY <2>1, <2>5, <3>2, <3>3 DEF WithoutSample
    <3> QED BY <3>2, <3>3, <3>4 DEF Referencing
  <2>6. o \in Referencing(r)' => r \in refs
      BY <2>2, <2>4 DEF Referencing
  <2>7. CountedRef(r) /\ mark_table[r] \in Int
      BY <1>t DEF MarkTableCovers, CountedRef, Types
  <2>8. mark_table'[r] = mark_table[r] + (IF r \in refs THEN 1 ELSE 0)
                             - (IF r \in RefsOf(p) THEN 1 ELSE 0)
      BY <2>1 DEF Recount
  <2>9. r \in RefsOf(p) => p \in Referencing(r)
      BY <2>3 DEF RefsOf, Referencing
  <2>10. CASE r \in refs /\ r \in RefsOf(p)
    <3>1. mark_table'[r] = mark_table[r]
        BY <2>7, <2>8, <2>10
    <3>2. Referencing(r)' \subseteq (Referencing(r) \ {p}) \union {o}
        BY <2>5
    <3> QED BY <1>t, <2>7, <2>9, <2>10, <3>1, <3>2, RefcountChange
  <2>11. CASE r \in refs /\ r \notin RefsOf(p)
    <3>1. mark_table'[r] = mark_table[r] + 1
        BY <2>7, <2>8, <2>11
    <3>2. Referencing(r)' \subseteq Referencing(r) \union {o}
        BY <2>5
    <3> QED BY <1>t, <2>7, <3>1, <3>2, RefcountChange
  <2>12. CASE r \notin refs /\ r \in RefsOf(p)
    <3>1. mark_table'[r] = mark_table[r] - 1
        BY <2>7, <2>8, <2>12
    <3>2. Referencing(r)' \subseteq Referencing(r) \ {p}
        BY <2>5, <2>6, <2>12
    <3> QED BY <1>t, <2>7, <2>9, <2>12, <3>1, <3>2, RefcountChange
  <2>13. CASE r \notin refs /\ r \notin RefsOf(p)
    <3>1. mark_table'[r] = mark_table[r]
        BY <2>7, <2>8, <2>13
    <3>2. Referencing(r)' \subseteq Referencing(r)
        BY <2>5, <2>6, <2>13
    <3> QED BY <1>t, <2>7, <3>1, <3>2, RefcountChange
  <2> QED BY <2>10, <2>11, <2>12, <2>13
<1>5. ASSUME NEW s \in Slots, FreeObj(s) PROVE MarkTableCovers'
    BY <1>2, <1>5 DEF FreeObj, FreeObjHook
<1>6. ASSUME NEW from \in Slots, NEW to \in Slots, CompactObject(from, to)
      PROVE  MarkTableCovers'
  <2>1. CASE heap_samples[from] = NoObject
      BY <1>1, <1>6, <2>1 DEF CompactObject, CompactHeapSample
  <2>2. CASE heap_samples[from] # NoObject
    <3> DEFINE o == heap_samples[from]
    <3>1. /\ heap_samples' = Rekeyed(from, to)
          /\ samples' = [samples EXCEPT ![o].allocated_value_weak = to]
          /\ mark_table' = mark_table
          /\ from \in Tracked /\ o \in Objects
        BY <1>t, <1>6, <2>2
        DEF CompactObject, CompactHeapSample, Relocated, Tracked, Types
    <3>2. samples[o] \in Sample
        BY <1>t, <3>1 DEF Types, SoundKeys
    <3>3. TrackedObjects' \subseteq TrackedObjects
        BY <1>t, <3>1 DEF Rekeyed, TrackedObjects, Tracked, Types
    <3>4. [samples[o] EXCEPT !.allocated_value_weak = to].refs
              = samples[o].refs
        BY <3>2 DEF Sample
    <3>5. \A x \in Objects : samples'[x].refs = samples[x].refs
        BY <1>t, <3>1, <3>4 DEF Types
    <3>6. ASSUME NEW r \in Refs PROVE CountedRef(r)'
      <4>1. Referencing(r)' \subseteq Referencing(r)
          BY <1>t, <3>3, <3>5 DEF Referencing, TrackedObjects, Tracked, Types
      <4>2. CountedRef(r) /\ mark_table[r] \in Int
          BY <1>t DEF MarkTableCovers, CountedRef, Types
      <4> QED BY <1>t, <3>1, <4>1, <4>2, RefcountChange
    <3> QED BY <3>6 DEF MarkTableCovers, CountedRef
  <2> QED BY <2>1, <2>2
\* The references to r become references to q, which had none.
<1>7. ASSUME NEW r \in Refs, NEW q \in Refs, CompactRef(r, q)
      PROVE  MarkTableCovers'
  <2>1. /\ TrackedObjects' = TrackedObjects
        /\ mark_table[r] > 0 /\ mark_table[q] = 0
        /\ mark_table' = [mark_table EXCEPT ![r] = 0, ![q] = @ + mark_table[r]]
      BY <1>7 DEF CompactRef, Carried, TrackedObjects, Tracked
  <2>2. r # q
      BY <2>1
  <2>3. \A n \in Refs : CountedRef(n) /\ mark_table[n] \in Int
      BY <1>t DEF MarkTableCovers, CountedRef, Types
  <2>4. ASSUME NEW x \in TrackedObjects
        PROVE  samples'[x].refs = Renamed(samples[x].refs, r, q)
    <3>1. x \in Objects /\ samples[x] \in Sample
        BY <1>t DEF SoundKeys, TrackedObjects, Tracked, Types
    <3>2. samples'[x] = [samples[x] EXCEPT !.refs = Renamed(@, r, q)]
        BY <1>7, <3>1 DEF CompactRef
    <3> QED BY <3>1, <3>2 DEF Sample
  <2>5. Referencing(q) = {}
    <3>1. Cardinality(Referencing(q)) = 0
        BY <1>t, <2>1, <2>3, ReferencingFinite DEF CountedRef
    <3> QED BY <1>t, <3>1, ReferencingFinite, FS_EmptySet
  <2>6. Referencing(q)' = Referencing(r)
      BY <2>1, <2>2, <2>4, <2>5 DEF Referencing, Renamed
  <2>7. Referencing(r)' = {}
      BY <2>1, <2>2, <2>4 DEF Referencing, Renamed
  <2>8. ASSUME NEW n \in Refs PROVE CountedRef(n)'
    <3>1. CASE n = q
      <4>1. mark_table'[q] = mark_table[r]
          BY <1>t, <2>1, <2>2, <2>3 DEF Types
      <4> QED BY <2>3, <2>6, <3>1, <4>1 DEF CountedRef
    <3>2. CASE n = r
      <4>1. mark_table'[r] = 0
          BY <1>t, <2>1, <2>2 DEF Types
      <4>2. Cardinality(Referencing(r)') = 0
          BY <2>7, FS_EmptySet
      <4> QED BY <3>2, <4>1, <4>2 DEF CountedRef
    <3>3. CASE n # q /\ n # r
      <4>1. mark_table'[n] = mark_table[n]
          BY <1>t, <2>1, <3>3 DEF Types
      <4>2. Referencing(n)' = Referencing(n)
          BY <2>1, <2>4, <3>3 DEF Referencing, Renamed
      <4> QED BY <2>3, <4>1, <4>2 DEF CountedRef
    <3> QED BY <3>1, <3>2, <3>3
  <2> QED BY <2>8 DEF MarkTableCovers, CountedRef
\* The table is freed with its entries, mark_table stays.
<1>8. ASSUME heap_samples' = [s \in Slots |-> NoObject],
             mark_table' = mark_table
      PROVE  MarkTableCovers'
  <2> SUFFICES ASSUME NEW r \in Refs PROVE CountedRef(r)'
      BY DEF MarkTableCovers, CountedRef
  <2>1. Referencing(r)' \subseteq Referencing(r)
      BY <1>8 DEF Referencing, TrackedObjects, Tracked
  <2>2. CountedRef(r) /\ mark_table[r] \in Int
      BY <1>t DEF MarkTableCovers, CountedRef, Types
  <2> QED BY <1>t, <1>8, <2>1, <2>2, RefcountChange
<1>9. CASE Start
    BY <1>1, <1>8, <1>9 DEF Start
<1>10. CASE GcFree
    BY <1>8, <1>10 DEF GcFree
<1>11. ASSUME NEW t \in Threads, NEW s \in Slots, FlushVisit(t, s)
       PROVE  MarkTableCovers'
  <2>1. flush[t].todo \subseteq Tracked /\ s \in flush[t].todo
      BY <1>11 DEF FlushVisit, Sound, Contexts, FlushContext
  <2>2. heap_samples[s] \in Objects
      BY <1>t, <2>1 DEF Types, Tracked
  <2>3. Process(t, s, heap_samples[s], flush[t].todo \ {s})
      BY <1>11 DEF FlushVisit
  <2> QED BY <1>t, <2>2, <2>3, ProcessRefcount
<1>12. ASSUME NEW t \in Threads, FlushResume(t) PROVE MarkTableCovers'
  <2>1. /\ Contexts /\ pc[t] = "yielded"
        /\ Process(t, flush[t].key, flush[t].held, flush[t].todo)
      BY <1>12 DEF FlushResume, Running, Sound
  <2>2. flush[t].held \in Objects /\ flush[t].key \in Slots
      BY <1>t, <2>1, FlushFields DEF Types, Contexts, FlushContext
  <2> QED BY <1>t, <2>1, <2>2, ProcessRefcount
<1>13. ASSUME \/ \E max \in MaxHeapSamples :
                    Initialize(max) \/ SetMaxHeapSamples(max)
              \/ GcBeforeInitialize \/ Stop \/ Terminated
              \/ \E s \in Slots : ForceRecycleObj(s)
              \/ UNCHANGED vars
       PROVE  MarkTableCovers'
    BY <1>1, <1>13
    DEF Initialize, SetMaxHeapSamples, GcBeforeInitialize, Stop, Terminated,
        ForceRecycleObj, table_vars, vars
<1>14. ASSUME NEW t \in Threads,
              \/ FlushBegin(t) \/ \E s \in Slots : FlushYield(t, s)
              \/ FlushResumeFreed(t) \/ FlushResumeOrphaned(t)
              \/ FlushEndWalk(t) \/ FlushSerialized(t)
              \/ FlushFinish(t) \/ FlushFail(t)
       PROVE  MarkTableCovers'
    BY <1>1, <1>14
    DEF FlushBegin, FlushYield, FlushResumeFreed, FlushResumeOrphaned,
        FlushEndWalk, FlushSerialized, FlushFinish, FlushFail, FlushReturn,
        table_vars
<1> QED
    BY <1>3, <1>4, <1>5, <1>6, <1>7, <1>9, <1>10, <1>11, <1>12, <1>13, <1>14
    DEF Next, FlusherStep

\* The GC is never told too little: as long as a sample in the table
\* references a VALUE, mark_table counts it, on every Ruby, in every order of
\* hooks, compactions, restarts and half-done flushes.
THEOREM ReferencedAreMarked == Spec => []MarkTableCovers
<1>1. Init => MarkTableCovers
  <2> SUFFICES ASSUME Init PROVE MarkTableCovers
      OBVIOUS
  <2>1. \A r \in Refs : Referencing(r) = {} /\ mark_table[r] = 0
      BY DEF Init, Referencing, TrackedObjects, Tracked
  <2> QED BY <2>1, FS_EmptySet DEF MarkTableCovers
<1>2. Sound /\ MarkTableCovers /\ [Next]_vars => (Sound /\ MarkTableCovers)'
    BY TypesStep, ContextStep, KeysStep, RefcountStep DEF Sound
<1> QED BY SoundInit, <1>1, <1>2, PTL DEF Spec

-----------------------------------------------------------------------------
(* The table without GC.compact                                            *)

\* Nothing happens any more once the collector or the process is gone.
LEMMA StillAlive ==
    ASSUME [Next]_vars, status' \in {"allocated", "ready"}
    PROVE  status \in {"allocated", "ready"}
BY DEF Next, FlusherStep, vars, Initialize, GcBeforeInitialize,
       NewObjUntraced, NewObjNotSampled, NewObjDropped, NewObjSampled,
       Allocates, FreeObj, ForceRecycleObj, CompactObject, CompactRef, Start,
       Stop, SetMaxHeapSamples, GcFree, FlushBegin, FlushVisit, FlushYield,
       FlushResume, FlushResumeFreed, FlushResumeOrphaned, FlushEndWalk,
       FlushSerialized, FlushFinish, FlushFail, Running, Terminated

\* Why nothing leaks and the count is exact, in any state but the last one of
\* a process that is lost: an entry is only deleted along with the sample it
\* leads to.  A compaction onto an entry that dangles would break it.
Reachable == \A o \in Objects : samples[o] # NoSample => o \in TrackedObjects
Counted == heap_samples_count = Cardinality(Tracked)

TableInv ==
    ~Movable /\ status \in {"allocated", "ready"} => Reachable /\ Counted

LEMMA TrackedFinite ==
    IsFiniteSet(Tracked) /\ Cardinality(Tracked) \in Nat
<1>1. Tracked \subseteq Slots
    BY DEF Tracked
<1> QED BY <1>1, FiniteHeap, FS_Subset, FS_CardinalityType

\* One entry and its sample go.
LEMMA EntryGone ==
    ASSUME Types, SoundKeys, Reachable, Counted, NEW s \in Tracked,
           heap_samples' = [heap_samples EXCEPT ![s] = NoObject],
           heap_samples_count' = heap_samples_count - 1,
           samples' = WithoutSample(heap_samples[s])
    PROVE  Reachable' /\ Counted'
<1>1. s \in Slots /\ Tracked' = Tracked \ {s}
    BY DEF Types, Tracked
<1>2. Counted'
  <2>1. Cardinality(Tracked') = Cardinality(Tracked) - 1
      BY <1>1, TrackedFinite, FS_RemoveElement
  <2> QED BY <2>1 DEF Counted
<1>3. ASSUME NEW o \in Objects, samples'[o] # NoSample
      PROVE  o \in TrackedObjects'
  <2>1. o # heap_samples[s] /\ samples[o] # NoSample
      BY <1>3 DEF WithoutSample
  <2>2. PICK k \in Tracked : heap_samples[k] = o
      BY <2>1 DEF Reachable, TrackedObjects
  <2>3. k # s /\ k \in Slots /\ k \in Tracked'
      BY <1>1, <2>1, <2>2 DEF Tracked
  <2>4. heap_samples'[k] = o
      BY <2>2, <2>3 DEF Types
  <2> QED BY <2>3, <2>4 DEF TrackedObjects
<1> QED BY <1>2, <1>3 DEF Reachable

LEMMA FreedTable ==
    ASSUME Types, SoundKeys, Reachable, Counted, NEW s \in Slots,
           MarkSampleValueAsFreed(s)
    PROVE  Reachable' /\ Counted'
<1>1. CASE s \in Tracked
  <2>1. heap_samples[s] # NoObject
      BY <1>1 DEF Tracked
  <2>2. /\ heap_samples' = [heap_samples EXCEPT ![s] = NoObject]
        /\ heap_samples_count' = heap_samples_count - 1
        /\ samples' = WithoutSample(heap_samples[s])
      BY <2>1 DEF MarkSampleValueAsFreed, CountWithout
  <2> QED BY <1>1, <2>2, EntryGone
<1>2. CASE s \notin Tracked
  <2>1. heap_samples[s] = NoObject
      BY <1>2 DEF Tracked
  <2>2. /\ heap_samples' = heap_samples
        /\ heap_samples_count' = heap_samples_count
        /\ \A o \in Objects : samples'[o] = samples[o]
      BY <2>1 DEF MarkSampleValueAsFreed, CountWithout, WithoutSample, Types
  <2>3. Tracked' = Tracked /\ TrackedObjects' = TrackedObjects
      BY <2>2 DEF Tracked, TrackedObjects
  <2> QED BY <2>2, <2>3 DEF Reachable, Counted
<1> QED BY <1>1, <1>2

\* The entry that flush_each_sample deletes is the one of the sample that it
\* frees, also after a yield: the sample has no other.
LEMMA ProcessTable ==
    ASSUME Types, SoundKeys, Reachable, Counted, NEW t \in Threads,
           NEW key \in Slots, NEW o \in Objects, NEW rest \in SUBSET Tracked,
           samples[o] # NoSample, Process(t, key, o, rest), status' = "ready"
    PROVE  Reachable' /\ Counted'
<1>1. \/ UNCHANGED table_vars
      \/ /\ heap_samples' = [heap_samples EXCEPT ![key] = NoObject]
         /\ heap_samples_count' = heap_samples_count - 1
         /\ samples' = WithoutSample(o)
         /\ \A k \in Slots : heap_samples[k] = o => k = key
         /\ ~Validish(samples[o].allocated_value_weak)
         /\ UNCHANGED mark_table
    BY ProcessFacts, Zenon
<1>2. CASE UNCHANGED table_vars
  <2>1. Tracked' = Tracked /\ TrackedObjects' = TrackedObjects
      BY <1>2 DEF Tracked, TrackedObjects, table_vars
  <2> QED BY <1>2, <2>1 DEF Reachable, Counted, table_vars
<1>3. CASE /\ heap_samples' = [heap_samples EXCEPT ![key] = NoObject]
           /\ heap_samples_count' = heap_samples_count - 1
           /\ samples' = WithoutSample(o)
           /\ \A k \in Slots : heap_samples[k] = o => k = key
  <2>1. PICK k \in Tracked : heap_samples[k] = o
      BY DEF Reachable, TrackedObjects
  <2>2. k = key
      BY <1>3, <2>1 DEF Tracked
  <2> QED BY <1>3, <2>1, <2>2, EntryGone
<1> QED BY <1>1, <1>2, <1>3

LEMMA TableStep == Sound /\ TableInv /\ [Next]_vars => TableInv'
<1> SUFFICES ASSUME Sound, TableInv, [Next]_vars, ~Movable,
                    status' \in {"allocated", "ready"}
             PROVE  Reachable' /\ Counted'
    BY DEF TableInv
<1>t. Types /\ SoundKeys /\ Contexts /\ Reachable /\ Counted
    BY StillAlive DEF Sound, TableInv
<1>1. ASSUME UNCHANGED <<heap_samples, heap_samples_count, samples>>
      PROVE  Reachable' /\ Counted'
  <2>1. Tracked' = Tracked /\ TrackedObjects' = TrackedObjects
      BY <1>1 DEF Tracked, TrackedObjects
  <2> QED BY <1>t, <1>1, <2>1 DEF Reachable, Counted
<1>2. ASSUME NEW s \in Slots,
             MarkSampleValueAsFreed(s) \/ UNCHANGED <<table_vars, flush>>
      PROVE  Reachable' /\ Counted'
    BY <1>t, <1>1, <1>2, FreedTable DEF table_vars
<1>3. ASSUME NEW t \in Threads, NEW s \in Slots, NEW o \in Objects,
             \/ NewObjUntraced(t, s, o)
             \/ NewObjNotSampled(t, s, o)
             \/ NewObjDropped(t, s, o)
      PROVE  Reachable' /\ Counted'
    BY <1>2, <1>3 DEF NewObjUntraced, NewObjNotSampled, NewObjDropped,
                      PurgeRecycled
\* The new entry takes the place of the purged one, or of none.
<1>4. ASSUME NEW t \in Threads, NEW s \in Slots, NEW o \in Objects,
             NEW refs \in SUBSET Refs, NewObjSampled(t, s, o, refs)
      PROVE  Reachable' /\ Counted'
  <2> DEFINE p == Purged(s)
  <2>1. /\ heap_samples' = [heap_samples EXCEPT ![s] = o]
        /\ heap_samples_count' = CountWithout(p) + 1
        /\ samples' = [WithoutSample(p) EXCEPT ![o] = Captured(s, refs)]
        /\ heap_samples[s] = NoObject \/ heap_samples[s] = p
    <3>1. /\ heap_samples' = [heap_samples EXCEPT ![s] = o]
          /\ heap_samples_count' = CountWithout(p) + 1
          /\ samples' = [WithoutSample(p) EXCEPT ![o] = Captured(s, refs)]
        BY <1>4 DEF NewObjSampled, CountAfterPurge
    <3>2. heap_samples[s] \in {NoObject, p}
        BY <1>4 DEF NewObjSampled
    <3> QED BY <3>1, <3>2
  <2>2. p = NoObject \/ p = heap_samples[s]
      BY DEF Purged
  <2>3. Tracked' = Tracked \union {s}
      BY <1>t, <2>1 DEF Tracked, Types
  <2> HIDE DEF p
  <2>4. Counted'
    <3>1. Cardinality(Tracked') = IF s \in Tracked THEN Cardinality(Tracked)
                                  ELSE Cardinality(Tracked) + 1
        BY <2>3, TrackedFinite, FS_AddElement
    <3>2. CASE s \in Tracked
      <4>1. p = heap_samples[s] /\ p # NoObject
          BY <2>1, <3>2 DEF Tracked
      <4>2. heap_samples_count' = heap_samples_count - 1 + 1
          BY <2>1, <4>1 DEF CountWithout
      <4>3. heap_samples_count \in Int
          BY <1>t DEF Types
      <4> QED BY <1>t, <3>1, <3>2, <4>2, <4>3 DEF Counted
    <3>3. CASE s \notin Tracked
      <4>1. p = NoObject
          BY <2>2, <3>3 DEF Tracked
      <4>2. heap_samples_count' = heap_samples_count + 1
          BY <2>1, <4>1 DEF CountWithout
      <4> QED BY <1>t, <3>1, <3>3, <4>2 DEF Counted
    <3> QED BY <3>2, <3>3
  <2>5. ASSUME NEW x \in Objects, samples'[x] # NoSample
        PROVE  x \in TrackedObjects'
    <3>1. CASE x = o
      <4>1. s \in Tracked' /\ heap_samples'[s] = o
          BY <1>t, <2>1, <2>3 DEF Types
      <4> QED BY <3>1, <4>1 DEF TrackedObjects
    <3>2. CASE x # o
      <4>1. samples[x] # NoSample /\ x # p
          BY <2>1, <2>5, <3>2 DEF WithoutSample
      <4>2. PICK k \in Tracked : heap_samples[k] = x
          BY <1>t, <4>1 DEF Reachable, TrackedObjects
      <4>3. k # s /\ k \in Slots
          BY <2>1, <4>1, <4>2 DEF Tracked
      <4>4. heap_samples'[k] = x /\ k \in Tracked'
          BY <1>t, <2>1, <2>3, <4>2, <4>3 DEF Types
      <4> QED BY <4>4 DEF TrackedObjects
    <3> QED BY <3>1, <3>2
  <2> QED BY <2>4, <2>5 DEF Reachable
<1>5. ASSUME NEW s \in Slots, FreeObj(s) PROVE Reachable' /\ Counted'
    BY <1>2, <1>5 DEF FreeObj, FreeObjHook
<1>6. CASE Start
  <2>1. CASE ~MustClear
      BY <1>1, <1>6, <2>1 DEF Start
  <2>2. CASE MustClear
    <3>1. /\ Tracked' = {} /\ heap_samples_count' = 0
          /\ samples' = [o \in Objects |->
                           IF o \in TrackedObjects THEN NoSample
                                                   ELSE samples[o]]
        BY <1>6, <2>2 DEF Start, Tracked
    <3>2. Counted'
        BY <3>1, FS_EmptySet DEF Counted
    <3>3. Reachable'
        BY <1>t, <3>1 DEF Reachable
    <3> QED BY <3>2, <3>3
  <2> QED BY <2>1, <2>2
<1>7. ASSUME NEW t \in Threads, NEW s \in Slots, FlushVisit(t, s)
      PROVE  Reachable' /\ Counted'
  <2>1. /\ s \in flush[t].todo /\ flush[t].todo \subseteq Tracked
        /\ Process(t, s, heap_samples[s], flush[t].todo \ {s})
        /\ status' = "ready"
    <3>1. status = "ready" /\ s \in flush[t].todo
          /\ Process(t, s, heap_samples[s], flush[t].todo \ {s})
        BY <1>7 DEF FlushVisit
    <3>2. status' = "ready"
        BY <3>1 DEF Process
    <3> QED BY <1>t, <3>1, <3>2 DEF Contexts, FlushContext
  <2>2. /\ heap_samples[s] \in Objects /\ s \in Slots
        /\ samples[heap_samples[s]] # NoSample
        /\ flush[t].todo \ {s} \subseteq Tracked
      BY <1>t, <2>1 DEF Types, Tracked, SoundKeys
  <2> QED BY <1>t, <2>1, <2>2, ProcessTable
<1>8. ASSUME NEW t \in Threads, FlushResume(t)
      PROVE  Reachable' /\ Counted'
  <2>1. /\ pc[t] = "yielded" /\ samples[flush[t].held] # NoSample
        /\ Process(t, flush[t].key, flush[t].held, flush[t].todo)
        /\ status = "ready"
      BY <1>8 DEF FlushResume, Running
  <2>2. status' = "ready"
      BY <2>1 DEF Process
  <2>3. /\ flush[t].held \in Objects /\ flush[t].key \in Slots
        /\ flush[t].todo \subseteq Tracked
      BY <1>t, <2>1, FlushFields DEF Types, Contexts, FlushContext
  <2> QED BY <1>t, <2>1, <2>2, <2>3, ProcessTable
<1>9. ASSUME \/ \E max \in MaxHeapSamples :
                   Initialize(max) \/ SetMaxHeapSamples(max)
             \/ GcBeforeInitialize \/ Stop \/ Terminated
             \/ \E s \in Slots : ForceRecycleObj(s)
             \/ UNCHANGED vars
      PROVE  Reachable' /\ Counted'
    BY <1>1, <1>9
    DEF Initialize, SetMaxHeapSamples, GcBeforeInitialize, Stop, Terminated,
        ForceRecycleObj, table_vars, vars
<1>10. ASSUME NEW t \in Threads,
              \/ FlushBegin(t) \/ \E s \in Slots : FlushYield(t, s)
              \/ FlushResumeFreed(t) \/ FlushResumeOrphaned(t)
              \/ FlushEndWalk(t) \/ FlushSerialized(t)
              \/ FlushFinish(t) \/ FlushFail(t)
       PROVE  Reachable' /\ Counted'
    BY <1>1, <1>10
    DEF FlushBegin, FlushYield, FlushResumeFreed, FlushResumeOrphaned,
        FlushEndWalk, FlushSerialized, FlushFinish, FlushFail, FlushReturn,
        table_vars
<1>11. ~\E from, to \in Slots : CompactObject(from, to)
    BY DEF CompactObject
<1>12. ~\E r, q \in Refs : CompactRef(r, q)
    BY DEF CompactRef
<1>13. ~GcFree
    BY DEF GcFree
<1> QED
    BY <1>3, <1>4, <1>5, <1>6, <1>7, <1>8, <1>9, <1>10, <1>11, <1>12, <1>13
    DEF Next, FlusherStep

LEMMA TableAlways == Spec => [](Sound /\ TableInv)
<1>1. Init => TableInv
  <2> SUFFICES ASSUME Init PROVE TableInv
      OBVIOUS
  <2>1. Tracked = {} /\ heap_samples_count = 0
        /\ \A o \in Objects : samples[o] = NoSample
      BY DEF Init, Tracked
  <2> QED BY <2>1, FS_EmptySet DEF TableInv, Reachable, Counted
<1>2. Sound /\ TableInv /\ [Next]_vars => (Sound /\ TableInv)'
    BY TypesStep, ContextStep, KeysStep, TableStep DEF Sound
<1> QED BY SoundInit, <1>1, <1>2, PTL DEF Spec

\* On a Ruby without GC.compact, no sample is ever out of reach of the table,
\* and so of the hook, the flush or the collector's end that frees it.
THEOREM NothingLeaks ==
    ASSUME ~Movable
    PROVE  Spec => []NoSampleLeak
<1>1. TableInv => NoSampleLeak
    BY DEF TableInv, Reachable, NoSampleLeak
<1> QED BY TableAlways, <1>1, PTL

\* On a Ruby without GC.compact, heap_samples_count is the number of entries
\* in heap_samples whenever the GVL may change hands.
THEOREM CountIsExact ==
    ASSUME ~Movable
    PROVE  Spec => []CountExact
<1>1. TableInv => CountExact
    BY DEF TableInv, Counted, CountExact
<1> QED BY TableAlways, <1>1, PTL

-----------------------------------------------------------------------------
(* What a flush adds to its profile                                        *)

\* Only a flush with proactively_yield_gvl: true is ever suspended in its walk.
NoYield == ~Proactive => \A t \in Threads : pc[t] \notin {"yielded", "orphaned"}

LEMMA NoYieldStep == Sound /\ NoYield /\ [Next]_vars => NoYield'
<1> SUFFICES ASSUME Sound, NoYield, [Next]_vars, ~Proactive
             PROVE  \A t \in Threads : pc'[t] \notin {"yielded", "orphaned"}
    BY DEF NoYield
<1>t. pc \in [Threads -> PC]
    BY DEF Sound, Types
<1>g. \A t \in Threads : pc[t] \notin {"yielded", "orphaned"}
    BY DEF NoYield
<1>1. CASE pc' = pc
    BY <1>g, <1>1
<1>2. ASSUME NEW t \in Threads,
             \E c \in {"idle", "walk", "serialize", "finish"} :
                 pc' = [pc EXCEPT ![t] = c]
      PROVE  \A u \in Threads : pc'[u] \notin {"yielded", "orphaned"}
    BY <1>t, <1>g, <1>2
<1>3. CASE Start
    BY <1>g, <1>3 DEF Start
<1>4. CASE \/ \E t \in Threads, s \in Slots, o \in Objects :
                 \/ NewObjUntraced(t, s, o) \/ NewObjNotSampled(t, s, o)
                 \/ NewObjDropped(t, s, o)
                 \/ \E refs \in SUBSET Refs : NewObjSampled(t, s, o, refs)
           \/ \E s \in Slots : FreeObj(s) \/ ForceRecycleObj(s)
           \/ \E from, to \in Slots : CompactObject(from, to)
           \/ \E r, q \in Refs : CompactRef(r, q)
           \/ \E max \in MaxHeapSamples :
                 Initialize(max) \/ SetMaxHeapSamples(max)
           \/ GcBeforeInitialize \/ Stop \/ GcFree \/ Terminated
           \/ UNCHANGED vars
    BY <1>1, <1>4
    DEF NewObjUntraced, NewObjNotSampled, NewObjDropped, NewObjSampled,
        Allocates, FreeObj, ForceRecycleObj, CompactObject, CompactRef,
        Initialize, SetMaxHeapSamples, GcBeforeInitialize, Stop, GcFree,
        Terminated, vars
<1>5. ASSUME NEW t \in Threads,
             \/ FlushBegin(t) \/ FlushResume(t) \/ FlushResumeFreed(t)
             \/ FlushResumeOrphaned(t) \/ FlushEndWalk(t)
             \/ FlushSerialized(t) \/ FlushFinish(t) \/ FlushFail(t)
      PROVE  \A u \in Threads : pc'[u] \notin {"yielded", "orphaned"}
    BY <1>1, <1>2, <1>5
    DEF FlushBegin, FlushResume, FlushResumeFreed, FlushResumeOrphaned,
        FlushEndWalk, FlushSerialized, FlushFinish, FlushFail, FlushReturn
<1>6. ASSUME NEW t \in Threads, NEW s \in Slots,
             FlushVisit(t, s) \/ FlushYield(t, s)
      PROVE  \A u \in Threads : pc'[u] \notin {"yielded", "orphaned"}
    BY <1>1, <1>6 DEF FlushVisit, FlushYield
<1> QED BY <1>3, <1>4, <1>5, <1>6 DEF Next, FlusherStep

\* What is in the profile of a walk is not in front of it once more.
Ahead(t, o) == (\E s \in flush[t].todo : heap_samples[s] = o) \/ o = flush[t].held

Once(t) ==
    /\ \A o \in Objects : flush[t].profile[o] <= 1
    /\ Walking(t) =>
           /\ \A s \in flush[t].todo : heap_samples[s] # flush[t].held
           /\ \A o \in Objects : Ahead(t, o) => flush[t].profile[o] = 0

OnceInv == ~(Proactive /\ Movable) => \A t \in Threads : Once(t)

\* A step that adds nothing to the profile, and puts nothing old in front of
\* the walk.
LEMMA OnceKept ==
    ASSUME NEW t \in Threads, Once(t), flush'[t].profile = flush[t].profile,
           Walking(t)' =>
               /\ Walking(t)
               /\ flush'[t].held = flush[t].held
               /\ \A s \in flush'[t].todo :
                     \/ s \in flush[t].todo /\ heap_samples'[s] = heap_samples[s]
                     \/ /\ heap_samples'[s] # flush[t].held
                        /\ flush[t].profile[heap_samples'[s]] = 0
    PROVE  Once(t)'
<1>1. CASE ~Walking(t)'
    BY <1>1 DEF Once
<1>2. CASE Walking(t)'
  <2>1. \A s \in flush'[t].todo : heap_samples'[s] # flush'[t].held
      BY <1>2 DEF Once
  <2>2. ASSUME NEW o \in Objects, Ahead(t, o)'
        PROVE  flush'[t].profile[o] = 0
      BY <1>2, <2>2 DEF Once, Ahead
  <2> QED BY <2>1, <2>2 DEF Once
<1> QED BY <1>1, <1>2

LEMMA FreedOnce ==
    ASSUME Types, NEW s \in Slots, MarkSampleValueAsFreed(s), UNCHANGED pc,
           NEW t \in Threads, Once(t)
    PROVE  Once(t)'
<1>1. /\ OnlyTodo(flush[t], flush'[t])
      /\ flush'[t].todo = flush[t].todo \ {s}
    BY UnlistedFacts DEF MarkSampleValueAsFreed
<1>2. \A k \in flush'[t].todo :
          k \in flush[t].todo /\ heap_samples'[k] = heap_samples[k]
  <2>1. flush[t].todo \subseteq Slots
      BY FlushFields DEF Types
  <2> QED BY <1>1, <2>1 DEF MarkSampleValueAsFreed, Types
<1> QED BY <1>1, <1>2, OnceKept DEF OnlyTodo, Walking

\* flush_each_sample in thread t takes at most the deleted key from others.
LEMMA ProcessOther ==
    ASSUME Types, NEW t \in Threads, NEW key \in Slots, NEW o \in Objects,
           NEW rest \in SUBSET Tracked, Process(t, key, o, rest),
           status' = "ready", NEW u \in Threads, u # t
    PROVE  \/ flush'[u] = flush[u] /\ UNCHANGED heap_samples
           \/ /\ flush'[u] = Unlisted(key)[u]
              /\ heap_samples' = [heap_samples EXCEPT ![key] = NoObject]
BY ProcessFacts

\* The keys that follow lead to other objects, none in the profile yet.
Unreported(t, o, rest) ==
    \A s \in rest : /\ heap_samples[s] # o
                    /\ flush[t].profile[heap_samples[s]] = 0

\* flush_each_sample adds the entry at most once, and it was not in the
\* profile yet.
LEMMA ProcessOnce ==
    ASSUME Types, \A u \in Threads : Once(u), Contexts,
           NEW t \in Threads, NEW key \in Slots, NEW o \in Objects,
           NEW rest \in SUBSET Tracked, Process(t, key, o, rest),
           Unreported(t, o, rest), flush[t].profile[o] = 0, Walking(t), status' = "ready",
           pc' = [pc EXCEPT ![t] = "walk"]
    PROVE  \A u \in Threads : Once(u)'
<1>1. ASSUME NEW u \in Threads, u # t PROVE Once(u)'
  <2>1. \/ flush'[u] = flush[u] /\ UNCHANGED heap_samples
        \/ /\ flush'[u] = Unlisted(key)[u]
           /\ heap_samples' = [heap_samples EXCEPT ![key] = NoObject]
      BY <1>1, ProcessOther
  <2>2. pc'[u] = pc[u]
      BY <1>1 DEF Types
  <2>3. CASE flush'[u] = flush[u] /\ UNCHANGED heap_samples
      BY <2>2, <2>3, OnceKept DEF Walking
  <2>4. CASE /\ flush'[u] = Unlisted(key)[u]
             /\ heap_samples' = [heap_samples EXCEPT ![key] = NoObject]
    <3>1. /\ OnlyTodo(flush[u], flush'[u])
          /\ flush'[u].todo = flush[u].todo \ {key}
        BY <2>4, UnlistedFacts
    <3>2. flush[u].todo \subseteq Slots
        BY FlushFields DEF Types
    <3>3. \A k \in flush'[u].todo :
              k \in flush[u].todo /\ heap_samples'[k] = heap_samples[k]
        BY <2>4, <3>1, <3>2 DEF Types
    <3> QED BY <2>2, <3>1, <3>3, OnceKept DEF OnlyTodo, Walking
  <2> QED BY <2>1, <2>3, <2>4
<1>2. Once(t)'
  <2>1. /\ flush'[t].held = NoObject
        /\ flush'[t].todo \subseteq Tracked'
        /\ \/ UNCHANGED heap_samples
           \/ heap_samples' = [heap_samples EXCEPT ![key] = NoObject]
        /\ \/ flush'[t].profile = flush[t].profile
           \/ flush'[t].profile = [flush[t].profile EXCEPT ![o] = OneMore(@)]
      BY ProcessFacts DEF table_vars
  <2>2. flush'[t].todo \subseteq rest
    <3> DEFINE f == Onward(t, rest)
    <3>1. /\ f.todo = rest /\ Onward(t, rest \ {key}).todo = rest \ {key}
          /\ \A n : [f EXCEPT !.profile[o] = n].todo = rest
        BY OnwardFacts
    <3> HIDE DEF f
    <3>2. \/ flush'[t] = f
          \/ flush'[t] = [f EXCEPT !.profile[o] = OneMore(f.profile[o])]
          \/ flush'[t] = Onward(t, rest \ {key})
        BY ListedType DEF Process, Types, f
    <3> QED BY <3>1, <3>2
  <2>3. flush[t].profile \in [Objects -> Tally]
      BY FlushFields DEF Types
  <2>4. /\ \A x \in Objects : x # o => flush'[t].profile[x] = flush[t].profile[x]
        /\ flush'[t].profile[o] <= 1
      BY <2>1, <2>3 DEF OneMore
  <2>5. \A x \in Objects : flush'[t].profile[x] <= 1
      BY <2>4 DEF Once
  <2>6. \A s \in flush'[t].todo :
            /\ s \in rest /\ heap_samples'[s] = heap_samples[s]
            /\ heap_samples'[s] # NoObject /\ heap_samples'[s] \in Objects
      BY <2>1, <2>2 DEF Tracked, Types
  <2>7. \A s \in flush'[t].todo : flush'[t].profile[heap_samples'[s]] = 0
      BY <2>4, <2>6 DEF Unreported
  <2>8. \A x \in Objects : Ahead(t, x)' => flush'[t].profile[x] = 0
      BY <2>1, <2>7 DEF Ahead
  <2> QED BY <2>1, <2>5, <2>6, <2>8 DEF Once
<1> QED BY <1>1, <1>2

LEMMA OnceStep == Sound /\ NoYield /\ OnceInv /\ [Next]_vars => OnceInv'
<1> SUFFICES ASSUME Sound, NoYield, \A t \in Threads : Once(t), [Next]_vars,
                    ~(Proactive /\ Movable)
             PROVE  \A t \in Threads : Once(t)'
    BY DEF OnceInv
<1>t. Types /\ SoundKeys
    BY DEF Sound
<1>1. ASSUME NEW t \in Threads, UNCHANGED heap_samples,
             Walking(t)' => Walking(t), flush'[t] = flush[t]
      PROVE  Once(t)'
    BY <1>1, OnceKept
<1>2. ASSUME NEW s \in Slots, UNCHANGED pc,
             MarkSampleValueAsFreed(s) \/ UNCHANGED <<table_vars, flush>>
      PROVE  \A t \in Threads : Once(t)'
    BY <1>t, <1>1, <1>2, FreedOnce DEF table_vars, Walking
<1>3. ASSUME NEW t \in Threads, NEW s \in Slots, NEW o \in Objects,
             \/ NewObjUntraced(t, s, o)
             \/ NewObjNotSampled(t, s, o)
             \/ NewObjDropped(t, s, o)
      PROVE  \A u \in Threads : Once(u)'
    BY <1>2, <1>3 DEF NewObjUntraced, NewObjNotSampled, NewObjDropped,
                      Allocates, PurgeRecycled
\* The object of the new entry is in no profile.
<1>4. ASSUME NEW t \in Threads, NEW s \in Slots, NEW o \in Objects,
             NEW refs \in SUBSET Refs, NewObjSampled(t, s, o, refs),
             NEW u \in Threads
      PROVE  Once(u)'
  <2>1. /\ heap_samples' = [heap_samples EXCEPT ![s] = o]
        /\ flush' = Listed(s) /\ pc' = pc
        /\ flush[u].profile[o] = 0 /\ o # flush[u].held
      BY <1>4 DEF NewObjSampled, Allocates, Fresh
  <2>2. /\ OnlyTodo(flush[u], flush'[u])
        /\ flush'[u].todo \subseteq flush[u].todo \union {s}
        /\ flush[u].todo \subseteq Slots
      BY <1>t, <2>1, ListedFacts, FlushFields DEF Types
  <2>3. \A k \in flush'[u].todo :
            \/ k \in flush[u].todo /\ heap_samples'[k] = heap_samples[k]
            \/ heap_samples'[k] = o
      BY <1>t, <2>1, <2>2 DEF Types
  <2> QED BY <2>1, <2>2, <2>3, OnceKept DEF OnlyTodo, Walking
<1>5. ASSUME NEW s \in Slots, FreeObj(s) PROVE \A t \in Threads : Once(t)'
    BY <1>2, <1>5 DEF FreeObj, FreeObjHook
\* GC.compact finds no walk that it could give an entry for a second time.
<1>6. ASSUME NEW from \in Slots, NEW to \in Slots, CompactObject(from, to),
             NEW u \in Threads
      PROVE  Once(u)'
  <2>1. ~Proactive /\ pc' = pc /\ pc[u] # "walk"
      BY <1>6 DEF CompactObject, Running, GvlFree
  <2>2. ~Walking(u)'
      BY <2>1 DEF NoYield, Walking
  <2>3. flush' = flush \/ flush' = Relisted(from, to)
      BY <1>6 DEF CompactObject, CompactHeapSample
  <2>4. flush'[u].profile = flush[u].profile
      BY <1>t, <2>3, RelistedFacts DEF OnlyTodo
  <2> QED BY <2>2, <2>4, OnceKept
<1>7. CASE Start
  <2> SUFFICES ASSUME NEW u \in Threads PROVE Once(u)'
      OBVIOUS
  <2>1. CASE ~MustClear
      BY <1>1, <1>7, <2>1 DEF Start, Walking
  <2>2. CASE MustClear
    <3>1. /\ pc'[u] = IF pc[u] = "yielded" THEN "orphaned" ELSE pc[u]
          /\ flush'[u] = [flush[u] EXCEPT !.todo = {}]
          /\ pc[u] # "walk"
        BY <1>t, <1>7, <2>2 DEF Start, Running, GvlFree, Types
    <3>2. flush'[u].profile = flush[u].profile
        BY <1>t, <3>1, TodoOnly DEF Types, OnlyTodo
    <3>3. ~Walking(u)'
        BY <3>1 DEF Walking
    <3> QED BY <3>2, <3>3, OnceKept
  <2> QED BY <2>1, <2>2
<1>8. CASE GcFree
  <2>1. \A u \in Threads : ~Walking(u)' /\ flush'[u] = flush[u]
      BY <1>8 DEF GcFree, Walking
  <2> QED BY <2>1, OnceKept
<1>9. ASSUME NEW t \in Threads, FlushBegin(t), NEW u \in Threads
      PROVE  Once(u)'
  <2> DEFINE new == [NoFlush EXCEPT !.epoch = FlushEpoch, !.todo = Tracked,
                                    !.before = TrackedObjects]
  <2>1. /\ new.todo = Tracked /\ new.held = NoObject
        /\ new.profile = EmptyProfile
      BY DEF NoFlush
  <2>2. /\ heap_samples' = heap_samples
        /\ pc' = [pc EXCEPT ![t] = "walk"]
        /\ flush' = [flush EXCEPT ![t] = new]
      BY <1>9 DEF FlushBegin, table_vars
  <2> HIDE DEF new
  <2>3. CASE u = t
    <3>1. flush'[u] = new
        BY <1>t, <2>2, <2>3 DEF Types
    <3>2. \A o \in Objects : flush'[u].profile[o] = 0
        BY <2>1, <3>1 DEF EmptyProfile
    <3>3. \A s \in flush'[u].todo : heap_samples'[s] # flush'[u].held
        BY <2>1, <2>2, <3>1 DEF Tracked
    <3> QED BY <3>2, <3>3 DEF Once
  <2>4. CASE u # t
      BY <1>t, <1>1, <2>2, <2>4 DEF Types, Walking
  <2> QED BY <2>3, <2>4
<1>10. ASSUME NEW t \in Threads, NEW s \in Slots, FlushVisit(t, s)
       PROVE  \A u \in Threads : Once(u)'
  <2>1. /\ s \in flush[t].todo /\ pc[t] = "walk" /\ status = "ready"
        /\ Process(t, s, heap_samples[s], flush[t].todo \ {s})
        /\ pc' = [pc EXCEPT ![t] = "walk"]
      BY <1>t, <1>10 DEF FlushVisit, Types
  <2>2. Contexts /\ flush[t].todo \subseteq Tracked
      BY <2>1 DEF Sound, Contexts, FlushContext
  <2>3. /\ heap_samples[s] \in Objects
        /\ flush[t].todo \ {s} \subseteq Tracked
      BY <1>t, <2>1, <2>2 DEF Types, Tracked
  <2>4. Walking(t)
      BY <2>1 DEF Walking
  <2>5. \A k \in flush[t].todo :
            heap_samples[k] \in Objects /\ flush[t].profile[heap_samples[k]] = 0
      BY <1>t, <2>2, <2>4 DEF Once, Ahead, Types, Tracked
  <2>6. \A k \in flush[t].todo \ {s} : heap_samples[k] # heap_samples[s]
      BY <1>t, <2>1, <2>2, KeysInjective
  <2>7. CASE status' = "ready"
    <3> DEFINE rest == flush[t].todo \ {s}
               o == heap_samples[s]
    <3>1. /\ rest \in SUBSET Tracked /\ o \in Objects
          /\ Process(t, s, o, rest) /\ flush[t].profile[o] = 0
        BY <2>1, <2>3, <2>5
    <3>2. Unreported(t, o, rest)
        BY <2>5, <2>6 DEF Unreported
    <3> HIDE DEF rest, o
    <3> QED BY <1>t, <2>1, <2>2, <2>4, <2>7, <3>1, <3>2, ProcessOnce
  <2>8. CASE status' # "ready"
    <3>1. UNCHANGED <<heap_samples, flush, pc>>
        BY <1>10, <2>1, <2>8 DEF FlushVisit, Process, table_vars
    <3> QED BY <1>1, <3>1 DEF Walking
  <2> QED BY <2>7, <2>8
<1>11. ASSUME NEW t \in Threads, FlushResume(t)
       PROVE  \A u \in Threads : Once(u)'
  <2>1. /\ pc[t] = "yielded" /\ status = "ready"
        /\ Process(t, flush[t].key, flush[t].held, flush[t].todo)
        /\ pc' = [pc EXCEPT ![t] = "walk"]
      BY <1>11 DEF FlushResume, Running
  <2>2. /\ Contexts /\ flush[t].held \in Objects /\ flush[t].key \in Slots
        /\ flush[t].todo \subseteq Tracked /\ Walking(t)
      BY <1>t, <2>1, FlushFields
      DEF Types, Sound, Contexts, FlushContext, Walking
  <2>3. \A k \in flush[t].todo :
            /\ heap_samples[k] # flush[t].held /\ heap_samples[k] \in Objects
            /\ flush[t].profile[heap_samples[k]] = 0
      BY <1>t, <2>2 DEF Once, Ahead, Types, Tracked
  <2>4. flush[t].profile[flush[t].held] = 0
      BY <2>2 DEF Once, Ahead
  <2>5. CASE status' = "ready"
    <3> DEFINE rest == flush[t].todo
               o == flush[t].held
               key == flush[t].key
    <3>1. /\ rest \in SUBSET Tracked /\ o \in Objects /\ key \in Slots
          /\ Process(t, key, o, rest) /\ flush[t].profile[o] = 0
        BY <2>1, <2>2, <2>4
    <3>2. Unreported(t, o, rest)
        BY <2>3 DEF Unreported
    <3> HIDE DEF rest, o, key
    <3> QED BY <1>t, <2>1, <2>2, <2>5, <3>1, <3>2, ProcessOnce
  <2>6. CASE status' # "ready"
    <3>1. UNCHANGED <<heap_samples, flush>>
        BY <2>1, <2>6 DEF Process, table_vars
    <3>2. \A u \in Threads : Walking(u)' => Walking(u)
        BY <1>t, <2>1, <2>2 DEF Walking, Types
    <3> QED BY <1>1, <3>1, <3>2
  <2> QED BY <2>5, <2>6
<1>12. ASSUME NEW t \in Threads, NEW s \in Slots, FlushYield(t, s),
              NEW u \in Threads
       PROVE  Once(u)'
  <2> DEFINE f == [flush[t] EXCEPT !.todo = @ \ {s}, !.key = s,
                                   !.held = heap_samples[s]]
  <2>1. /\ heap_samples' = heap_samples /\ status = "ready"
        /\ pc' = [pc EXCEPT ![t] = "yielded"]
        /\ flush' = [flush EXCEPT ![t] = f]
        /\ pc[t] = "walk" /\ s \in flush[t].todo
      BY <1>12 DEF FlushYield, table_vars
  <2>2. /\ f.held = heap_samples[s] /\ f.todo = flush[t].todo \ {s}
        /\ f.profile = flush[t].profile
      BY <1>t DEF Types, Flush
  <2> HIDE DEF f
  <2>3. CASE u = t
    <3>1. flush'[u] = f /\ Walking(t)
        BY <1>t, <2>1, <2>3 DEF Types, Walking
    <3>2. flush[t].todo \subseteq Tracked
        BY <2>1 DEF Sound, Contexts, FlushContext
    <3>3. \A k \in f.todo : heap_samples[k] # heap_samples[s]
        BY <1>t, <2>1, <2>2, <3>2, KeysInjective
    <3>4. \A o \in Objects : Ahead(t, o)' => Ahead(t, o)
        BY <2>1, <2>2, <2>3, <3>1 DEF Ahead
    <3> QED BY <2>1, <2>2, <2>3, <3>1, <3>3, <3>4 DEF Once
  <2>4. CASE u # t
      BY <1>t, <1>1, <2>1, <2>4 DEF Types, Walking
  <2> QED BY <2>3, <2>4
<1>13. ASSUME NEW t \in Threads, NEW u \in Threads,
              \/ FlushResumeFreed(t) \/ FlushResumeOrphaned(t)
              \/ FlushEndWalk(t) \/ FlushSerialized(t)
              \/ FlushFinish(t) \/ FlushFail(t)
       PROVE  Once(u)'
  <2>1. /\ heap_samples' = heap_samples
        /\ u # t => flush'[u] = flush[u] /\ pc'[u] = pc[u]
      BY <1>t, <1>13
      DEF FlushResumeFreed, FlushResumeOrphaned, FlushEndWalk,
          FlushSerialized, FlushFinish, FlushFail, FlushReturn, Destroyed,
          Types, table_vars
  <2>2. CASE u # t
      BY <1>1, <2>1, <2>2 DEF Walking
  <2>3. CASE u = t /\ (FlushFinish(t) \/ FlushFail(t))
    <3>1. pc'[t] = "idle" /\ flush'[t] = NoFlush
        BY <1>t, <2>3 DEF FlushFinish, FlushFail, FlushReturn, Destroyed,
                          Types
    <3>2. \A o \in Objects : flush'[t].profile[o] = 0
        BY <3>1 DEF NoFlush, EmptyProfile
    <3> QED BY <2>3, <3>1, <3>2 DEF Once, Walking
  <2>4. CASE u = t /\ (FlushEndWalk(t) \/ FlushSerialized(t))
    <3>1. pc'[t] \in {"serialize", "finish"} /\ flush'[t] = flush[t]
        BY <1>t, <2>4 DEF FlushEndWalk, FlushSerialized, Types
    <3> QED BY <1>1, <2>1, <2>4, <3>1 DEF Walking
  <2>5. CASE u = t /\ (FlushResumeFreed(t) \/ FlushResumeOrphaned(t))
    <3> DEFINE f == Onward(t, flush[t].todo)
               o == flush[t].held
    <3>1. /\ f.held = NoObject /\ f.profile = flush[t].profile
          /\ f.todo = flush[t].todo
          /\ \A n : LET g == [f EXCEPT !.profile[o] = n] IN
                /\ g.held = NoObject /\ g.todo = flush[t].todo
                /\ g.profile = [f.profile EXCEPT ![o] = n]
        BY <1>t, OnwardFacts
    <3> HIDE DEF f
    <3>2. /\ status = "ready" /\ pc[t] \in {"yielded", "orphaned"}
          /\ \/ flush'[t] = flush[t] /\ pc'[t] = pc[t]
             \/ flush'[t] = f /\ (Walking(t)' => Walking(t))
             \/ /\ flush'[t] = [f EXCEPT !.profile[o] = OneMore(f.profile[o])]
                /\ pc[t] = "yielded"
        BY <1>t, <2>5
        DEF FlushResumeFreed, FlushResumeOrphaned, Types, Walking, Running, f
    <3>3. /\ Contexts /\ flush[t].todo \subseteq Tracked
          /\ pc[t] = "yielded" => o \in Objects /\ Walking(t)
        BY <1>t, <3>2, FlushFields
        DEF Types, Sound, Contexts, FlushContext, Walking
    <3>4. CASE flush'[t] = flush[t] /\ pc'[t] = pc[t]
        BY <1>1, <2>1, <2>5, <3>4 DEF Walking
    <3>5. CASE flush'[t] = f /\ (Walking(t)' => Walking(t))
      <4>1. \A s \in flush[t].todo : heap_samples[s] # NoObject
          BY <3>3 DEF Tracked
      <4>2. Walking(t)' => \A x \in Objects : Ahead(t, x)' => Ahead(t, x)
          BY <2>1, <3>1, <3>5 DEF Ahead
      <4> QED BY <2>1, <2>5, <3>1, <3>5, <4>1, <4>2 DEF Once
    <3>6. CASE /\ flush'[t] = [f EXCEPT !.profile[o] = OneMore(f.profile[o])]
               /\ pc[t] = "yielded"
      <4>1. /\ flush'[t].held = NoObject /\ flush'[t].todo = flush[t].todo
            /\ flush'[t].profile =
                   [flush[t].profile EXCEPT ![o] = OneMore(flush[t].profile[o])]
          BY <3>1, <3>6
      <4>2. flush[t].profile \in [Objects -> Tally] /\ o \in Objects
          BY <1>t, <3>3, <3>6, FlushFields DEF Types
      <4>3. flush[t].profile[o] = 0
          BY <3>3, <3>6 DEF Once, Ahead
      <4>4. /\ flush'[t].profile[o] = 1
            /\ \A x \in Objects : x # o =>
                  flush'[t].profile[x] = flush[t].profile[x]
          BY <4>1, <4>2, <4>3 DEF OneMore
      <4>5. \A s \in flush[t].todo :
                heap_samples[s] # NoObject /\ heap_samples[s] # o
          BY <3>3, <3>6 DEF Tracked, Once
      <4>6. \A x \in Objects : flush'[t].profile[x] <= 1
          BY <4>4 DEF Once
      <4>7. ASSUME NEW x \in Objects, Ahead(t, x)'
            PROVE  flush'[t].profile[x] = 0
        <5>1. x # o /\ Ahead(t, x)
            BY <2>1, <4>1, <4>5, <4>7 DEF Ahead
        <5> QED BY <3>3, <3>6, <4>4, <5>1 DEF Once
      <4> QED BY <2>1, <2>5, <4>1, <4>5, <4>6, <4>7 DEF Once
    <3> QED BY <3>2, <3>4, <3>5, <3>6
  <2> QED BY <1>13, <2>2, <2>3, <2>4, <2>5
<1>14. ASSUME \/ \E max \in MaxHeapSamples :
                    Initialize(max) \/ SetMaxHeapSamples(max)
              \/ \E r, q \in Refs : CompactRef(r, q)
              \/ GcBeforeInitialize \/ Stop \/ Terminated
              \/ \E s \in Slots : ForceRecycleObj(s)
              \/ UNCHANGED vars
       PROVE  \A t \in Threads : Once(t)'
    BY <1>1, <1>14
    DEF Initialize, SetMaxHeapSamples, CompactRef, GcBeforeInitialize, Stop,
        Terminated, ForceRecycleObj, table_vars, vars, Walking
<1> QED
    BY <1>3, <1>4, <1>5, <1>6, <1>7, <1>8, <1>9, <1>10, <1>11, <1>12, <1>13,
       <1>14
    DEF Next, FlusherStep

LEMMA OnceAlways == Spec => [](Sound /\ NoYield /\ OnceInv)
<1>1. Init => NoYield /\ OnceInv
    BY DEF Init, NoYield, OnceInv, Once, Walking, NoFlush, EmptyProfile
<1>2. Sound /\ NoYield /\ OnceInv /\ [Next]_vars
          => (Sound /\ NoYield /\ OnceInv)'
    BY TypesStep, ContextStep, KeysStep, NoYieldStep, OnceStep DEF Sound
<1> QED BY SoundInit, <1>1, <1>2, PTL DEF Spec

\* A flush that keeps the GVL, or runs on a Ruby without GC.compact, reports
\* each object once.
THEOREM NothingIsReportedTwice ==
    ASSUME ~(Proactive /\ Movable)
    PROVE  Spec => []ReportedOnce
<1>1. OnceInv => ReportedOnce
    BY DEF OnceInv, Once, ReportedOnce
<1> QED BY OnceAlways, <1>1, PTL

\* A flush that keeps the GVL adds no object to its profile that is not alive,
\* while the collector is tracing.
THEOREM OnlyLiveAreReported ==
    ASSUME ~Proactive, ~(ForceRecycle /\ Movable)
    PROVE  Spec => ReportsOnlyLive
<1> DEFINE Live == \A o \in Objects :
                       is_tracing /\ Reports(o) => o \in HeapObjects
<1>1. Sound /\ CountInv /\ CurrentInv /\ NoYield /\ [Next]_vars => [Live]_vars
  <2> SUFFICES ASSUME Sound, CurrentInv, NoYield, [Next]_vars, ~UNCHANGED vars,
                      is_tracing, NEW o \in Objects, NEW t \in Threads,
                      flush'[t].profile[o] > flush[t].profile[o]
               PROVE  o \in HeapObjects
      BY DEF Reports
  <2>t. Types /\ SoundKeys /\ TrackedAreCurrent
      BY DEF Sound, CurrentInv
  <2>g. flush[t].profile \in [Objects -> Tally]
      BY <2>t, FlushFields DEF Types
  <2>1. ASSUME flush'[t].profile = flush[t].profile PROVE FALSE
      BY <2>g, <2>1 DEF Tally
  <2>2. ASSUME flush'[t].profile = EmptyProfile PROVE FALSE
      BY <2>g, <2>2 DEF EmptyProfile, Tally
  <2>3. ASSUME NEW s \in Slots,
               MarkSampleValueAsFreed(s) \/ UNCHANGED flush
        PROVE  FALSE
      BY <2>t, <2>1, <2>3, UnlistedFacts DEF MarkSampleValueAsFreed, OnlyTodo
  <2>4. ASSUME NEW u \in Threads, NEW s \in Slots, NEW x \in Objects,
               \/ NewObjUntraced(u, s, x)
               \/ NewObjNotSampled(u, s, x)
               \/ NewObjDropped(u, s, x)
        PROVE  FALSE
      BY <2>3, <2>4 DEF NewObjUntraced, NewObjNotSampled, NewObjDropped,
                        PurgeRecycled
  <2>5. ASSUME NEW u \in Threads, NEW s \in Slots, NEW x \in Objects,
               NEW refs \in SUBSET Refs, NewObjSampled(u, s, x, refs)
        PROVE  FALSE
      BY <2>t, <2>1, <2>5, ListedFacts DEF NewObjSampled, OnlyTodo
  <2>6. ASSUME NEW s \in Slots, FreeObj(s) PROVE FALSE
      BY <2>3, <2>6 DEF FreeObj, FreeObjHook
  <2>7. ASSUME NEW from \in Slots, NEW to \in Slots, CompactObject(from, to)
        PROVE  FALSE
    <3>1. flush' = flush \/ flush' = Relisted(from, to)
        BY <2>7 DEF CompactObject, CompactHeapSample
    <3> QED BY <2>t, <2>1, <3>1, RelistedFacts DEF OnlyTodo
  <2>8. ASSUME NEW u \in Threads, FlushBegin(u) PROVE FALSE
    <3> DEFINE new == [NoFlush EXCEPT !.epoch = FlushEpoch, !.todo = Tracked,
                                      !.before = TrackedObjects]
    <3>1. new.profile = EmptyProfile
        BY DEF NoFlush
    <3>2. flush' = [flush EXCEPT ![u] = new]
        BY <2>8 DEF FlushBegin
    <3> HIDE DEF new
    <3>3. flush'[t] = new \/ flush'[t] = flush[t]
        BY <2>t, <3>2 DEF Types
    <3> QED BY <2>1, <2>2, <3>1, <3>3
\* The only step that reports: the sample's slot holds an object, which is
\* the sampled one.
  <2>9. ASSUME NEW u \in Threads, NEW s \in Slots, FlushVisit(u, s)
        PROVE  o \in HeapObjects
    <3> DEFINE x == heap_samples[s]
    <3>1. /\ s \in flush[u].todo /\ status = "ready"
          /\ Process(u, s, x, flush[u].todo \ {s})
        BY <2>9 DEF FlushVisit
    <3>2. /\ pc[u] = "walk" /\ flush[u].todo \subseteq Tracked
        BY <2>9, <3>1 DEF FlushVisit, Sound, Contexts, FlushContext
    <3>3. /\ s \in Tracked /\ x \in Objects
          /\ flush[u].todo \ {s} \subseteq Tracked
        BY <2>t, <3>1, <3>2 DEF Types, Tracked
    <3>4. status' = "ready"
        BY <2>1, <3>1 DEF Process
    <3>5. CASE t # u
      <4>1. flush'[t] = flush[t] \/ flush'[t] = Unlisted(s)[t]
          BY <2>t, <3>1, <3>3, <3>4, <3>5, ProcessOther
      <4> QED BY <2>t, <2>1, <4>1, UnlistedFacts DEF OnlyTodo
    <3>6. CASE t = u
      <4>1. /\ flush'[t].profile = [flush[t].profile EXCEPT ![x] = OneMore(@)]
            /\ Validish(samples[x].allocated_value_weak)
          BY <2>t, <2>1, <3>1, <3>3, <3>4, <3>6, ProcessFacts
      <4>2. o = x
          BY <2>g, <4>1 DEF Tally
      <4>3. heap[s] # NoObject
          BY <2>t, <3>3, <4>1 DEF SoundKeys, Validish
      <4>4. heap[s] = x
          BY <2>t, <3>3, <4>3 DEF TrackedAreCurrent
      <4> QED BY <3>3, <4>2, <4>3, <4>4 DEF HeapObjects
    <3> QED BY <3>5, <3>6
  <2>10. ASSUME NEW u \in Threads,
                \/ FlushResume(u) \/ FlushResumeFreed(u)
                \/ FlushResumeOrphaned(u) \/ \E s \in Slots : FlushYield(u, s)
         PROVE  FALSE
      BY <2>10 DEF FlushResume, FlushResumeFreed, FlushResumeOrphaned,
                   FlushYield, NoYield
  <2>11. ASSUME NEW u \in Threads, FlushFinish(u) \/ FlushFail(u)
         PROVE  FALSE
    <3>1. flush' = [flush EXCEPT ![u] = NoFlush]
        BY <2>11 DEF FlushFinish, FlushFail, FlushReturn, Destroyed
    <3>2. flush'[t] = NoFlush \/ flush'[t] = flush[t]
        BY <2>t, <3>1 DEF Types
    <3> QED BY <2>1, <2>2, <3>2 DEF NoFlush
  <2>12. ~Start
      BY DEF Start
  <2>13. ASSUME \/ \E max \in MaxHeapSamples :
                      Initialize(max) \/ SetMaxHeapSamples(max)
                \/ \E r, q \in Refs : CompactRef(r, q)
                \/ GcBeforeInitialize \/ Stop \/ GcFree \/ Terminated
                \/ \E s \in Slots : ForceRecycleObj(s)
                \/ \E u \in Threads : FlushEndWalk(u) \/ FlushSerialized(u)
         PROVE  FALSE
      BY <2>1, <2>13
      DEF Initialize, SetMaxHeapSamples, CompactRef, GcBeforeInitialize, Stop,
          GcFree, Terminated, ForceRecycleObj, FlushEndWalk, FlushSerialized,
          vars
  <2> QED
      BY <2>4, <2>5, <2>6, <2>7, <2>8, <2>9, <2>10, <2>11, <2>12, <2>13
      DEF Next, FlusherStep
<1> QED BY <1>1, CurrentAlways, OnceAlways, PTL DEF Spec, ReportsOnlyLive

-----------------------------------------------------------------------------
(* Nothing is left out of a profile                                        *)

\* No sample is newer than the collector, and none that a flush found when it
\* began is newer than that flush.
EpochsInv ==
    /\ \A o \in Objects :
          samples[o] # NoSample => samples[o].flush_epoch <= current_flush_epoch
    /\ \A t \in Threads, o \in Objects :
          o \in flush[t].before /\ samples[o] # NoSample =>
              samples[o].flush_epoch <= flush[t].epoch

\* A step that captures no sample and begins no flush.
LEMMA EpochsKept ==
    ASSUME Types, EpochsInv,
           current_flush_epoch' = current_flush_epoch,
           \A o \in Objects : samples'[o] # NoSample =>
               /\ samples[o] # NoSample
               /\ samples'[o].flush_epoch = samples[o].flush_epoch,
           \A t \in Threads : /\ flush'[t].epoch = flush[t].epoch
                              /\ flush'[t].before = flush[t].before
    PROVE  EpochsInv'
BY DEF EpochsInv

LEMMA FreedEpochs ==
    ASSUME Types, EpochsInv, NEW s \in Slots, MarkSampleValueAsFreed(s),
           UNCHANGED current_flush_epoch
    PROVE  EpochsInv'
<1>1. \A o \in Objects : samples'[o] # NoSample => samples'[o] = samples[o]
    BY DEF MarkSampleValueAsFreed, WithoutSample
<1>2. \A t \in Threads : OnlyTodo(flush[t], flush'[t])
    BY UnlistedFacts DEF MarkSampleValueAsFreed
<1> QED BY <1>1, <1>2, EpochsKept DEF OnlyTodo

LEMMA ProcessEpochs ==
    ASSUME Types, EpochsInv, NEW t \in Threads, NEW key \in Slots,
           NEW o \in Objects, NEW rest \in SUBSET Tracked,
           Process(t, key, o, rest), UNCHANGED current_flush_epoch,
           status = "ready"
    PROVE  EpochsInv'
<1>1. CASE status' = "ready"
  <2>1. \A x \in Objects : samples'[x] # NoSample => samples'[x] = samples[x]
      BY DEF Process, WithoutSample, table_vars
  <2>2. ASSUME NEW u \in Threads
        PROVE  /\ flush'[u].epoch = flush[u].epoch
               /\ flush'[u].before = flush[u].before
    <3>1. CASE u = t
        BY <1>1, <3>1, ProcessFacts
    <3>2. CASE u # t
        BY <1>1, <3>2, ProcessOther, UnlistedFacts DEF OnlyTodo
    <3> QED BY <3>1, <3>2
  <2> QED BY <2>1, <2>2, EpochsKept
<1>2. CASE status' # "ready"
  <2>1. UNCHANGED <<samples, flush>>
      BY <1>2 DEF Process, table_vars
  <2> QED BY <2>1, EpochsKept
<1> QED BY <1>1, <1>2

LEMMA EpochsStep == Sound /\ EpochsInv /\ [Next]_vars => EpochsInv'
<1> SUFFICES ASSUME Sound, EpochsInv, [Next]_vars PROVE EpochsInv'
    OBVIOUS
<1>t. Types /\ SoundKeys
    BY DEF Sound
<1>1. ASSUME UNCHANGED <<samples, current_flush_epoch>>,
             \A t \in Threads : /\ flush'[t].epoch = flush[t].epoch
                                /\ flush'[t].before = flush[t].before
      PROVE  EpochsInv'
    BY <1>t, <1>1, EpochsKept
<1>2. ASSUME NEW s \in Slots, UNCHANGED current_flush_epoch,
             MarkSampleValueAsFreed(s) \/ UNCHANGED <<table_vars, flush>>
      PROVE  EpochsInv'
    BY <1>t, <1>1, <1>2, FreedEpochs DEF table_vars
<1>3. ASSUME NEW t \in Threads, NEW s \in Slots, NEW o \in Objects,
             \/ NewObjUntraced(t, s, o)
             \/ NewObjNotSampled(t, s, o)
             \/ NewObjDropped(t, s, o)
      PROVE  EpochsInv'
    BY <1>2, <1>3 DEF NewObjUntraced, NewObjNotSampled, NewObjDropped,
                      Allocates, PurgeRecycled
<1>4. ASSUME NEW t \in Threads, NEW s \in Slots, NEW o \in Objects,
             NEW refs \in SUBSET Refs, NewObjSampled(t, s, o, refs)
      PROVE  EpochsInv'
  <2> DEFINE new == Captured(s, refs)
  <2>1. /\ samples' = [WithoutSample(Purged(s)) EXCEPT ![o] = new]
        /\ current_flush_epoch' = current_flush_epoch
        /\ \A u \in Threads : o \notin flush[u].before
        /\ \A u \in Threads : OnlyTodo(flush[u], flush'[u])
      BY <1>t, <1>4, ListedFacts DEF NewObjSampled, Allocates, Fresh
  <2>2. new.flush_epoch = current_flush_epoch
      BY DEF Captured
  <2> HIDE DEF new
  <2>3. samples'[o] = new
      BY <2>1 DEF WithoutSample
  <2>4. \A x \in Objects : x # o /\ samples'[x] # NoSample =>
            samples'[x] = samples[x]
      BY <2>1 DEF WithoutSample
  <2>5. current_flush_epoch \in Nat
      BY <1>t DEF Types
  <2> QED BY <2>1, <2>2, <2>3, <2>4, <2>5 DEF EpochsInv, OnlyTodo
<1>5. ASSUME NEW s \in Slots, FreeObj(s) PROVE EpochsInv'
    BY <1>2, <1>5 DEF FreeObj, FreeObjHook, config_vars
<1>6. ASSUME NEW from \in Slots, NEW to \in Slots, CompactObject(from, to)
      PROVE  EpochsInv'
  <2>1. UNCHANGED current_flush_epoch /\ CompactHeapSample(from, to)
      BY <1>6 DEF CompactObject, config_vars
  <2>2. CASE heap_samples[from] = NoObject
      BY <1>1, <2>1, <2>2 DEF CompactHeapSample
  <2>3. CASE heap_samples[from] # NoObject
    <3> DEFINE o == heap_samples[from]
    <3>1. /\ samples' = [samples EXCEPT ![o].allocated_value_weak = to]
          /\ \A t \in Threads : OnlyTodo(flush[t], flush'[t])
          /\ o \in Objects /\ from \in Tracked
        BY <1>t, <2>1, <2>3, RelistedFacts
        DEF CompactHeapSample, Relocated, Types, Tracked
    <3>2. samples[o] \in Sample
        BY <1>t, <3>1 DEF SoundKeys, Types
    <3>3. ASSUME NEW x \in Objects, samples'[x] # NoSample
          PROVE  /\ samples[x] # NoSample
                 /\ samples'[x].flush_epoch = samples[x].flush_epoch
        BY <1>t, <3>1, <3>2, <3>3 DEF Types, Sample
    <3> QED BY <1>t, <2>1, <3>1, <3>3, EpochsKept DEF OnlyTodo
  <2> QED BY <2>2, <2>3
<1>7. ASSUME NEW r \in Refs, NEW q \in Refs, CompactRef(r, q)
      PROVE  EpochsInv'
  <2>1. UNCHANGED <<current_flush_epoch, flush>>
      BY <1>7 DEF CompactRef, config_vars
  <2>2. \A x \in TrackedObjects : x \in Objects /\ samples[x] \in Sample
      BY <1>t DEF SoundKeys, TrackedObjects, Tracked, Types
  <2>3. ASSUME NEW x \in Objects
        PROVE  /\ samples'[x] # NoSample => samples[x] # NoSample
               /\ samples'[x].flush_epoch = samples[x].flush_epoch
    <3>1. CASE x \in TrackedObjects
      <4>1. samples'[x] = [samples[x] EXCEPT !.refs = Renamed(@, r, q)]
          BY <1>7, <3>1 DEF CompactRef
      <4> QED BY <2>2, <3>1, <4>1 DEF Sample
    <3>2. CASE x \notin TrackedObjects
        BY <1>7, <3>2 DEF CompactRef
    <3> QED BY <3>1, <3>2
  <2> QED BY <1>t, <2>1, <2>3, EpochsKept
<1>8. CASE Start
  <2>1. CASE ~MustClear
      BY <1>1, <1>8, <2>1 DEF Start
  <2>2. CASE MustClear
    <3>1. /\ UNCHANGED current_flush_epoch
          /\ \A o \in Objects : samples'[o] \in {NoSample, samples[o]}
          /\ \A t \in Threads : flush'[t] = [flush[t] EXCEPT !.todo = {}]
        BY <1>8, <2>2 DEF Start
    <3>2. ASSUME NEW t \in Threads PROVE OnlyTodo(flush[t], flush'[t])
      <4>1. OnlyTodo(flush[t], [flush[t] EXCEPT !.todo = {}])
          BY <1>t, TodoOnly DEF Types
      <4> QED BY <3>1, <4>1
    <3> QED BY <1>t, <3>1, <3>2, EpochsKept DEF OnlyTodo
  <2> QED BY <2>1, <2>2
<1>9. CASE GcFree
  <2>1. /\ UNCHANGED <<current_flush_epoch, flush>>
        /\ \A o \in Objects : samples'[o] \in {NoSample, samples[o]}
      BY <1>9 DEF GcFree, config_vars
  <2> QED BY <1>t, <2>1, EpochsKept
<1>10. ASSUME NEW t \in Threads, FlushBegin(t) PROVE EpochsInv'
  <2> DEFINE new == [NoFlush EXCEPT !.epoch = FlushEpoch, !.todo = Tracked,
                                    !.before = TrackedObjects]
  <2>1. new.epoch = current_flush_epoch
      BY DEF NoFlush, FlushEpoch
  <2>2. /\ current_flush_epoch' = current_flush_epoch + 1
        /\ samples' = samples
        /\ flush' = [flush EXCEPT ![t] = new]
      BY <1>10 DEF FlushBegin, table_vars
  <2> HIDE DEF new
  <2>3. /\ current_flush_epoch \in Nat
        /\ \A o \in Objects : samples[o] # NoSample =>
              samples[o].flush_epoch \in Nat
      BY <1>t DEF Types, Sample
  <2>4. \A o \in Objects : samples'[o] # NoSample =>
            samples'[o].flush_epoch <= current_flush_epoch'
      BY <2>2, <2>3 DEF EpochsInv
  <2>5. ASSUME NEW u \in Threads, NEW o \in Objects, o \in flush'[u].before,
               samples'[o] # NoSample
        PROVE  samples'[o].flush_epoch <= flush'[u].epoch
    <3>1. CASE u = t
        BY <1>t, <2>1, <2>2, <2>5, <3>1 DEF EpochsInv, Types
    <3>2. CASE u # t
        BY <1>t, <2>2, <2>5, <3>2 DEF EpochsInv, Types
    <3> QED BY <3>1, <3>2
  <2> QED BY <2>4, <2>5 DEF EpochsInv
<1>11. ASSUME NEW t \in Threads, NEW s \in Slots, FlushVisit(t, s)
       PROVE  EpochsInv'
  <2>1. /\ s \in flush[t].todo /\ status = "ready"
        /\ Process(t, s, heap_samples[s], flush[t].todo \ {s})
        /\ UNCHANGED current_flush_epoch
      BY <1>11 DEF FlushVisit, config_vars
  <2>2. flush[t].todo \subseteq Tracked
      BY <2>1 DEF Sound, Contexts, FlushContext
  <2>3. heap_samples[s] \in Objects /\ flush[t].todo \ {s} \subseteq Tracked
      BY <1>t, <2>1, <2>2 DEF Types, Tracked
  <2> QED BY <1>t, <2>1, <2>3, ProcessEpochs
<1>12. ASSUME NEW t \in Threads, FlushResume(t) PROVE EpochsInv'
  <2>1. /\ pc[t] = "yielded" /\ status = "ready"
        /\ Process(t, flush[t].key, flush[t].held, flush[t].todo)
        /\ UNCHANGED current_flush_epoch
      BY <1>12 DEF FlushResume, Running, config_vars
  <2>2. /\ flush[t].held \in Objects /\ flush[t].key \in Slots
        /\ flush[t].todo \subseteq Tracked
      BY <1>t, <2>1, FlushFields DEF Types, Sound, Contexts, FlushContext
  <2> QED BY <1>t, <2>1, <2>2, ProcessEpochs
<1>13. ASSUME NEW t \in Threads, NEW s \in Slots, FlushYield(t, s)
       PROVE  EpochsInv'
  <2> DEFINE f == [flush[t] EXCEPT !.todo = @ \ {s}, !.key = s,
                                   !.held = heap_samples[s]]
  <2>1. /\ UNCHANGED <<samples, current_flush_epoch>>
        /\ flush' = [flush EXCEPT ![t] = f]
      BY <1>13 DEF FlushYield, table_vars, config_vars
  <2>2. f.epoch = flush[t].epoch /\ f.before = flush[t].before
      BY <1>t DEF Types, Flush
  <2> HIDE DEF f
  <2> QED BY <1>t, <1>1, <2>1, <2>2 DEF Types
<1>14. ASSUME NEW t \in Threads, FlushResumeFreed(t) \/ FlushResumeOrphaned(t)
       PROVE  EpochsInv'
  <2> DEFINE f == Onward(t, flush[t].todo)
             o == flush[t].held
  <2>1. /\ f.epoch = flush[t].epoch /\ f.before = flush[t].before
        /\ \A n : LET g == [f EXCEPT !.profile[o] = n] IN
              g.epoch = f.epoch /\ g.before = f.before
      BY <1>t, OnwardFacts
  <2> HIDE DEF f
  <2>2. /\ UNCHANGED <<samples, current_flush_epoch>>
        /\ \/ flush' = flush
           \/ flush' = [flush EXCEPT ![t] = f]
           \/ flush' = [flush EXCEPT ![t] =
                          [f EXCEPT !.profile[o] = OneMore(f.profile[o])]]
      BY <1>14 DEF FlushResumeFreed, FlushResumeOrphaned, table_vars,
                   config_vars, f
  <2>3. UNCHANGED flush \/
        \E g : /\ g.epoch = flush[t].epoch /\ g.before = flush[t].before
              /\ flush' = [flush EXCEPT ![t] = g]
      BY <2>1, <2>2
  <2> QED BY <1>t, <1>1, <2>2, <2>3 DEF Types
<1>15. ASSUME NEW t \in Threads, FlushFinish(t) \/ FlushFail(t)
       PROVE  EpochsInv'
  <2>1. /\ UNCHANGED <<samples, current_flush_epoch>>
        /\ flush' = [flush EXCEPT ![t] = NoFlush]
      BY <1>15 DEF FlushFinish, FlushFail, FlushReturn, Destroyed,
                   table_vars, config_vars
  <2>2. NoFlush.before = {}
      BY DEF NoFlush
  <2> QED BY <1>t, <2>1, <2>2 DEF EpochsInv, Types
<1>16. ASSUME \/ \E max \in MaxHeapSamples :
                    Initialize(max) \/ SetMaxHeapSamples(max)
              \/ GcBeforeInitialize \/ Stop \/ Terminated
              \/ \E s \in Slots : ForceRecycleObj(s)
              \/ \E t \in Threads : FlushEndWalk(t) \/ FlushSerialized(t)
              \/ UNCHANGED vars
       PROVE  EpochsInv'
  <2>1. UNCHANGED <<samples, current_flush_epoch, flush>>
      BY <1>16
      DEF Initialize, SetMaxHeapSamples, GcBeforeInitialize, Stop, Terminated,
          ForceRecycleObj, FlushEndWalk, FlushSerialized, table_vars,
          config_vars, vars
  <2> QED BY <1>1, <2>1
<1> QED
    BY <1>3, <1>4, <1>5, <1>6, <1>7, <1>8, <1>9, <1>10, <1>11, <1>12, <1>13,
       <1>14, <1>15, <1>16
    DEF Next, FlusherStep

\* An entry whose object had a sample when the flush of t began is in its
\* profile, or the walk still gets to it.
Seen(t, s) ==
    heap_samples[s] \in flush[t].before =>
        \/ flush[t].profile[heap_samples[s]] > 0
        \/ /\ Walking(t)
           /\ s \in flush[t].todo \/ heap_samples[s] = flush[t].held

\* After stop!, entries at reused slots make a compaction overwrite one entry
\* by another, whose place in the walk may be over.
Complete(t) ==
    pc[t] # "idle" /\ (is_tracing \/ ~Movable) =>
        \A s \in Tracked : Seen(t, s)

CompleteInv ==
    ~(ForceRecycle /\ Movable) => \A t \in Threads : Complete(t)

\* An entry that a step leaves alone stays seen.
LEMMA SeenKept ==
    ASSUME NEW t \in Threads, NEW s \in Slots, Seen(t, s),
           heap_samples'[s] = heap_samples[s],
           heap_samples[s] \in Objects,
           flush'[t].before = flush[t].before,
           flush[t].profile[heap_samples[s]] > 0 =>
               flush'[t].profile[heap_samples[s]] > 0,
           Walking(t) => /\ Walking(t)' /\ flush'[t].held = flush[t].held
                         /\ s \in flush[t].todo => s \in flush'[t].todo
    PROVE  Seen(t, s)'
BY DEF Seen

\* flush_each_sample is done with an entry: the object is in the profile, or
\* the entry is gone.  It does not skip one that was there from the start.
LEMMA ProcessSeen ==
    ASSUME Types, EpochsInv, NEW t \in Threads, NEW key \in Slots,
           NEW o \in Objects, NEW rest \in SUBSET Tracked,
           Process(t, key, o, rest), status' = "ready",
           samples[o] # NoSample, Walking(t)', NEW k \in Tracked',
           Seen(t, k), k \in flush[t].todo => k \in rest \/ heap_samples[k] = o,
           flush[t].held \in {NoObject, o}
    PROVE  Seen(t, k)'
<1>1. /\ k \in Slots /\ heap_samples'[k] = heap_samples[k]
      /\ heap_samples[k] \in Objects
  <2>1. \/ heap_samples' = heap_samples
        \/ heap_samples' = [heap_samples EXCEPT ![key] = NoObject]
      BY DEF Process, table_vars
  <2> QED BY <2>1 DEF Types, Tracked
<1>2. flush[t].profile \in [Objects -> Tally]
    BY FlushFields DEF Types
<1>3. /\ flush'[t].before = flush[t].before
      /\ \/ flush'[t].profile = flush[t].profile
         \/ flush'[t].profile = [flush[t].profile EXCEPT ![o] = OneMore(@)]
    BY ProcessFacts
<1>4. \A x \in Objects : flush[t].profile[x] > 0 => flush'[t].profile[x] > 0
    BY <1>2, <1>3 DEF OneMore, Tally
<1>5. CASE k \in flush[t].todo /\ heap_samples[k] # o
  <2>1. k \in rest
      BY <1>5
  <2>2. k \in flush'[t].todo
    <3> DEFINE f == Onward(t, rest)
    <3>1. /\ f.todo = rest /\ Onward(t, rest \ {key}).todo = rest \ {key}
          /\ \A n : [f EXCEPT !.profile[o] = n].todo = rest
        BY OnwardFacts
    <3> HIDE DEF f
    <3>2. \/ flush'[t] = f
          \/ flush'[t] = [f EXCEPT !.profile[o] = OneMore(f.profile[o])]
          \/ /\ flush'[t] = Onward(t, rest \ {key})
             /\ heap_samples' = [heap_samples EXCEPT ![key] = NoObject]
        BY ListedType DEF Process, Types, f
    <3>3. CASE /\ flush'[t] = Onward(t, rest \ {key})
               /\ heap_samples' = [heap_samples EXCEPT ![key] = NoObject]
      <4>1. k # key
          BY <3>3 DEF Tracked, Types
      <4> QED BY <2>1, <3>1, <3>3, <4>1
    <3> QED BY <2>1, <3>1, <3>2, <3>3
  <2> QED BY <1>1, <2>2 DEF Seen
<1>6. CASE heap_samples[k] = o
  <2> SUFFICES ASSUME o \in flush[t].before
               PROVE  flush'[t].profile[o] > 0
      BY <1>1, <1>3, <1>6 DEF Seen
  <2>1. ~TooNew(t, o)
    <3>1. samples[o].flush_epoch <= flush[t].epoch
        BY DEF EpochsInv
    <3>2. samples[o] \in Sample /\ flush[t] \in Flush
        BY DEF Types
    <3> QED BY <3>1, <3>2 DEF TooNew, Sample, Flush
  <2>2. CASE Validish(samples[o].allocated_value_weak)
    <3> DEFINE f == Onward(t, rest)
    <3>1. f.profile = flush[t].profile
          /\ \A n : [f EXCEPT !.profile[o] = n].profile
                        = [f.profile EXCEPT ![o] = n]
        BY OnwardFacts
    <3> HIDE DEF f
    <3>2. flush'[t] = [f EXCEPT !.profile[o] = OneMore(f.profile[o])]
        BY <2>1, <2>2 DEF Process, Types, f
    <3>3. flush'[t].profile =
              [flush[t].profile EXCEPT ![o] = OneMore(flush[t].profile[o])]
        BY <3>1, <3>2
    <3> QED BY <1>2, <3>3 DEF OneMore, Tally
  <2>3. CASE ~Validish(samples[o].allocated_value_weak)
    <3>1. /\ heap_samples' = [heap_samples EXCEPT ![key] = NoObject]
          /\ ~\E x \in Slots \ {key} : heap_samples[x] = o
        BY <2>1, <2>3 DEF Process
    <3>2. k = key /\ heap_samples'[k] = NoObject
        BY <1>1, <1>6, <3>1 DEF Types
    <3> QED BY <3>2 DEF Tracked
  <2> QED BY <2>2, <2>3
<1>7. CASE k \notin flush[t].todo /\ heap_samples[k] # o
  <2>1. heap_samples[k] # flush[t].held
      BY <1>1, <1>7
  <2> QED BY <1>1, <1>3, <1>4, <1>7, <2>1 DEF Seen
<1> QED BY <1>5, <1>6, <1>7

LEMMA CompleteStep ==
    Sound /\ CountInv /\ CurrentInv /\ EpochsInv /\ CompleteInv /\ [Next]_vars
        => CompleteInv'
<1> SUFFICES ASSUME Sound, CountInv, CurrentInv, EpochsInv, CompleteInv,
                    [Next]_vars
             PROVE  CompleteInv'
    OBVIOUS
<1> SUFFICES ASSUME ~(ForceRecycle /\ Movable),
                    NEW t \in Threads, pc'[t] # "idle",
                    is_tracing' \/ ~Movable, NEW k \in Tracked'
             PROVE  Seen(t, k)'
    BY DEF CompleteInv, Complete
<1>c. \A u \in Threads : Complete(u)
    BY DEF CompleteInv
<1>t. Types /\ SoundKeys
    BY DEF Sound
<1>k. /\ k \in Slots /\ heap_samples'[k] # NoObject
      /\ flush[t] \in Flush /\ flush[t].todo \subseteq Slots
      /\ flush[t].profile \in [Objects -> Tally]
    BY <1>t, FlushFields DEF Tracked, Types
\* Another thread's step, or one that leaves the entry and the flush alone.
<1>1. ASSUME pc[t] # "idle", is_tracing \/ ~Movable,
             heap_samples'[k] = heap_samples[k],
             flush'[t].before = flush[t].before,
             flush'[t].profile = flush[t].profile,
             Walking(t) => /\ Walking(t)' /\ flush'[t].held = flush[t].held
                           /\ k \in flush[t].todo => k \in flush'[t].todo
      PROVE  Seen(t, k)'
  <2>1. k \in Tracked /\ heap_samples[k] \in Objects
      BY <1>t, <1>k, <1>1 DEF Tracked, Types
  <2>2. Seen(t, k)
      BY <1>c, <1>1, <2>1 DEF Complete
  <2> QED BY <1>k, <1>1, <2>1, <2>2, SeenKept
<1>2. ASSUME NEW s \in Slots, UNCHANGED <<pc, is_tracing>>,
             MarkSampleValueAsFreed(s) \/ UNCHANGED <<table_vars, flush>>
      PROVE  Seen(t, k)'
  <2>1. CASE MarkSampleValueAsFreed(s)
    <3>1. /\ OnlyTodo(flush[t], flush'[t])
          /\ flush'[t].todo = flush[t].todo \ {s}
        BY <1>t, <2>1, UnlistedFacts DEF MarkSampleValueAsFreed
    <3>2. k # s /\ heap_samples'[k] = heap_samples[k]
        BY <1>t, <1>k, <2>1 DEF MarkSampleValueAsFreed, Types
    <3> QED BY <1>1, <1>2, <3>1, <3>2 DEF OnlyTodo, Walking
  <2>2. CASE UNCHANGED <<table_vars, flush>>
      BY <1>1, <1>2, <2>2 DEF table_vars, Walking
  <2> QED BY <1>2, <2>1, <2>2
<1>3. ASSUME NEW u \in Threads, NEW s \in Slots, NEW o \in Objects,
             \/ NewObjUntraced(u, s, o)
             \/ NewObjNotSampled(u, s, o)
             \/ NewObjDropped(u, s, o)
      PROVE  Seen(t, k)'
    BY <1>2, <1>3 DEF NewObjUntraced, NewObjNotSampled, NewObjDropped,
                      Allocates, PurgeRecycled
\* The new sample is not one the flush has to report.
<1>4. ASSUME NEW u \in Threads, NEW s \in Slots, NEW o \in Objects,
             NEW refs \in SUBSET Refs, NewObjSampled(u, s, o, refs)
      PROVE  Seen(t, k)'
  <2>1. /\ UNCHANGED <<pc, is_tracing>>
        /\ heap_samples' = [heap_samples EXCEPT ![s] = o]
        /\ flush' = Listed(s) /\ o \notin flush[t].before
      BY <1>4 DEF NewObjSampled, Allocates, Fresh
  <2>2. OnlyTodo(flush[t], flush'[t])
      BY <1>t, <2>1, ListedFacts
  <2>3. CASE k = s
      BY <1>t, <2>1, <2>2, <2>3 DEF Seen, OnlyTodo, Types
  <2>4. CASE k # s
    <3>1. heap_samples'[k] = heap_samples[k]
        BY <1>t, <1>k, <2>1, <2>4 DEF Types
    <3>2. flush[t].todo \subseteq flush'[t].todo
        BY <1>t, <1>k, <2>1, TodoOnly DEF Listed
    <3> QED BY <1>1, <2>1, <2>2, <3>1, <3>2 DEF OnlyTodo, Walking
  <2> QED BY <2>3, <2>4
<1>5. ASSUME NEW s \in Slots, FreeObj(s) PROVE Seen(t, k)'
    BY <1>2, <1>5 DEF FreeObj, FreeObjHook
\* A moved entry is put at the end of the walk.
<1>6. ASSUME NEW from \in Slots, NEW to \in Slots, CompactObject(from, to)
      PROVE  Seen(t, k)'
  <2>1. /\ UNCHANGED <<pc, is_tracing>> /\ Movable /\ is_tracing
        /\ heap[to] = NoObject /\ heap[from] # NoObject
        /\ CompactHeapSample(from, to)
      BY <1>6 DEF CompactObject
  <2>2. CASE heap_samples[from] = NoObject
    <3>1. UNCHANGED <<heap_samples, flush>>
        BY <2>1, <2>2 DEF CompactHeapSample
    <3> QED BY <1>1, <2>1, <3>1 DEF Walking
  <2>3. CASE heap_samples[from] # NoObject
    <3>1. /\ heap_samples' = Rekeyed(from, to) /\ flush' = Relisted(from, to)
          /\ from \in Tracked /\ heap_samples[from] \in Objects /\ from # to
        BY <1>t, <2>1, <2>3 DEF CompactHeapSample, Tracked, Types
    <3>2. heap_samples[to] = NoObject
      <4>1. to \notin Tracked
          BY <2>1 DEF CurrentInv, TrackedAreCurrent, Tracked
      <4> QED BY <4>1 DEF Tracked
    <3>3. /\ OnlyTodo(flush[t], flush'[t])
          /\ Walking(t) => flush'[t].todo = (flush[t].todo \ {from}) \union {to}
      <4> DEFINE T == (flush[t].todo \ {from}) \union
                      (IF Walking(t) /\ heap_samples[to] = NoObject
                       THEN {to} ELSE {})
      <4>1. flush'[t] = [flush[t] EXCEPT !.todo = T]
          BY <3>1 DEF Relisted
      <4>2. Walking(t) => T = (flush[t].todo \ {from}) \union {to}
          BY <3>2
      <4> HIDE DEF T
      <4> QED BY <1>k, <4>1, <4>2, TodoOnly
    <3>4. CASE k = to
      <4>1. heap_samples'[k] = heap_samples[from]
          BY <1>t, <3>1, <3>4 DEF Rekeyed, Types
      <4>2. Seen(t, from)
          BY <1>c, <2>1, <3>1 DEF Complete
      <4> QED BY <2>1, <3>3, <3>4, <4>1, <4>2 DEF Seen, OnlyTodo, Walking
    <3>5. CASE k # to
      <4>1. k # from /\ heap_samples'[k] = heap_samples[k]
          BY <1>t, <1>k, <3>1, <3>5 DEF Rekeyed, Types
      <4> QED BY <1>1, <2>1, <3>3, <4>1 DEF OnlyTodo, Walking
    <3> QED BY <3>4, <3>5
  <2> QED BY <2>2, <2>3
\* start! finds an empty table, or empties it.
<1>7. CASE Start
  <2>1. CASE MustClear
      BY <1>7, <2>1 DEF Start, Tracked
  <2>2. CASE ~MustClear
    <3>1. /\ status = "ready" /\ Tracked' = Tracked
          /\ heap_samples_count <= 0
        BY <1>t, <1>7, <2>2 DEF Start, Running, MustClear, Tracked, Types
    <3>2. Cardinality(Covered) = 0
        BY <1>t, <3>1, CoveredFinite DEF CountInv, Types
    <3>3. Covered = {}
        BY <1>t, <3>2, CoveredFinite, FS_EmptySet
    <3> QED BY <3>1, <3>3 DEF Covered, TrackedObjects
  <2> QED BY <2>1, <2>2
<1>8. ASSUME NEW u \in Threads, FlushBegin(u) PROVE Seen(t, k)'
  <2> DEFINE new == [NoFlush EXCEPT !.epoch = FlushEpoch, !.todo = Tracked,
                                    !.before = TrackedObjects]
  <2>1. new.todo = Tracked
      BY DEF NoFlush
  <2>2. /\ UNCHANGED <<heap_samples, is_tracing>>
        /\ pc' = [pc EXCEPT ![u] = "walk"]
        /\ flush' = [flush EXCEPT ![u] = new]
      BY <1>8 DEF FlushBegin, table_vars
  <2> HIDE DEF new
  <2>3. CASE t = u
    <3>1. pc'[t] = "walk" /\ flush'[t] = new
        BY <1>t, <2>2, <2>3 DEF Types
    <3>2. k \in Tracked
        BY <2>2 DEF Tracked
    <3> QED BY <2>1, <3>1, <3>2 DEF Seen, Walking
  <2>4. CASE t # u
    <3>1. pc'[t] = pc[t] /\ flush'[t] = flush[t]
        BY <1>t, <2>2, <2>4 DEF Types
    <3> QED BY <1>1, <2>2, <3>1 DEF Walking
  <2> QED BY <2>3, <2>4
\* flush_each_sample, with or without a yield before.
<1>9. ASSUME NEW u \in Threads, NEW key \in Slots, NEW o \in Objects,
             NEW rest \in SUBSET Tracked, Process(u, key, o, rest),
             samples[o] # NoSample, Walking(u), UNCHANGED is_tracing,
             status = "ready",
             pc' = [pc EXCEPT ![u] = "walk"],
             \A s \in flush[u].todo : s \in rest \/ heap_samples[s] = o,
             flush[u].held \in {NoObject, o}
      PROVE  Seen(t, k)'
  <2>1. CASE status' # "ready"
    <3>1. UNCHANGED <<heap_samples, flush>>
        BY <1>9, <2>1 DEF Process, table_vars
    <3>2. pc[t] # "idle" /\ (Walking(t) => Walking(t)')
        BY <1>t, <1>9 DEF Walking, Types
    <3> QED BY <1>1, <1>9, <3>1, <3>2
  <2>2. CASE status' = "ready" /\ t = u
    <3>1. k \in Tracked
      <4>1. \/ heap_samples' = heap_samples
            \/ heap_samples' = [heap_samples EXCEPT ![key] = NoObject]
          BY <1>9 DEF Process, table_vars
      <4> QED BY <1>t, <4>1 DEF Types, Tracked
    <3>2. Seen(t, k) /\ Walking(t)'
        BY <1>c, <1>t, <1>9, <2>2, <3>1 DEF Complete, Walking, Types
    <3>3. k \in flush[t].todo => k \in rest \/ heap_samples[k] = o
        BY <1>9, <2>2
    <3> QED BY <1>t, <1>9, <2>2, <3>2, <3>3, ProcessSeen
  <2>3. CASE status' = "ready" /\ t # u
    <3>1. \/ flush'[t] = flush[t] /\ UNCHANGED heap_samples
          \/ /\ flush'[t] = Unlisted(key)[t]
             /\ heap_samples' = [heap_samples EXCEPT ![key] = NoObject]
        BY <1>t, <1>9, <2>3, ProcessOther
    <3>2. pc'[t] = pc[t]
        BY <1>t, <1>9, <2>3 DEF Types
    <3>3. CASE flush'[t] = flush[t] /\ UNCHANGED heap_samples
        BY <1>1, <1>9, <3>2, <3>3 DEF Walking
    <3>4. CASE /\ flush'[t] = Unlisted(key)[t]
               /\ heap_samples' = [heap_samples EXCEPT ![key] = NoObject]
      <4>1. /\ OnlyTodo(flush[t], flush'[t])
            /\ flush'[t].todo = flush[t].todo \ {key}
          BY <1>t, <3>4, UnlistedFacts
      <4>2. k # key /\ heap_samples'[k] = heap_samples[k]
          BY <1>t, <1>k, <3>4 DEF Types
      <4> QED BY <1>1, <1>9, <3>2, <4>1, <4>2 DEF OnlyTodo, Walking
    <3> QED BY <3>1, <3>3, <3>4
  <2> QED BY <2>1, <2>2, <2>3
<1>10. ASSUME NEW u \in Threads, NEW s \in Slots, FlushVisit(u, s)
       PROVE  Seen(t, k)'
  <2> DEFINE rest == flush[u].todo \ {s}
             o == heap_samples[s]
  <2>1. /\ s \in flush[u].todo /\ status = "ready" /\ pc[u] = "walk"
        /\ Process(u, s, o, rest)
        /\ UNCHANGED is_tracing /\ pc' = [pc EXCEPT ![u] = "walk"]
      BY <1>t, <1>10 DEF FlushVisit, Types
  <2>2. flush[u].todo \subseteq Tracked /\ flush[u].held = NoObject
      BY <2>1 DEF Sound, Contexts, FlushContext
  <2>3. o \in Objects /\ rest \in SUBSET Tracked /\ samples[o] # NoSample
      BY <1>t, <2>1, <2>2 DEF Types, Tracked, SoundKeys
  <2>4. \A x \in flush[u].todo : x \in rest \/ heap_samples[x] = o
      OBVIOUS
  <2> HIDE DEF rest, o
  <2> QED BY <1>9, <2>1, <2>2, <2>3, <2>4 DEF Walking
<1>11. ASSUME NEW u \in Threads, FlushResume(u) PROVE Seen(t, k)'
  <2> DEFINE rest == flush[u].todo
             o == flush[u].held
             key == flush[u].key
  <2>1. /\ pc[u] = "yielded" /\ status = "ready" /\ samples[o] # NoSample
        /\ Process(u, key, o, rest)
        /\ UNCHANGED is_tracing /\ pc' = [pc EXCEPT ![u] = "walk"]
      BY <1>11 DEF FlushResume, Running
  <2>2. o \in Objects /\ key \in Slots /\ rest \in SUBSET Tracked
      BY <1>t, <2>1, FlushFields DEF Types, Sound, Contexts, FlushContext
  <2>3. /\ \A x \in flush[u].todo : x \in rest \/ heap_samples[x] = o
        /\ flush[u].held \in {NoObject, o}
      OBVIOUS
  <2> HIDE DEF rest, o, key
  <2> QED BY <1>9, <2>1, <2>2, <2>3 DEF Walking
<1>12. ASSUME NEW u \in Threads, NEW s \in Slots, FlushYield(u, s)
       PROVE  Seen(t, k)'
  <2> DEFINE f == [flush[u] EXCEPT !.todo = @ \ {s}, !.key = s,
                                   !.held = heap_samples[s]]
  <2>1. /\ UNCHANGED <<heap_samples, is_tracing>> /\ status = "ready"
        /\ pc' = [pc EXCEPT ![u] = "yielded"]
        /\ flush' = [flush EXCEPT ![u] = f]
        /\ pc[u] = "walk"
      BY <1>12 DEF FlushYield, table_vars
  <2>2. /\ f.held = heap_samples[s] /\ f.todo = flush[u].todo \ {s}
        /\ f.profile = flush[u].profile /\ f.before = flush[u].before
      BY <1>t DEF Types, Flush
  <2> HIDE DEF f
  <2>3. CASE t = u
    <3>1. flush'[t] = f /\ Walking(t) /\ Walking(t)'
        BY <1>t, <2>1, <2>3 DEF Types, Walking
    <3>2. flush[t].held = NoObject
        BY <2>1, <2>3 DEF Sound, Contexts, FlushContext
    <3>3. k \in Tracked /\ Seen(t, k)
        BY <1>c, <2>1, <2>3 DEF Complete, Tracked
    <3> QED BY <1>k, <2>1, <2>2, <2>3, <3>1, <3>2, <3>3 DEF Seen
  <2>4. CASE t # u
    <3>1. pc'[t] = pc[t] /\ flush'[t] = flush[t]
        BY <1>t, <2>1, <2>4 DEF Types
    <3> QED BY <1>1, <2>1, <3>1 DEF Walking
  <2> QED BY <2>3, <2>4
\* The sample that was freed meanwhile was the last of its object.
<1>13. ASSUME NEW u \in Threads, FlushResumeFreed(u) \/ FlushResumeOrphaned(u)
       PROVE  Seen(t, k)'
  <2> DEFINE f == Onward(u, flush[u].todo)
             o == flush[u].held
  <2>1. /\ f.before = flush[u].before /\ f.profile = flush[u].profile
        /\ f.todo = flush[u].todo
        /\ \A n : LET g == [f EXCEPT !.profile[o] = n] IN
              /\ g.before = flush[u].before /\ g.todo = flush[u].todo
              /\ g.profile = [f.profile EXCEPT ![o] = n]
      BY <1>t, OnwardFacts
  <2> HIDE DEF f
  <2>2. /\ UNCHANGED <<heap_samples, samples, is_tracing>>
        /\ \/ UNCHANGED <<pc, flush>>
           \/ /\ pc[u] = "yielded" /\ samples[o] = NoSample
              /\ status = "ready" /\ pc' = [pc EXCEPT ![u] = "walk"]
              /\ \/ flush' = [flush EXCEPT ![u] = f]
                 \/ flush' = [flush EXCEPT ![u] =
                                [f EXCEPT !.profile[o] = OneMore(f.profile[o])]]
           \/ /\ pc[u] = "orphaned"
              /\ pc' = [pc EXCEPT ![u] = "serialize"]
              /\ flush' = [flush EXCEPT ![u] = f]
      BY <1>13 DEF FlushResumeFreed, FlushResumeOrphaned, Running,
                   table_vars, f
  <2>3. k \in Tracked /\ heap_samples[k] \in Objects
      BY <1>t, <2>2 DEF Tracked, Types
  <2>4. CASE UNCHANGED <<pc, flush>>
      BY <1>1, <2>2, <2>4 DEF Walking
  <2>5. CASE t # u /\ ~UNCHANGED <<pc, flush>>
    <3>1. pc'[t] = pc[t] /\ flush'[t] = flush[t]
        BY <1>t, <2>2, <2>5 DEF Types
    <3> QED BY <1>1, <2>2, <3>1 DEF Walking
  <2>6. CASE /\ t = u /\ pc[u] = "yielded" /\ samples[o] = NoSample
             /\ status = "ready" /\ pc' = [pc EXCEPT ![u] = "walk"]
             /\ \/ flush' = [flush EXCEPT ![u] = f]
                \/ flush' = [flush EXCEPT ![u] =
                               [f EXCEPT !.profile[o] = OneMore(f.profile[o])]]
    <3>1. heap_samples[k] # o
        BY <1>t, <2>3, <2>6 DEF SoundKeys
    <3>2. Seen(t, k) /\ Walking(t)'
        BY <1>c, <1>t, <2>2, <2>3, <2>6 DEF Complete, Walking, Types
    <3>3. /\ flush'[t].before = flush[t].before
          /\ flush'[t].todo = flush[t].todo
          /\ \/ flush'[t].profile = flush[t].profile
             \/ flush'[t].profile =
                    [flush[t].profile EXCEPT ![o] = OneMore(flush[t].profile[o])]
      <4>1. \/ flush'[t] = f
            \/ flush'[t] = [f EXCEPT !.profile[o] = OneMore(f.profile[o])]
          BY <1>t, <2>6 DEF Types
      <4>2. CASE flush'[t] = f
          BY <2>1, <2>6, <4>2
      <4>3. CASE flush'[t] = [f EXCEPT !.profile[o] = OneMore(f.profile[o])]
          BY <2>1, <2>6, <4>3
      <4> QED BY <4>1, <4>2, <4>3
    <3>4. flush'[t].profile[heap_samples[k]] = flush[t].profile[heap_samples[k]]
        BY <1>k, <2>3, <3>1, <3>3
    <3> QED BY <2>2, <2>6, <3>1, <3>2, <3>3, <3>4 DEF Seen
  <2>7. CASE /\ t = u /\ pc[u] = "orphaned"
             /\ pc' = [pc EXCEPT ![u] = "serialize"]
             /\ flush' = [flush EXCEPT ![u] = f]
    <3>1. Seen(t, k) /\ ~Walking(t)
        BY <1>c, <2>2, <2>3, <2>7 DEF Complete, Walking
    <3>2. flush'[t] = f
        BY <1>t, <2>7 DEF Types
    <3> QED BY <2>1, <2>2, <2>7, <3>1, <3>2 DEF Seen
  <2> QED BY <2>2, <2>4, <2>5, <2>6, <2>7
\* Nothing is left to visit at the end of the walk.
<1>14. ASSUME NEW u \in Threads, FlushEndWalk(u) \/ FlushSerialized(u)
       PROVE  Seen(t, k)'
  <2>1. /\ UNCHANGED <<heap_samples, is_tracing, flush>> /\ status = "ready"
        /\ \/ pc[u] = "walk" /\ flush[u].todo = {}
           \/ pc[u] = "serialize"
        /\ \A v \in Threads \ {u} : pc'[v] = pc[v]
      BY <1>t, <1>14
      DEF FlushEndWalk, FlushSerialized, Running, table_vars, Types
  <2>2. k \in Tracked
      BY <2>1 DEF Tracked
  <2>3. CASE t = u
    <3>1. flush[t].held = NoObject \/ ~Walking(t)
        BY <2>1, <2>3 DEF Sound, Contexts, FlushContext, Walking
    <3>2. Seen(t, k)
        BY <1>c, <2>1, <2>2, <2>3 DEF Complete
    <3> QED BY <1>k, <2>1, <2>3, <3>1, <3>2 DEF Seen, Walking
  <2>4. CASE t # u
      BY <1>1, <2>1, <2>4 DEF Walking
  <2> QED BY <2>3, <2>4
<1>15. ASSUME NEW u \in Threads, FlushFinish(u) \/ FlushFail(u)
       PROVE  Seen(t, k)'
  <2>1. /\ UNCHANGED <<heap_samples, is_tracing>>
        /\ pc' = [pc EXCEPT ![u] = "idle"]
        /\ flush' = [flush EXCEPT ![u] = NoFlush]
      BY <1>15 DEF FlushFinish, FlushFail, FlushReturn, Destroyed, table_vars
  <2>2. t # u
      BY <1>t, <2>1 DEF Types
  <2>3. pc'[t] = pc[t] /\ flush'[t] = flush[t]
      BY <1>t, <2>1, <2>2 DEF Types
  <2> QED BY <1>1, <2>1, <2>3 DEF Walking
<1>16. CASE Stop \/ \E r, q \in Refs : CompactRef(r, q)
  <2>1. /\ UNCHANGED <<heap_samples, pc, flush>>
        /\ is_tracing' => is_tracing
      BY <1>16 DEF Stop, CompactRef, table_vars
  <2> QED BY <1>1, <2>1 DEF Walking
<1>17. ~GcFree
    BY DEF GcFree
<1>18. ASSUME \/ \E max \in MaxHeapSamples :
                    Initialize(max) \/ SetMaxHeapSamples(max)
              \/ GcBeforeInitialize \/ Terminated
              \/ \E s \in Slots : ForceRecycleObj(s)
              \/ UNCHANGED vars
       PROVE  Seen(t, k)'
  <2>1. UNCHANGED <<heap_samples, is_tracing, pc, flush>>
      BY <1>18
      DEF Initialize, SetMaxHeapSamples, GcBeforeInitialize, Terminated,
          ForceRecycleObj, table_vars, vars
  <2> QED BY <1>1, <2>1 DEF Walking
<1> QED
    BY <1>3, <1>4, <1>5, <1>6, <1>7, <1>8, <1>10, <1>11, <1>12, <1>13, <1>14,
       <1>15, <1>16, <1>17, <1>18
    DEF Next, FlusherStep

\* While tracing, and always without GC.compact, a flush reports every object
\* that had a sample when it began and still has one, though other threads
\* run, and compactions move entries, between two of its visits.
THEOREM ProfilesAreComplete ==
    ASSUME ~(ForceRecycle /\ Movable)
    PROVE  Spec => []ProfileComplete
<1>1. Init => EpochsInv /\ CompleteInv
    BY DEF Init, EpochsInv, CompleteInv, Complete, NoFlush
<1>2. Sound /\ CountInv /\ CurrentInv /\ EpochsInv /\ CompleteInv /\ [Next]_vars
          => EpochsInv' /\ CompleteInv'
    BY EpochsStep, CompleteStep
<1>3. CompleteInv => ProfileComplete
  <2> SUFFICES ASSUME CompleteInv, NEW t \in Threads,
                      pc[t] \in {"serialize", "finish"},
                      is_tracing \/ ~Movable,
                      NEW o \in flush[t].before, o \in TrackedObjects
               PROVE  flush[t].profile[o] > 0
      BY DEF ProfileComplete
  <2>1. PICK s \in Tracked : heap_samples[s] = o
      BY DEF TrackedObjects
  <2>2. Seen(t, s)
      BY DEF CompleteInv, Complete
  <2> QED BY <2>1, <2>2 DEF Seen, Walking
<1> QED BY CurrentAlways, <1>1, <1>2, <1>3, PTL DEF Spec

=============================================================================
