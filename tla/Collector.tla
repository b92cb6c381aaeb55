----------------------------- MODULE Collector -----------------------------
(***************************************************************************)
(* The MemprofilerPprof::Collector of collector.c: it traces every object  *)
(* allocation and free of a Ruby process, keeps one sample per sampled     *)
(* live object in heap_samples, counts in mark_table the VALUEs those      *)
(* samples reference, and on #flush walks heap_samples to build a profile. *)
(*                                                                         *)
(* The Ruby heap is a set of slots.  An allocation puts a new object into  *)
(* an empty slot, the sweep empties it, GC.compact moves an object to an   *)
(* empty slot and rb_gc_force_recycle empties a slot behind the back of    *)
(* the freeobj hook.  An object also names its `struct mpp_sample', as an  *)
(* object is sampled at most once.                                         *)
(*                                                                         *)
(* Every handler runs under the GVL, so it is one atomic step, except      *)
(* #flush: it can give the GVL up between two samples (rb_thread_schedule) *)
(* and while it serialises (rb_thread_call_without_gvl), and becomes one   *)
(* step per visited sample.                                                *)
(***************************************************************************)
EXTENDS Integers, FiniteSets

CONSTANTS
    Threads,          \* the Ruby threads that allocate or flush
    Slots,            \* heap slots: the VALUEs an object can live at
    Objects,          \* identities of objects, and of their samples
    Refs,             \* VALUEs that the frames of a backtrace reference
    NoThread,         \* flush_thread is Qnil
    NoObject,         \* an empty slot; no entry in heap_samples
    NoSample,         \* the sample is not allocated
    NoSlot,           \* no walk in progress
    ForceRecycle,     \* HAVE_WORKING_RB_GC_FORCE_RECYCLE (Ruby < 3.1)
    Movable,          \* HAVE_RB_GC_MARK_MOVABLE (Ruby >= 2.7)
    Proactive,        \* flushes pass proactively_yield_gvl: true
    MaxHeapSamples,   \* values given to max_heap_samples=
    MaxEpoch,         \* bound on the number of flushes
    MaxDropped,       \* bound on the drop counter
    MaxRefcount       \* bound on the counts in mark_table

ASSUME FiniteHeap ==
    IsFiniteSet(Slots) /\ IsFiniteSet(Objects) /\ IsFiniteSet(Refs)

ASSUME NothingIsNotAThing ==
    /\ NoThread \notin Threads
    /\ NoObject \notin Objects
    /\ NoSlot \notin Slots

ASSUME BuildFlags ==
    /\ ForceRecycle \in BOOLEAN
    /\ Movable \in BOOLEAN
    /\ Proactive \in BOOLEAN

ASSUME Bounds ==
    /\ MaxHeapSamples \subseteq Nat
    /\ MaxEpoch \in Nat
    /\ MaxDropped \in Nat
    /\ MaxRefcount \in Nat

VARIABLES
    status,           \* what has become of the collector
    is_tracing,
    heap,             \* the object in each slot of the Ruby heap
    heap_samples,     \* the object whose sample is keyed by each slot
    heap_samples_count,
    max_heap_samples,
    current_flush_epoch,
    dropped_samples_heap_bufsize,
    samples,          \* the contents of each allocated mpp_sample
    mark_table,       \* VALUE -> refcount; 0 when it has no entry
    flush_thread,
    pc,               \* where each thread is in #flush
    flush             \* the flush_each_sample_ctx of each thread

table_vars == <<heap_samples, heap_samples_count, samples, mark_table>>
config_vars == <<max_heap_samples, current_flush_epoch,
                 dropped_samples_heap_bufsize>>
vars == <<status, is_tracing, heap, table_vars, config_vars, flush_thread,
          pc, flush>>

Status == {"allocated", "ready", "freed",
           "assert_failed", "segfault", "heap_corrupt"}

PC == {"idle", "walk", "yielded", "orphaned", "serialize", "finish"}

\* How often an object is in a profile: never, once, or more than once.
Tally == 0 .. 2
OneMore(n) == IF n < 2 THEN n + 1 ELSE n

Sample == [allocated_value_weak : Slots, flush_epoch : Nat,
           refs : SUBSET Refs]

ASSUME SampleIsSomething == NoSample \notin Sample

\* `todo' holds the keys st_foreach has not visited, `key' and `held' the
\* entry it is visiting.  `before' is a history variable: the objects with a
\* sample when the flush began.
Flush == [epoch : Nat, todo : SUBSET Slots, key : Slots \union {NoSlot},
          held : Objects \union {NoObject}, profile : [Objects -> Tally],
          before : SUBSET Objects]

EmptyProfile == [o \in Objects |-> 0]
NoFlush == [epoch |-> 0, todo |-> {}, key |-> NoSlot, held |-> NoObject,
            profile |-> EmptyProfile, before |-> {}]

Tracked == {s \in Slots : heap_samples[s] # NoObject}
TrackedObjects == {heap_samples[s] : s \in Tracked}
HeapObjects == {heap[s] : s \in Slots} \ {NoObject}

Types ==
    /\ status \in Status
    /\ is_tracing \in BOOLEAN
    /\ heap \in [Slots -> Objects \union {NoObject}]
    /\ heap_samples \in [Slots -> Objects \union {NoObject}]
    /\ heap_samples_count \in Int
    /\ max_heap_samples \in Nat
    /\ current_flush_epoch \in Nat
    /\ dropped_samples_heap_bufsize \in Nat
    /\ samples \in [Objects -> Sample \union {NoSample}]
    /\ mark_table \in [Refs -> Int]
    /\ flush_thread \in Threads \union {NoThread}
    /\ pc \in [Threads -> PC]
    /\ flush \in [Threads -> Flush]

\* What a thread keeps of a flush at each point of it.
FlushContext(t) ==
    /\ pc[t] = "idle" => flush[t] = NoFlush
    /\ pc[t] = "yielded" => flush[t].held # NoObject
    /\ pc[t] \notin {"yielded", "orphaned"} => flush[t].held = NoObject
    /\ flush[t].held = NoObject <=> flush[t].key = NoSlot
    /\ flush[t].todo \subseteq Tracked

\* The types of the variables and the consistency of the flushes: none is
\* left behind by a return or a failure, and a walk never gets to a key that
\* has no entry any more.
TypeOK == Types /\ (status = "ready" => \A t \in Threads : FlushContext(t))

-----------------------------------------------------------------------------
(* Creation                                                                *)

\* collector_alloc.
Init ==
    /\ status = "allocated"
    /\ is_tracing = FALSE
    /\ heap = [s \in Slots |-> NoObject]
    /\ heap_samples = [s \in Slots |-> NoObject]
    /\ heap_samples_count = 0
    /\ max_heap_samples = 0
    /\ current_flush_epoch = 0
    /\ dropped_samples_heap_bufsize = 0
    /\ samples = [o \in Objects |-> NoSample]
    /\ mark_table = [r \in Refs |-> 0]
    /\ flush_thread = NoThread
    /\ pc = [t \in Threads |-> "idle"]
    /\ flush = [t \in Threads |-> NoFlush]

\* collector_initialize: creates both tables, after max_heap_samples=.
Initialize(max) ==
    /\ status = "allocated"
    /\ status' = "ready"
    /\ max_heap_samples' = max
    /\ UNCHANGED <<is_tracing, heap, table_vars, current_flush_epoch,
                   dropped_samples_heap_bufsize, flush_thread, pc, flush>>

\* A GC between allocate and the end of initialize: collector_cdata_gc_mark
\* walks a mark_table that is still NULL.
GcBeforeInitialize ==
    /\ status = "allocated"
    /\ status' = "segfault"
    /\ UNCHANGED <<is_tracing, heap, table_vars, config_vars, flush_thread,
                   pc, flush>>

-----------------------------------------------------------------------------
(* The tables                                                              *)

\* Only a thread that is walking heap_samples keeps the GVL across steps.
GvlFree == \A t \in Threads : pc[t] # "walk"
Running == status = "ready" /\ GvlFree

\* The threads whose st_foreach over heap_samples is in progress.
Walking(t) == pc[t] \in {"walk", "yielded"}

\* st_insert appends: a walk in progress will get to the new key.
Listed(s) ==
    [t \in Threads |->
        IF Walking(t) THEN [flush[t] EXCEPT !.todo = @ \union {s}]
                      ELSE flush[t]]
Unlisted(s) ==
    [t \in Threads |-> [flush[t] EXCEPT !.todo = @ \ {s}]]

\* The tables once the sample of o is freed; for NoObject, as they are.
\* Faults: the sample is not freed; the count goes down for no entry.
WithoutSample_Leaked(o) == samples
CountWithout_Always(o) == heap_samples_count - 1

WithoutSample(o) == [x \in Objects |-> IF x = o THEN NoSample ELSE samples[x]]
CountWithout(o) ==
    IF o = NoObject THEN heap_samples_count ELSE heap_samples_count - 1
RefsOf(o) == IF o = NoObject THEN {} ELSE samples[o].refs

\* mark_table_refcount_dec on each of dec, mark_table_refcount_inc on each of
\* inc.
Recount(dec, inc) ==
    [r \in Refs |-> mark_table[r] + (IF r \in inc THEN 1 ELSE 0)
                                  - (IF r \in dec THEN 1 ELSE 0)]

\* collector_mark_sample_value_as_freed: nothing happens to an untracked slot.
MarkSampleValueAsFreed(s) ==
    LET o == heap_samples[s] IN
    /\ heap_samples' = [heap_samples EXCEPT ![s] = NoObject]
    /\ heap_samples_count' = CountWithout(o)
    /\ samples' = WithoutSample(o)
    /\ mark_table' = Recount(RefsOf(o), {})
    /\ flush' = Unlisted(s)

\* The start of the newobj hook on a Ruby with rb_gc_force_recycle.
PurgeRecycled(s) ==
    IF ForceRecycle THEN MarkSampleValueAsFreed(s)
                    ELSE UNCHANGED <<table_vars, flush>>

-----------------------------------------------------------------------------
(* The Ruby heap and the tracepoint hooks                                  *)

\* Nothing in the collector still refers to object o.
Fresh(o) ==
    /\ o \notin HeapObjects
    /\ samples[o] = NoSample
    /\ \A t \in Threads : /\ flush[t].profile[o] = 0
                          /\ o \notin flush[t].before
                          /\ o # flush[t].held

\* Thread t allocates object o in slot s.  A thread in #flush allocates the
\* ProfileData it is about to return.
Allocates(t, s, o) ==
    /\ Running
    /\ pc[t] \in {"idle", "finish"}
    /\ heap[s] = NoObject
    /\ Fresh(o)
    /\ heap' = [heap EXCEPT ![s] = o]
    /\ UNCHANGED <<is_tracing, max_heap_samples, current_flush_epoch,
                   flush_thread, pc>>

NewObjUntraced(t, s, o) ==
    /\ ~is_tracing
    /\ Allocates(t, s, o)
    /\ UNCHANGED <<status, table_vars, dropped_samples_heap_bufsize, flush>>

\* mpp_rand() > u32_sample_rate, or t is the flusher.
NewObjNotSampled(t, s, o) ==
    /\ is_tracing
    /\ Allocates(t, s, o)
    /\ PurgeRecycled(s)
    /\ UNCHANGED <<status, dropped_samples_heap_bufsize>>

\* The stale sample that the newobj hook drops on the way.
Purged(s) == IF ForceRecycle THEN heap_samples[s] ELSE NoObject

\* heap_samples_count at the check for space in the buffer.
\* Fault: the sample that was purged is still counted.
CountAfterPurge_Stale(s) == heap_samples_count
CountAfterPurge(s) == CountWithout(Purged(s))

Excluded(t) == t = flush_thread

NewObjDropped(t, s, o) ==
    /\ is_tracing
    /\ ~Excluded(t)
    /\ CountAfterPurge(s) >= max_heap_samples
    /\ dropped_samples_heap_bufsize < MaxDropped
    /\ Allocates(t, s, o)
    /\ PurgeRecycled(s)
    /\ dropped_samples_heap_bufsize' = dropped_samples_heap_bufsize + 1
    /\ UNCHANGED status

\* mpp_sample_capture: the sample of an object in slot s, whose frames
\* reference the VALUEs refs.  The hook adds the epoch.
Captured(s, refs) ==
    [allocated_value_weak |-> s,
     flush_epoch |-> current_flush_epoch,
     refs |-> refs]

\* The sample is captured, inserted under key s and its VALUEs are counted.
\* When s is tracked the MPP_ASSERT on st_insert aborts the process.
NewObjSampled(t, s, o, refs) ==
    /\ is_tracing
    /\ ~Excluded(t)
    /\ CountAfterPurge(s) < max_heap_samples
    /\ \A r \in refs : mark_table[r] < MaxRefcount
    /\ Allocates(t, s, o)
    /\ status' = IF heap_samples[s] \in {NoObject, Purged(s)}
                 THEN "ready" ELSE "assert_failed"
    /\ heap_samples' = [heap_samples EXCEPT ![s] = o]
    /\ heap_samples_count' = CountAfterPurge(s) + 1
    /\ samples' = [WithoutSample(Purged(s)) EXCEPT ![o] = Captured(s, refs)]
    /\ mark_table' = Recount(RefsOf(Purged(s)), refs)
    /\ flush' = Listed(s)
    /\ UNCHANGED dropped_samples_heap_bufsize

\* collector_tphook_freeobj, enabled while tracing.
\* Fault: a GC inside another hook, where Ruby does not run this one.
FreeObjHook_Skipped(s) == UNCHANGED <<table_vars, flush>>
FreeObjHook(s) ==
    IF is_tracing THEN MarkSampleValueAsFreed(s)
                  ELSE UNCHANGED <<table_vars, flush>>

\* The sweep frees the object in slot s.
FreeObj(s) ==
    /\ Running
    /\ heap[s] # NoObject
    /\ heap' = [heap EXCEPT ![s] = NoObject]
    /\ FreeObjHook(s)
    /\ UNCHANGED <<status, is_tracing, config_vars, flush_thread, pc>>

\* rb_gc_force_recycle: a free without the freeobj hook.
ForceRecycleObj(s) ==
    /\ Running
    /\ ForceRecycle
    /\ heap[s] # NoObject
    /\ heap' = [heap EXCEPT ![s] = NoObject]
    /\ UNCHANGED <<status, is_tracing, table_vars, config_vars, flush_thread,
                   pc, flush>>

-----------------------------------------------------------------------------
(* GC.compact                                                              *)

\* collector_compact_each_heap_sample: the sample of o, keyed by `from', is
\* inserted again under `to'.  An entry that `to' still has is overwritten,
\* and its place in the walks kept; a new entry goes to the end of the walks.
\* Faults: the weak reference is not updated, walks do not get to the new
\* entry, nothing is done.
Rekeyed(from, to) ==
    [heap_samples EXCEPT ![from] = NoObject, ![to] = heap_samples[from]]

Relocated_Stale(o, to) == samples
Relocated(o, to) == [samples EXCEPT ![o].allocated_value_weak = to]

Relisted_Hidden(from, to) == Unlisted(from)
Relisted(from, to) ==
    [t \in Threads |->
        [flush[t] EXCEPT !.todo =
            (@ \ {from}) \union
            (IF Walking(t) /\ heap_samples[to] = NoObject THEN {to} ELSE {})]]

CompactHeapSample_Never(from, to) == UNCHANGED <<heap_samples, samples, flush>>
CompactHeapSample(from, to) ==
    IF heap_samples[from] = NoObject
    THEN UNCHANGED <<heap_samples, samples, flush>>
    ELSE /\ heap_samples' = Rekeyed(from, to)
         /\ samples' = Relocated(heap_samples[from], to)
         /\ flush' = Relisted(from, to)

\* One sampled or unsampled object moves to an empty slot.
CompactObject(from, to) ==
    /\ Running
    /\ Movable
    /\ heap[from] # NoObject
    /\ heap[to] = NoObject
    /\ heap' = [heap EXCEPT ![from] = NoObject, ![to] = heap[from]]
    /\ CompactHeapSample(from, to)
    /\ UNCHANGED <<status, is_tracing, heap_samples_count, mark_table,
                   config_vars, flush_thread, pc>>

Renamed(refs, r, q) == IF r \in refs THEN (refs \ {r}) \union {q} ELSE refs

\* collector_compact_each_table_entry: the refcount follows the VALUE.
\* Fault: the new entry starts with a count of one.
Carried_One(r, q) == [mark_table EXCEPT ![r] = 0, ![q] = @ + 1]
Carried(r, q) == [mark_table EXCEPT ![r] = 0, ![q] = @ + mark_table[r]]

\* One VALUE that frames reference moves from r to the unused address q:
\* the frames of every sample in the table are rewritten.
CompactRef(r, q) ==
    /\ Running
    /\ Movable
    /\ mark_table[r] > 0
    /\ mark_table[q] = 0
    /\ mark_table' = Carried(r, q)
    /\ samples' = [o \in Objects |->
                     IF o \in TrackedObjects
                     THEN [samples[o] EXCEPT !.refs = Renamed(@, r, q)]
                     ELSE samples[o]]
    /\ UNCHANGED <<status, is_tracing, heap, heap_samples, heap_samples_count,
                   config_vars, flush_thread, pc, flush>>

-----------------------------------------------------------------------------
(* start!, stop! and max_heap_samples=                                     *)

\* "Don't needlessly double-initialize everything."
\* Fault: samples from before the last stop! stay.
MustClear_Never == FALSE
MustClear == heap_samples_count > 0

\* Left-over samples are freed with their table; mark_table is not touched.
\* A flush that is walking the table is left with a freed one.
Start ==
    /\ Running
    /\ ~is_tracing
    /\ is_tracing' = TRUE
    /\ dropped_samples_heap_bufsize' = 0
    /\ IF MustClear
       THEN /\ heap_samples' = [s \in Slots |-> NoObject]
            /\ heap_samples_count' = 0
            /\ samples' = [o \in Objects |->
                             IF o \in TrackedObjects THEN NoSample
                                                     ELSE samples[o]]
            /\ pc' = [t \in Threads |->
                        IF pc[t] = "yielded" THEN "orphaned" ELSE pc[t]]
            /\ flush' = [t \in Threads |-> [flush[t] EXCEPT !.todo = {}]]
       ELSE UNCHANGED <<heap_samples, heap_samples_count, samples, pc, flush>>
    /\ UNCHANGED <<status, heap, mark_table, max_heap_samples,
                   current_flush_epoch, flush_thread>>

Stop ==
    /\ Running
    /\ is_tracing
    /\ is_tracing' = FALSE
    /\ UNCHANGED <<status, heap, table_vars, config_vars, flush_thread, pc,
                   flush>>

SetMaxHeapSamples(max) ==
    /\ Running
    /\ max # max_heap_samples
    /\ max_heap_samples' = max
    /\ UNCHANGED <<status, is_tracing, heap, table_vars, current_flush_epoch,
                   dropped_samples_heap_bufsize, flush_thread, pc, flush>>

\* The collector itself is garbage: collector_gc_free.
GcFree ==
    /\ Running
    /\ \A t \in Threads : pc[t] = "idle"
    /\ status' = "freed"
    /\ is_tracing' = FALSE
    /\ heap_samples' = [s \in Slots |-> NoObject]
    /\ samples' = [o \in Objects |->
                     IF o \in TrackedObjects THEN NoSample ELSE samples[o]]
    /\ UNCHANGED <<heap, heap_samples_count, mark_table, config_vars,
                   flush_thread, pc, flush>>

-----------------------------------------------------------------------------
(* flush                                                                   *)

\* `current_flush_epoch++' as it is stored in the flush_each_sample_ctx.
\* Fault: the epoch is read after the increment.
FlushEpoch_Late == current_flush_epoch + 1
FlushEpoch == current_flush_epoch

\* flush_protected up to its st_foreach.
FlushBegin(t) ==
    /\ Running
    /\ pc[t] = "idle"
    /\ current_flush_epoch < MaxEpoch
    /\ flush_thread' = t
    /\ current_flush_epoch' = current_flush_epoch + 1
    /\ dropped_samples_heap_bufsize' = 0
    /\ pc' = [pc EXCEPT ![t] = "walk"]
    /\ flush' = [flush EXCEPT ![t] =
                   [NoFlush EXCEPT !.epoch = FlushEpoch,
                                   !.todo = Tracked,
                                   !.before = TrackedObjects]]
    /\ UNCHANGED <<status, is_tracing, heap, table_vars, max_heap_samples>>

\* The sample was captured after this flush began.
TooNew(t, o) == samples[o].flush_epoch > flush[t].epoch

\* mpp_is_value_still_validish: some object lives at the address.
Validish(s) == heap[s] # NoObject

\* st_foreach goes on with the rest of the keys.
\* Fault: it starts all over.
Onward_Restart(t, rest) == [flush[t] EXCEPT !.todo = Tracked]
Onward(t, rest) ==
    [flush[t] EXCEPT !.todo = rest, !.key = NoSlot, !.held = NoObject]

\* The rest of flush_each_sample, for the entry (key, o) with the keys `rest'
\* to follow.  A sample whose slot is empty is freed and the entry deleted,
\* by its key; when GC.compact has given the sample another key, the entry
\* there now dangles.
Process(t, key, o, rest) ==
    LET weak == samples[o].allocated_value_weak
        elsewhere == \E k \in Slots \ {key} : heap_samples[k] = o
    IN
    \/ /\ TooNew(t, o)
       /\ flush' = [flush EXCEPT ![t] = Onward(t, rest)]
       /\ UNCHANGED <<status, table_vars>>
    \/ /\ ~TooNew(t, o)
       /\ Validish(weak)
       /\ flush' = [flush EXCEPT ![t] =
                      [Onward(t, rest) EXCEPT !.profile[o] = OneMore(@)]]
       /\ UNCHANGED <<status, table_vars>>
    \/ /\ ~TooNew(t, o)
       /\ ~Validish(weak)
       /\ ~elsewhere
       /\ heap_samples' = [heap_samples EXCEPT ![key] = NoObject]
       /\ heap_samples_count' = heap_samples_count - 1
       /\ samples' = WithoutSample(o)
       /\ flush' = [Unlisted(key) EXCEPT ![t] = Onward(t, rest \ {key})]
       /\ UNCHANGED <<status, mark_table>>
    \/ /\ ~TooNew(t, o)
       /\ ~Validish(weak)
       /\ elsewhere
       /\ status' = "heap_corrupt"
       /\ UNCHANGED <<table_vars, flush>>

\* flush_each_sample without a yield.
FlushVisit(t, s) ==
    /\ status = "ready"
    /\ pc[t] = "walk"
    /\ s \in flush[t].todo
    /\ Process(t, s, heap_samples[s], flush[t].todo \ {s})
    /\ UNCHANGED <<is_tracing, heap, config_vars, flush_thread, pc>>

\* flush_each_sample gives up the GVL before it has looked at the sample.
FlushYield(t, s) ==
    /\ status = "ready"
    /\ Proactive
    /\ pc[t] = "walk"
    /\ s \in flush[t].todo
    /\ pc' = [pc EXCEPT ![t] = "yielded"]
    /\ flush' = [flush EXCEPT ![t].todo = @ \ {s}, ![t].key = s,
                              ![t].held = heap_samples[s]]
    /\ UNCHANGED <<status, is_tracing, heap, table_vars, config_vars,
                   flush_thread>>

\* rb_thread_schedule returns, and the sample is still allocated.
FlushResume(t) ==
    /\ Running
    /\ pc[t] = "yielded"
    /\ samples[flush[t].held] # NoSample
    /\ pc' = [pc EXCEPT ![t] = "walk"]
    /\ Process(t, flush[t].key, flush[t].held, flush[t].todo)
    /\ UNCHANGED <<is_tracing, heap, config_vars, flush_thread>>

\* rb_thread_schedule returns after the sample was freed.  Its memory may
\* still read as before: the sample is skipped, or added to the profile.
\* Otherwise freed memory is used, or freed once more.
FlushResumeFreed(t) ==
    LET o == flush[t].held IN
    /\ Running
    /\ pc[t] = "yielded"
    /\ samples[o] = NoSample
    /\ \/ /\ pc' = [pc EXCEPT ![t] = "walk"]
          /\ \/ flush' = [flush EXCEPT ![t] = Onward(t, flush[t].todo)]
             \/ /\ o \in flush[t].before
                /\ flush' = [flush EXCEPT ![t] =
                               [Onward(t, flush[t].todo) EXCEPT
                                  !.profile[o] = OneMore(@)]]
          /\ UNCHANGED status
       \/ /\ status' = "heap_corrupt"
          /\ UNCHANGED <<pc, flush>>
    /\ UNCHANGED <<is_tracing, heap, table_vars, config_vars, flush_thread>>

\* rb_thread_schedule returns after start! freed the table: st_foreach goes
\* on in freed memory, and with luck stops at once.
FlushResumeOrphaned(t) ==
    /\ Running
    /\ pc[t] = "orphaned"
    /\ \/ /\ pc' = [pc EXCEPT ![t] = "serialize"]
          /\ flush' = [flush EXCEPT ![t] = Onward(t, flush[t].todo)]
          /\ UNCHANGED status
       \/ /\ status' = "heap_corrupt"
          /\ UNCHANGED <<pc, flush>>
    /\ UNCHANGED <<is_tracing, heap, table_vars, config_vars, flush_thread>>

\* st_foreach is done; flush_nogvl serialises without the GVL.
FlushEndWalk(t) ==
    /\ status = "ready"
    /\ pc[t] = "walk"
    /\ flush[t].todo = {}
    /\ pc' = [pc EXCEPT ![t] = "serialize"]
    /\ UNCHANGED <<status, is_tracing, heap, table_vars, config_vars,
                   flush_thread, flush>>

FlushSerialized(t) ==
    /\ Running
    /\ pc[t] = "serialize"
    /\ pc' = [pc EXCEPT ![t] = "finish"]
    /\ UNCHANGED <<status, is_tracing, heap, table_vars, config_vars,
                   flush_thread, flush>>

\* The context and the serctx do not outlive the flush.
\* Fault: they are only cleaned up by the next one.
Destroyed_Late(t) == flush
Destroyed(t) == [flush EXCEPT ![t] = NoFlush]

\* flush_thread is cleared, whoever has set it.
\* Fault: not by a flush that raises.
FlushThreadAfter_Raise(t) == IF pc[t] = "finish" THEN NoThread ELSE flush_thread
FlushThreadAfter(t) == NoThread

\* collector_flush after rb_protect: the profile is returned, or an error is
\* raised again.
FlushReturn(t) ==
    /\ pc' = [pc EXCEPT ![t] = "idle"]
    /\ flush' = Destroyed(t)
    /\ flush_thread' = FlushThreadAfter(t)
    /\ UNCHANGED <<status, is_tracing, heap, table_vars, config_vars>>

FlushFinish(t) ==
    /\ Running
    /\ pc[t] = "finish"
    /\ FlushReturn(t)

\* A sample or the serialisation fails, the result cannot be allocated, or
\* Thread#raise or #kill strikes where the GVL was given up.
FlushFail(t) ==
    /\ status = "ready"
    /\ pc[t] # "idle"
    /\ GvlFree \/ pc[t] = "walk"
    /\ FlushReturn(t)

-----------------------------------------------------------------------------
FlusherStep(t) ==
    \/ \E s \in Slots : FlushVisit(t, s)
    \/ \E s \in Slots : FlushYield(t, s)
    \/ FlushResume(t)
    \/ FlushResumeFreed(t)
    \/ FlushResumeOrphaned(t)
    \/ FlushEndWalk(t)
    \/ FlushSerialized(t)
    \/ FlushFinish(t)

\* The process is gone, or the collector is.
Terminated ==
    /\ status \notin {"allocated", "ready"}
    /\ UNCHANGED vars

Next ==
    \/ \E max \in MaxHeapSamples : Initialize(max)
    \/ GcBeforeInitialize
    \/ \E t \in Threads, s \in Slots, o \in Objects : NewObjUntraced(t, s, o)
    \/ \E t \in Threads, s \in Slots, o \in Objects : NewObjNotSampled(t, s, o)
    \/ \E t \in Threads, s \in Slots, o \in Objects : NewObjDropped(t, s, o)
    \/ \E t \in Threads, s \in Slots, o \in Objects, refs \in SUBSET Refs :
          NewObjSampled(t, s, o, refs)
    \/ \E s \in Slots : FreeObj(s)
    \/ \E s \in Slots : ForceRecycleObj(s)
    \/ \E from, to \in Slots : CompactObject(from, to)
    \/ \E r, q \in Refs : CompactRef(r, q)
    \/ Start
    \/ Stop
    \/ \E max \in MaxHeapSamples : SetMaxHeapSamples(max)
    \/ GcFree
    \/ \E t \in Threads : FlushBegin(t)
    \/ \E t \in Threads : FlusherStep(t)
    \/ \E t \in Threads : FlushFail(t)
    \/ Terminated

Spec == Init /\ [][Next]_vars

-----------------------------------------------------------------------------
(* What the collector promises                                             *)

Referencing(r) == {o \in TrackedObjects : r \in samples[o].refs}

\* The samples a flush holds across a yield, as far as they are allocated.
HeldSamples ==
    {o \in Objects : /\ samples[o] # NoSample
                     /\ \E t \in Threads : pc[t] = "yielded" /\ flush[t].held = o}

\* heap_samples_count, which the newobj hook compares with max_heap_samples,
\* never falls short of what it bounds: the samples in the table and those
\* that a suspended flush may still free.  (It is a size_t: below zero, every
\* later allocation would be dropped.)
CountCovers ==
    status = "ready" =>
        heap_samples_count >= Cardinality(TrackedObjects \union HeldSamples)

\* Every entry leads to an allocated sample of the object at its key, in
\* whatever order hooks, compaction and half-done flushes ran.
SoundKeys ==
    \A s \in Tracked :
        /\ samples[heap_samples[s]] # NoSample
        /\ samples[heap_samples[s]].allocated_value_weak = s

\* Every allocated sample can still be reached from the table, so that it
\* will be freed.
NoSampleLeak ==
    status = "ready" =>
        \A o \in Objects : samples[o] # NoSample => o \in TrackedObjects

\* While tracing, an entry never outlives the reuse of its slot: the object
\* that lives at its key is the sampled one.  Only a slot that was emptied by
\* rb_gc_force_recycle may wait with its entry for the next newobj hook.
\* Hence the MPP_ASSERT on st_insert cannot fail.
TrackedAreCurrent ==
    is_tracing =>
        \A s \in Tracked : \/ heap[s] = heap_samples[s]
                           \/ ForceRecycle /\ heap[s] = NoObject

\* The MPP_ASSERT_MSG "st_insert did an update in the newobj hook".
AssertHolds == status # "assert_failed"

\* Every VALUE that a sample in the table references has at least as many
\* references counted, so the GC keeps it alive for the next #flush.
MarkTableCovers ==
    \A r \in Refs : mark_table[r] >= Cardinality(Referencing(r))

\* The epoch does its work: nothing allocated after a flush began gets into
\* its profile, however often the flush yields and compaction re-inserts.
ProfileNoNew ==
    \A t \in Threads, o \in Objects :
        flush[t].profile[o] > 0 => o \in flush[t].before

\* When the walk is over, every object that had a sample when it began and
\* still has one is in the profile.  (After stop! a move onto the key of an
\* object that is gone can hide a sample from a suspended walk.)
ProfileComplete ==
    \A t \in Threads :
        pc[t] \in {"serialize", "finish"} /\ (is_tracing \/ ~Movable) =>
            \A o \in flush[t].before \intersect TrackedObjects :
                flush[t].profile[o] > 0

\* retained_objects counts each live allocation once.
ReportedOnce ==
    \A t \in Threads, o \in Objects : flush[t].profile[o] <= 1

Reports(o) == \E t \in Threads : flush'[t].profile[o] > flush[t].profile[o]

\* While tracing, only objects that are alive are added to a profile.
ReportsOnlyLive ==
    [][\A o \in Objects : is_tracing /\ Reports(o) => o \in HeapObjects]_vars

\* The newobj hook excludes the allocations of a thread only while it flushes:
\* no end of a flush, also of one that raises or that overlaps another, leaves
\* a thread of the application without samples.
ExcludesOnlyFlushers ==
    status = "ready" /\ flush_thread # NoThread => pc[flush_thread] # "idle"

-----------------------------------------------------------------------------
(* What comments and documentation promise in addition                     *)

\* collector.c: heap_samples_count is the number of elements in the hash,
\* whether or not the collector is tracing.
CountExact == status = "ready" => heap_samples_count = Cardinality(Tracked)

\* IMPLEMENTATION.md: the refcount is increased when a sample is captured,
\* and the opposite is done when the sample is freed.
MarkTableExact ==
    status = "ready" =>
        \A r \in Refs : mark_table[r] = Cardinality(Referencing(r))

\* collector.c on flush_each_sample: the freeobj hook cannot delete the
\* sample that the flush is looking at.
HeldIsAllocated ==
    \A t \in Threads : pc[t] = "yielded" => samples[flush[t].held] # NoSample

\* IMPLEMENTATION.md: the walk needs the GVL, lest another thread changes the
\* hash that is being iterated: here, frees it.
WalkedTableLives == \A t \in Threads : pc[t] # "orphaned"

=============================================================================
