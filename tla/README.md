# A TLA+ model of ruby_memprofiler_pprof

`ruby_memprofiler_pprof` is a heap profiler for Ruby.  A C extension traps
every allocation and every free of an object, keeps a sample (a backtrace) for
each sampled live object, and on `Collector#flush` turns the samples into a
gzipped pprof file.  A little Ruby code calls `flush` periodically from a
background thread and writes the profiles to files.

This directory holds TLA+ modules that model this program, TLC configurations
that check them on small instances, and TLAPS proofs of the theorems that hold
for every instance.

## 1. Inventory

| Component | State | Operations | Interacts with |
|---|---|---|---|
| Collector (`collector.c`) | `heap_samples` (VALUE -> sample), `heap_samples_count`, `max_heap_samples`, `mark_table` (VALUE -> refcount), `current_flush_epoch`, the drop counter, `is_tracing`, `flush_thread` | allocate, initialize, newobj hook, freeobj hook, GC mark, GC compact, GC free, `start!`, `stop!`, `flush`, `profile`, setters | called by the VM from every allocating thread and from the GC; gives the GVL up inside `flush` |
| Samples (`sample.c`) | the frames of one backtrace, the object's address, an epoch | capture, free, read a frame | backtracie captures and formats frames |
| Ruby internals (`ruby_hacks.c`, `ruby_private/`) | none of its own: it reads and writes the VM's `dont_gc`, `heap_pages`, `gvl` | switch the GC off, "is this address an object", "does anyone wait for the GVL" | VM structures, which the GC and the other threads change |
| Encoder (`pprof_out.c`) | string, function and location tables, the protobuf under construction, a scratch buffer, an interrupt flag | new, add_sample, serialize, destroy | called by `flush`; serialises without the GVL while the VM may set the interrupt flag |
| BlockFlusher (`block_flusher.rb`) | status, pause flag, thread, fork handler, a mutex and a condition variable | `start!`, `stop!`, `run`, `pause`, `unpause`, the flusher thread, restart in a forked child | calls `Collector#flush` and the `on_flush` callback |
| Atfork (`atfork.rb`) | the list of handlers | `at_fork`, `remove!`, the wrapped `fork` | BlockFlusher |
| FileFlusher (`file_flusher.rb`) | a counter for file names | `on_flush` | BlockFlusher, the file system |
| ProfileData, `profile_app.rb`, the wrapper script | attributes; none | create and start a collector and a flusher | all of the above |
| `compat.c`, `extconf.rb` | a random seed; none | random numbers, clocks, feature tests | all of the C code |

What is hard in this program:

* `flush` walks `heap_samples` with `st_foreach` and may give up the GVL
  between two entries.  Any allocation, free, compaction, `start!`, `stop!`
  or other `flush` can then run in the middle of the walk.
* Frees are only known from hooks: not at all for `rb_gc_force_recycle`
  (before Ruby 3.1), nor after `stop!`; GC.compact moves objects and the
  VALUEs that samples reference.
* Two counts are kept beside the tables they describe: `heap_samples_count`,
  which is compared with a limit and is unsigned, and the refcounts of
  `mark_table`, on which the life of Ruby objects depends.
* The hooks and the flush switch the GC off with a flag of the VM, in sections
  that nest in each other and in the application's own `GC.disable`; inside,
  a bisection reads the table of heap pages that the VM rewrites.
* A flush gives the GVL up in two ways, between samples and for the
  serialisation, while the others wait for it, allocate, or flush too.
* The serialisation is interrupted asynchronously by the VM.
* The background thread is paused, stopped, joined, and lost in a fork.

Correctness, component by component: the collector's tables describe the live
sampled objects (no stale, lost or doubly freed sample; exact counts; marked
VALUEs), a profile contains the old samples and none of the new ones, each
once, and a flush ends and leaves nothing behind.  The encoder's ids are
unique and defined, its strings never change, and decoding a profile gives the
samples back.  The flusher flushes again and again while it runs, never after
it was stopped, and in a forked child as in its parent.

## 2. Plan

The order of work: the collector first, because everything else only sees what
it hands out and because nearly all of the concurrency is in it; then the
encoder and its serialisation, composed to the whole of a flush; then the
background thread.

| Step | Modules | Abstract specification | Runs | Theorems | State |
|---|---|---|---|---|---|
| 1 | `Collector`, `MCCollector` | - | `Collector_*.cfg` | `CollectorProofs` | done |
| 2 | `Serctx`, `Serialize`, composed by `FlushProtected` | `SampleLog` | `FlushProtected*.cfg` | `SerializeProofs`, `FlushProtectedProofs` | done |
| 3 | `BlockFlusher` (with Atfork) | - | `BlockFlusher_x_pause.cfg` | `BlockFlusherProofs` | done |
| 4 | `FileFlusher`, which composes `BlockFlusher` with `on_flush`, the files and the parents of forks | `BlockFlusher` | `FileFlusher.cfg` | `FileFlusherProofs` | done |
| 5 | `HeapProbe`, the search in the heap, used by `GcSection`, the sections without GC | `HeapProbe` | `GcSection.cfg` | `HeapProbeProofs`, `GcSectionProofs` | done |
| 6 | `PoliteFlush`: the GVL, the keyword arguments of `flush`, drops and the sample rate | - | `PoliteFlush.cfg` | `PoliteFlushProofs` | done |

All modules have parameters as CONSTANTS with named assumptions and no
RECURSIVE operator, so that each can be proved about as it stands.

## 3. The modules

### Collector

`Collector.tla` is `collector.c`, `sample.c` and the part of `ruby_hacks.c` that
asks about a heap slot, which it takes for one step.  The Ruby heap is a set of slots, each empty or holding
an object; the keys of `heap_samples` are slots.  An object is sampled at most
once, so it also names its `struct mpp_sample`, and `samples[o]` is its
contents, or `NoSample` when it is not allocated.

| Code | Model |
|---|---|
| `collector_alloc`, `collector_initialize` | `Init`, `Initialize`; a GC between the two is `GcBeforeInitialize` |
| `collector_tphook_newobj` | `NewObjNotSampled`, `NewObjDropped`, `NewObjSampled`; without tracing `NewObjUntraced` |
| `collector_tphook_freeobj` | `FreeObj`; a free without the hook is `ForceRecycleObj` |
| `collector_mark_sample_value_as_freed` | `MarkSampleValueAsFreed`, in both hooks |
| `collector_cdata_gc_compact` | `CompactObject` (an object moves) and `CompactRef` (a VALUE in a frame moves) |
| `start!`, `stop!`, `max_heap_samples=`, `collector_gc_free` | `Start`, `Stop`, `SetMaxHeapSamples`, `GcFree` |
| `collector_flush`, `flush_protected` | `FlushBegin`, `FlushEndWalk`, `FlushSerialized`, `FlushFinish`, `FlushFail` |
| `flush_each_sample` | `FlushVisit`, or `FlushYield` and then `FlushResume`, `FlushResumeFreed` or `FlushResumeOrphaned` |
| `st_foreach` | `flush[t].todo`: the keys it has not yet come to |

A handler runs under the GVL and is one action.  A flush is one action per
sample: it holds the GVL from `FlushBegin` on (nobody else is `Running`) until
it yields or ends its walk.  An entry that is inserted during a suspended walk
is appended, so the walk will come to it; one that is deleted it will not come
to.

Undefined behaviour is a choice over what can happen.  When the sample that a
suspended flush holds has been freed, the flush that resumes skips it, reports
it, or is the end of the process (`status = "heap_corrupt"`); when `start!`
has freed the table under the walk, the walk ends, or the process does.

The field `before` of a flush is a history variable; no guard but the choice
after a use of freed memory reads it.

### SampleLog, Serctx, Serialize and FlushProtected

`Serctx.tla` is the first part of `pprof_out.c`, up to the string table.  One
action is one step of the loop over the frames of a sample (`InternName`,
`InternFile`, `AddFunction`, `AddLocation`), although no other thread can see
these steps, because the properties are about what the callbacks leave to each
other.  Names are formatted in a scratch buffer which the string table may
keep; so the strings are modelled by the buffers they are in, and the look-up
(`EntriesOf`) compares the contents that a buffer has now, as `st` does with a
key that is a pointer.  The function and its protobuf, two `st_update` calls in
a row with no failure in between, are one action.

`SampleLog.tla` is what the encoder promises: a sample is in the profile when
the call returns, and what is in the profile does not change.  `Serctx`
implements it under a mapping that decodes the profile as its reader does:
location ids to locations, to functions, to strings, and in the end to the
string table of the profile.

`Serialize.tla` is `mpp_pprof_serctx_serialize` after that and the rest of
`flush_protected`.  Each poll of the interrupt flag (`CHECK_IF_INTERRUPTED`) is
the guard of the step that follows it; `Unblock` can set the flag between any
two.  `deflate` is modelled by the contract of zlib, with the lengths of the
payload and of the compressed stream as parameters: it goes on until its input
is consumed or its output is full, and it may fail.  What the interrupt was
for decides what follows: a pending exception is raised when
`rb_thread_call_without_gvl` returns, while after a trap handler the flush
goes on with whatever the serialisation has returned.

`FlushProtected.tla` composes the two: samples are added, then the string
table is written by a step that both take, then the profile is compressed.

### HeapProbe and GcSection

`HeapProbe.tla` is `mpp_is_pointer_to_heap`: one action is one round of its
loop (`FoundPage`, `GoUp`, `GoDown`, `NotFound`), `Ask` is the call with the
tests before the loop.  Addresses are numbers and a page is the record of
`struct heap_page` that the search reads.  The VM allocates pages, moves them to
its tomb and gives them back, in between.  The assumption `PageLayout` is how
the VM lays a page out: where the first slot is so that the distance of a slot
from the start of the body tells whether it is one.

`GcSection.tla` opens the sections that `Collector` takes for single steps: the
newobj hook, the freeobj hook, and `flush_each_sample` from the line that
switches the GC off (`VisitSample`, `Search`, `DiscardSample`, `KeepSample`,
`SampleAdded`).  A stack, `sections`, holds for each open section what the flag
was before.  An object that the formatting of a sample allocates runs the
newobj hook inside the flush's section; a free inside a hook runs no hook.
That the GC does not run there, and that no page comes or goes while the search
goes on, are consequences of the flag, not assumptions: `GcMayRun` asks the flag
wherever memory is allocated.  The search in `GcSection` implements `HeapProbe`
(`SearchesLikeHeapProbe`).

### PoliteFlush

`PoliteFlush.tla` is the flush as the other threads see it.  The GVL is a lock
with a queue; a thread has it (`gvl`), is in `waitq`, or is away.  A thread that
runs Ruby code may block, be preempted by the timer of the VM, allocate, free,
call `start!`, set the rate, or begin a flush.  `FlushYield` is
`rb_thread_schedule` at every `Interval`-th entry, when somebody waits; the
entry it is at is kept in `ctx[t].at` until the thread has the GVL again.
`FlushVisit` is the rest of `flush_each_sample`.  What `st_foreach` has still to
come to is `old`, the keys that were there at the beginning, and `new`, those
that were appended.  `FlushEndWalk` and `FlushSerialized` give up and acquire the
GVL when `yield_gvl` is asked for.

`pause` is a history variable: the entries that a walk has visited while
somebody waited.  `asked_rate` is what was given to `sample_rate=`, and
`unreported` the drops that no flush has reported yet; `FlushReturn` is also the
flush that raises, with which the drops it has taken are lost.

### BlockFlusher and FileFlusher

`BlockFlusher.tla` is `block_flusher.rb` and the use it makes of `atfork.rb`.
One thread, the owner, is in `start!` or `stop!` at one of the places
`owner.pc`; the statements of these methods are one action each.  The flusher
threads are numbered as they are created; `thread` is `@thread`.  `status` and
`is_paused` are read in a section that holds `@status_mutex`, and
`ConditionVariable#wait` gives it up and waits in one step, so looking and
waiting are one action (`Wait`); `Wake` is a broadcast or a timeout.  Time is
seen from a flusher's deadline: early, due now, or past.

`Fork` replaces the process by its child: a flusher thread that was alive is
not any more, and when the handler is registered the owner is in the `start!`
that `at_fork_in_child` calls.  The parent of a fork is a process in which no
fork happened, so it needs no model of its own.

`FileFlusher.tla` extends it by the `on_flush` that writes a file: the state
`"flush"` of the flusher thread is opened into `OnFlush`, `MakeDir`,
`WriteFile` or `WriteFails`, and `CountProfile`.  An application's own
`BlockFlusher`, which only flushes, is the case `~on_flush` of it.  Now the
parents of a fork do matter, as they write files too (`ParentFlush`), and the
child has a copy of `@profile_counter`, taken at any point of a flush of its
parent.

## 4. What is checked

Every property of a passing run has a mutant: a variant of one definition, as a
plausible bug would have it, stands next to the definition in the module with a
comment "Fault", and with it in place TLC finds the property violated.

| Run | Configuration | What it shows |
|---|---|---|
| `ruby31` | `Collector_ruby31.cfg` | Compaction, no force recycle, no yields; two VALUEs in frames.  `AssertHolds`, `TrackedAreCurrent`, `MarkTableCovers`, `ReportedOnce`, `ReportsOnlyLive` |
| `ruby26_yield` | `Collector_ruby26_yield.cfg` | Force recycle, no compaction, flushes that yield.  `CountExact`, `NoSampleLeak`, `ExcludesOnlyFlushers` |
| `ruby31_yield` | `Collector_ruby31_yield.cfg` | Compaction during flushes that yield.  `TypeOK`, `SoundKeys`, `ProfileNoNew`, `ProfileComplete`, `CountCovers` |
| `flush_protected` | `FlushProtected.cfg` | `StringsStay`, `ReferencesResolve`, `OneOfEach`, `RoomForOutput`, `WholeStream`, `SerializeEnds`, and `KeepsEverySample`: the refinement of `SampleLog` |
| `gc_section` | `GcSection.cfg` | Ruby 3.1, with slots of two sizes.  `ProbeAnswers` and `ProbeInBounds` of the search, `SectionKeepsObject`, `GcFlagRestored`, `NoMissedFree` of the sections, `VisitEnds`, and `SearchesLikeHeapProbe`: the refinement of `HeapProbe` |
| `polite_flush` | `PoliteFlush.cfg` | Two threads that both flush.  `ShortPauses`, `DropsAddUp`, `RateIsKept`, and under fairness `WaitersRun` and `FlushReturns` |
| `file_flusher` | `FileFlusher.cfg` | `OneFlusher`, `StoppedIsQuiet`, `RunningHasThread`, `HandlerMatches`, `KeptProfiles`, `CallsReturn`, `KeepsFlushing` |

The runs that TLC must find violated each check what a document or comment of
the repository says of the program, and the code does not do:

| Run | Claim | What happens |
|---|---|---|
| `x_mark_table` | `IMPLEMENTATION.md:62`: the refcounts of VALUEs go down when a sample is freed | not when `flush_each_sample` frees it (`collector.c:634`), nor in `start!` |
| `x_held` | `collector.c:630`: the freeobj hook cannot delete the sample the flush is about to delete | it can, before the GC is disabled: while the flush has given the GVL up (`collector.c:618`) |
| `x_walked_table` | `IMPLEMENTATION.md:116`: nobody changes the hash during the walk | `start!` after `stop!` frees it under a suspended flush |
| `x_interrupted` | `pprof_out.c:355`: serialize writes a pointer to the result | not when it is interrupted in the deflate loop, and it returns 0 |
| `x_pause` | `README.md:55`: `#flush` is called periodically | a flusher that is paused past its deadline dies of an `ArgumentError` |

### Bounds, and why they are enough

* Two threads: one that flushes and one that does anything meanwhile, another
  flush included.  Handlers are atomic, so a third thread would repeat what the
  second can do.
* Two slots and three objects: a slot that is used again, an object that moves
  over a stale entry, and a sampled object beside them.  The `x_` runs need one
  slot only.
* `MaxEpoch = 2`: two flushes, after each other or at once.  One VALUE, or two
  where a run is about VALUEs that move (`ruby31`).  `MaxRefcount` and
  `MaxDropped` cap counters that only grow while these are exercised.
* `SYMMETRY` permutes threads, slots, objects and VALUEs, in safety runs only;
  no definition singles one out.
* The encoder: two samples of up to two frames, over names of which one is a
  reserved string, two agree in the 255 bytes that are kept, and one is empty;
  chunks of two bytes against streams of one, two and five.
* The flusher: three threads and two forks: a restart by `start!`, one by a
  fork, and one after that; three files, so that a process, its parent and its
  child can each write one.
* `GcSection`: four pages, of which two would lie at the same place, so that the
  same address is a slot, inside a slot, or in no page, depending on which of
  them are allocated; two objects at once.  An odd and an even number of pages, and none, make the
  bisection take all its ways.
* `PoliteFlush`: two threads that both flush and three keys against an interval
  of two, so that a walk yields, goes on, and yields again while keys are
  appended; the third key can be dropped or appended behind either walk.
  `UInt32Max = 3` gives four random values, with rates of none, half and all.
  `pause` stops one above the interval, where `ShortPauses` is violated.

`MaxEpoch`, `MaxDropped`, `MaxRefcount`, `MaxFrames`, `MaxSamples`, `MaxThreads`,
`MaxForks`, `MaxProfiles`, `MaxObjects` and `MaxUnreported` are bounds of the
models, not of the program.

### Fairness

* `PoliteFlush`: weak fairness of each thread that is in `#flush`, of the steps
  it can take with the GVL or without it.  Strong fairness of `Preempt`: Ruby's
  timer sets an interrupt that stays pending while C code runs, and Ruby code
  polls for it, so a thread that is again and again in Ruby code while others
  wait is preempted at last.  Nothing is assumed of allocations, `start!` or
  threads that block.  `FlushReturns` has the condition that the other threads
  do not append to the table for ever: the walk of a flush that yields would
  come to each new key, and the code does not promise an end.
* `FlushProtected`: weak fairness of the serialisation, a single thread that
  does not wait for the GVL.  No interrupt is ever owed.
* `GcSection`: weak fairness of the steps inside a section, which wait for
  nothing.  Nobody has to allocate, to free, or to run a GC.
* `FileFlusher` and `BlockFlusher`: weak fairness of the owner once it is in
  `start!` or `stop!`, of each flusher thread and of the clock.  That
  `Collector#flush` returns is `FlushReturns` of `PoliteFlush`; that a callback
  returns is an assumption about the application, and of `FileFlusher#on_flush`
  one about the file system.  Nobody has to start, stop, pause, unpause or fork.

## 5. What is proved

The proofs are for every value of the constants that satisfies the named
assumptions.

**`CollectorProofs`** (assumptions `FiniteHeap`, `NothingIsNotAThing`,
`BuildFlags`, `Bounds`, `SampleIsSomething`).  Ten invariants, each inductive
relative to those it is said to use, and all of them to the first:

1. `Sound`: the types, the context of every flush, and `SoundKeys`.  None of the
   three is inductive alone: that a compaction rewrites a sample and not the
   absence of one needs the keys to be sound, and that a walk never comes to a
   key without an entry needs every deletion to take the key out of all walks.
   Theorems `TypeCorrect` and `KeysAreSound`.
2. `CountInv`: `heap_samples_count` covers the samples in the table *and* those
   that a suspended flush holds.  Without the second part a flush that resumes
   and frees its sample would take the count below what it bounds.  Theorem
   `CountIsSafe`.
3. `CurrentInv`: an entry of a tracing collector is about the object that lives
   at its key, in every build that does not have both a force recycle and a
   compaction.  Theorems `SamplesAreCurrent`, and, from it, for all builds,
   `InsertIsNew`: the assertion in the newobj hook does not fail.
4. `EpochInv`: what a walk may still come to and would not skip is from before
   the flush.  Theorem `ProfilesHaveNothingNew`.
5. `Excluding`: `flush_thread` is a thread that is in `#flush`, or none, however
   the flushes overlap and end.  Theorem `OnlyFlushersAreExcluded`.

6. `MarkTableCovers` is inductive over `Sound`, in every build.  The argument is
   about the *set* of samples that reference a VALUE: each step that puts a
   sample into the table, or takes one out of it, is matched with what it does
   to the refcount of each of its VALUEs (`RefcountStep`), and where the code
   forgets to take the refcount down, the inequality still holds.  Theorem
   `ReferencedAreMarked`.
7. `TableInv`, without GC.compact: every allocated sample is in the table, and
   the count is the number of keys, as long as the collector exists (`Reachable`
   and `Counted`, which the properties only claim of a collector that is ready).
   Theorems `NothingLeaks` and `CountIsExact`.
8. `OnceInv`, where a flush does not yield or nothing moves: an object is once
   in a profile at most, and what the walk has still to come to (its keys, and
   the sample it holds across a yield) is not there yet (`Ahead`), nor twice
   ahead.  `NoYield` is what the build without yields adds.  Theorem
   `NothingIsReportedTwice`.
9. `EpochsInv`: the samples that a flush may report have an epoch that it does
   not skip, and none is later than the current one.
10. `CompleteInv` uses `Sound`, `CountInv`, `CurrentInv` and `EpochsInv`: at any
   time of a walk, an entry from before the flush is in the profile, or ahead of
   the walk (`Seen`), also an entry that a compaction has put elsewhere.
   `CurrentInv` is needed as a compaction must not move one entry over another.
   Theorem `ProfilesAreComplete`.

The action property `ReportsOnlyLive` follows from `Sound`, `CurrentInv` and
`NoYield` in each step.  Theorem `OnlyLiveAreReported`.

Some of these are stated for some builds, which are those in which the code keeps
them.  In the other builds TLC finds each of the properties violated, in ten steps
or so; section 6 has more on it:

| Assumption | In | What happens in the other builds |
|---|---|---|
| `~Movable` | `NothingLeaks`, `CountIsExact` | after `stop!` (or a force recycle), a compaction moves an entry over one whose free was not seen: that sample is lost, and the count is one too high |
| `~(Proactive /\ Movable)` | `NothingIsReportedTwice` | an entry that is moved during a yield is appended, and the walk comes to it again |
| `~Proactive` | `OnlyLiveAreReported` | a flush may report the sample it held across a yield, after its object was freed |
| `~(ForceRecycle /\ Movable)` | `SamplesAreCurrent`, `OnlyLiveAreReported`, `ProfilesAreComplete` | an object moves to a slot whose last object was recycled without a hook and still has its entry: the entry is then about the wrong object, or overwritten |

`ForceRecycle` and `Movable` together (Ruby 2.7 to 3.0) are covered by the
theorems that are stated for it, and by no run.

**`SerializeProofs`** (assumption `Lengths`).  `IInv` adds to the properties
what is still untouched in each phase (`Progress`): a length is assigned only
by the last step.  Theorems `SerializeTypeCorrect`, `DeflateHasRoom`,
`StreamIsWhole`.

**`FlushProtectedProofs`** (assumption `Constants`).  Every step of the whole
flush is a step of `Serialize` or leaves its variables alone, so the invariant
of `SerializeProofs`, which is instantiated, holds in the flush.  Theorems
`FlushHasRoom` and `FlushIsWhole`.  Of the steps of `Serctx` the invariant
`SInv` says that `function_ids` and `location_pbs` are the images of the lists
of messages, which are numbered in their order, and that the ids in `thunkctx`
and in the samples have been given out; without the images it would not follow
that a key that is not found has no message yet.  Theorems `TypesOfSamples`,
`StringsNeverChange`, `NothingDangles`, `NothingTwice`.  `Decoding` adds that
every index reads as the string that was entered (`Readable`), that the ids in
`thunkctx` decode to the parts of the frame at hand (`ThunkText`), and that the
sample so far decodes to a prefix of its backtrace (`InProgress`).  Messages are
only ever appended (`Grows`), so that what a location decodes to stays, also
when the text moves from the arena to the string table.  Theorem `ProfileIsLog`:
`Spec` implements `SampleLog`.  It holds for any strings, frames and depths:
`MaxSamples` bounds only how many samples are added.

**`BlockFlusherProofs`** (assumptions `ThreadBound`, `NilIsNone`).  `IInv` says
for each place of the owner what the status, the thread and the handler are:
no thread but `@thread` is ever alive (`Threads`), the status is `:stop` until
the owner has joined it (`Statuses`), `start!` has a thread left to create
(`Startable`), and the handler is registered with the thread (`Handlers`).
Without the part about the steps inside `start!` and `stop!`, the claims about a
returned call are not inductive.  Theorems `NeverTwoFlushers`, `StopIsFinal`,
`RunningMeansThread`, `OneHandler`, `StopWakes`.

**`FileFlusherProofs`** (assumption `ProfileBound`).  Every step of a
`FileFlusher` is one of `BlockFlusher` or leaves its variables alone
(`FileFlusherIsBlockFlusher`), so that the theorems above hold of it.  Its own
invariant is that every file of a process, or of what it will be forked to, has
an index below its counter (`NamesUsed`); with it no write goes to a name that
is taken.  Theorems `FileFlusherTypes` and `ProfilesAreKept`.

**`HeapProbeProofs`** (assumptions `Sizes`, `PageLayout`).  `IInv` says that the
table is ordered, its pages are within `range`, and, for a search, that the page
of the address is between `lo` and `hi` if there is one (`Located`).  Theorems
`ProbeIsRight` and `ProbeStaysInTable`, for builds with and without slots of
different sizes.

**`GcSectionProofs`** (the same assumptions).  `Inv` says in which order sections can
nest (`NestInv`), that each has kept what the flag was outside of it
(`FlagInv`), and that the tracked objects and the one in hand are alive
(`ObjectInv`).  The step shows at once that every step is one of `HeapProbe`,
since the part about the flag excludes a GC during a search.  Theorems `Types`,
`SearchSimulation`, and from it `SampleIsFoundAlive`; `FlagIsRestored`,
`ObjectIsKept`, `NoFreeIsMissed`.

**`PoliteFlushProofs`** (assumptions `Sizes`, `Nobody`, and `FinitelyMany`: a
process has finitely many threads).  The pause of a walk that has the
GVL is bounded by its counter (`Polite`): within the interval they count
together, and at its end the walk has yielded if anybody waited.  That needs
that nobody waits when `pause` is reset without a yield, and that a suspended
walk is in the queue.  Theorem `PausesAreShort`.  `FlushInv` adds four parts:

* `QueueInv`: the queue has no thread twice and not the holder, a walk that does
  not have the GVL is in it, and a serialisation that was not asked to do without
  the GVL has it.  Three lemmas say what `HandOver`, `Append` and `Acquire` do
  to this, whoever calls them.
* `TableInv`: what a walk has left is in the table.
* `DropsInv`: `DropsAddUp`, and that a thread outside of `#flush` has no drops in
  its hands, without which a second flush of it would forget some.  The sum is
  `FoldFunction`, which is recursive; the library's induction theorems take the
  predicate as an operator parameter, so the two inductions are made with
  `WFMin` instead: a least number for which the recursion has no solution
  (`SumsExist`), and a smallest subset for which a claim about the sum is wrong
  (`SumChange`, `SumOfZeros`).  Theorem `DropsAreCounted`.
* `RateInv`: the rate that is kept is the conversion of the one that was asked
  for.  The rest is arithmetic: `ScaledBounds` says that the division stays in
  the range, so that it never wraps, and within one of the exact value; products
  are compared by `Times` and `TimesLess` only.  Theorem `SampleRateIsKept`.

Together they give the type invariant, in which `unreported` is a natural number
because it is a sum of such.  Theorem `TypesAreKept`.

Every invariant and action property of a passing run is proved.  Only
model-checked is what is about liveness (`FlushReturns`, `WaitersRun`,
`VisitEnds`, `SerializeEnds`, `CallsReturn`, `KeepsFlushing`), which is beyond
the prover, as it would need `ENABLED`.

## 6. Known limits of the program that no run states

They were met while the model was built, and no document denies them, or they
follow from the ones above:

* A compaction while a flush has yielded appends the entry of the moved object
  again, so the walk reports it twice (hence `ReportedOnce` has no yields), and
  after a `stop!`, moving onto a key that is still in the table overwrites that
  entry (hence the condition in `ProfileComplete`) and leaves the count one too
  high (hence `CountExact` in the run without compaction).
* After `stop!`, frees are not seen.  A flush then takes an address for the
  sampled object when anything lives there (hence the condition of
  `ReportsOnlyLive`).
* A flush that raises after `flush_protected` has reset
  `dropped_samples_heap_bufsize` loses that number (in `PoliteFlush`, the steps
  of `FlushReturn` before `"finish"`).
* Two flushes at once share `flush_thread`: the one that began last overwrites
  it, and the one that ends first clears it, so that from then on the
  allocations of a flush are sampled, unlike `collector.c:451` has it.
  `ExcludesOnlyFlushers` is the direction that holds.
* `Collector#profile` does not call `stop!` when its block raises.
* The durations of a report are given to `INT2NUM` (`collector.c:720`), which
  takes an `int`: above 2.1 seconds they are wrong.
* `FileFlusher` has names with the time in seconds by default: two flushes
  within a second, or a process with the pid of another, overwrite a file.  The
  name is computed twice (`file_flusher.rb:31` and `:37`), so that its directory
  may be the one of the second before.
* `attr_accessor` in `profile_data.rb` ends in a comma, so that it takes
  the name of the method that follows: it defines an accessor `to_s` over it.
* After a flusher died, `stop!` and `start!` raise what it died of each time,
  because `@thread` is only cleared after `join`.

## 7. What is abstracted, and what is not modelled

Abstracted: whether an allocation is sampled (a choice; the rate is in
`PoliteFlush`), the contents of profiles beyond the multiset of objects
(`Collector`) or the backtraces (`Serctx`), the sizes of objects, logging,
statistics on time, and priorities of threads.  The
VALUEs that frames reference are a set per sample, where the code counts one
for each occurrence.  A compaction moves one object or VALUE per step;
moves of several are several steps.  Allocations by the flush itself happen
where it makes its result (`pc = "finish"`).

Assumed of code outside `src/`: `st_foreach` keeps its place when the table is
rebuilt, and appends; zlib does what it documents; upb's arena does not fail;
backtracie writes a name into the buffer it is given.  `intpair_st_hash_compare`
is not an equivalence, and the keys it would be given are in a stack frame that
has been left; `st` calls it for keys whose 64 bit hashes are equal and whose
addresses are not, but all these keys have the same address on the stack.  The
model takes an equal hash for an equal pair (`SamePair`).

Assumed of the VM: it frees objects and pages only in a GC or a sweep, which the
flag `dont_gc` keeps from running where memory is allocated; it does not run a
hook inside a hook; the GVL is handed to the first thread of its queue.  In
`PoliteFlush` the table is a set of keys, as `Collector` has what a sample is; the
two models share the yield and the walk, and each leaves to the other what the
walk does with an entry and who runs meanwhile.

Not modelled: what is left of `compat.c` (wrappers without state), `memsize`,
`pretty_backtraces` (a flag that nothing reads) and the getters; the parts of
Ruby's private headers that are not read; the build scripts beyond the three
features that are constants; the wrapper script, the tests and benchmarks; the
generated protobuf code and the vendored libraries (third-party).  In
`BlockFlusher`: two threads in `start!` or `stop!` at once, a fork in the middle
of them, and calls of `stop!` from `on_flush`.

## 8. Running it

    tlc -config Collector_ruby31.cfg MCCollector.tla
    tlc -config FlushProtected.cfg MCFlushProtected.tla
    tlc -config GcSection.cfg MCGcSection.tla
    tlc -config PoliteFlush.cfg MCPoliteFlush.tla
    tlc -config FileFlusher.cfg FileFlusher.tla
    tlapm CollectorProofs.tla

The longest run, `ruby31_yield`, takes three minutes on two cores; the proofs of
`CollectorProofs` take four.
