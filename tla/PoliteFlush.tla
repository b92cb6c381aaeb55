---------------------------- MODULE PoliteFlush ----------------------------
(***************************************************************************)
(* Who has the GVL while Collector#flush runs, and the drops it reports.   *)
(* With proactively_yield_gvl, flush_each_sample looks at every 25th entry *)
(* whether somebody waits for the GVL, and gives it up; with yield_gvl the *)
(* serialisation runs without it.  While a flush does not have the GVL,    *)
(* other threads allocate: their samples are appended to the table that it *)
(* walks, or are dropped and counted for the report of a later flush.      *)
(*                                                                         *)
(* Collector has what a flush does with each sample; here the table is a   *)
(* set of keys.  The GVL, which is not in src/, is a lock with a queue; a  *)
(* thread is its holder, in the queue, or away.                            *)
(***************************************************************************)
EXTENDS Integers, Sequences, FiniteSets, Functions

CONSTANTS
    Threads,
    Flushers,         \* those that call flush
    NoThread,
    Keys,             \* VALUEs of sampled objects
    NoKey,
    Interval,         \* the 25 of flush_each_sample
    MaxHeapSamples,   \* max_heap_samples
    MaxUnreported,    \* bound of the model: drops that are not reported
    UInt32Max,        \* UINT32_MAX
    Rates             \* what is given to sample_rate=: fractions <<p, q>>

ASSUME Sizes ==
    /\ Interval \in Nat \ {0}
    /\ MaxHeapSamples \in Nat /\ MaxUnreported \in Nat
    /\ UInt32Max \in Nat \ {0}
    /\ \A rate \in Rates : /\ rate \in Nat \X Nat
                           /\ rate[2] # 0 /\ rate[1] <= rate[2]

ASSUME Nobody ==
    NoThread \notin Threads /\ NoKey \notin Keys /\ Flushers \subseteq Threads

ASSUME FinitelyMany == IsFiniteSet(Threads)

VARIABLES
    gvl,              \* the owner of the GVL
    waitq,            \* gvl->waitq
    pc,               \* what each thread does when it has the GVL
    ctx,              \* the flush_protected_ctx and flush_each_sample_ctx
    heap_samples,     \* the keys of the table
    dropped_samples_heap_bufsize,
    u32_sample_rate,
    asked_rate,       \* history: the rate that was asked for
    unreported,       \* history: drops that no flush has reported, or lost
    pause             \* history: the entries that a walk has visited while
                      \* somebody waited, since it got the GVL; it stops one
                      \* above the interval

gvl_vars == <<gvl, waitq, pause>>
rate_vars == <<u32_sample_rate, asked_rate>>
drop_vars == <<dropped_samples_heap_bufsize, unreported>>
vars == <<gvl_vars, pc, ctx, heap_samples, drop_vars, rate_vars>>

\* The arguments of a flush; `i', of which only the remainder by the interval
\* is kept; the keys that st_foreach has still to come to, those that were
\* there at the beginning first; the key that it is at, across a yield; and the
\* drops to report.
Context == [proactively_yield_gvl : BOOLEAN, yield_gvl : BOOLEAN,
            i : 0 .. Interval - 1, old : SUBSET Keys, new : SUBSET Keys,
            at : Keys \union {NoKey}, dropped : Nat]

NoFlush == [proactively_yield_gvl |-> FALSE, yield_gvl |-> FALSE,
            i |-> 0, old |-> {}, new |-> {}, at |-> NoKey, dropped |-> 0]

\* The conversion of a rate, from a double, to a uint32_t.
\* Fault: the range is one too large, and wraps.
Scaled_Wraps(rate) ==
    (((UInt32Max + 1) * rate[1]) \div rate[2]) % (UInt32Max + 1)
Scaled(rate) == ((UInt32Max * rate[1]) \div rate[2]) % (UInt32Max + 1)

Init ==
    /\ gvl = NoThread
    /\ waitq = <<>>
    /\ pause = 0
    /\ pc = [t \in Threads |-> "ruby"]
    /\ ctx = [t \in Threads |-> NoFlush]
    /\ heap_samples = {}
    /\ dropped_samples_heap_bufsize = 0
    /\ asked_rate \in Rates
    /\ u32_sample_rate = Scaled(asked_rate)
    /\ unreported = 0

-----------------------------------------------------------------------------
(* The GVL (external)                                                      *)

Waiting == {waitq[k] : k \in DOMAIN waitq}
Away(t) == gvl # t /\ t \notin Waiting

\* The first of the queue gets the GVL.
HandOver(queue) ==
    /\ gvl' = IF queue = <<>> THEN NoThread ELSE Head(queue)
    /\ waitq' = IF queue = <<>> THEN <<>> ELSE Tail(queue)
    /\ pause' = 0

Acquire(t) ==
    /\ Away(t)
    /\ IF gvl = NoThread THEN gvl' = t /\ UNCHANGED waitq
       ELSE waitq' = Append(waitq, t) /\ UNCHANGED gvl
    /\ UNCHANGED pause

RunsRuby(t) == gvl = t /\ pc[t] = "ruby"

\* A thread waits for something else, and goes on.
Block(t) ==
    /\ RunsRuby(t)
    /\ HandOver(waitq)
    /\ UNCHANGED <<pc, ctx, heap_samples, drop_vars, rate_vars>>

Unblock(t) ==
    /\ pc[t] = "ruby"
    /\ Acquire(t)
    /\ UNCHANGED <<pc, ctx, heap_samples, drop_vars, rate_vars>>

\* The timer of Ruby interrupts a thread that runs Ruby code.
Preempt(t) ==
    /\ RunsRuby(t)
    /\ waitq # <<>>
    /\ HandOver(Append(waitq, t))
    /\ UNCHANGED <<pc, ctx, heap_samples, drop_vars, rate_vars>>

-----------------------------------------------------------------------------
(* The hooks, start! and the setter                                        *)

Walking(t) == pc[t] \in {"walk", "visit"}

\* What mpp_rand may draw, each value as likely as any other.
Rands == 0 .. UInt32Max

\* mpp_rand() > cd->u32_sample_rate, for each value that is drawn.
\* Fault: the value at the boundary is not sampled.
Sampled_Below == {rand \in Rands : rand < u32_sample_rate}
Sampled == {rand \in Rands : ~(rand > u32_sample_rate)}

Full == Cardinality(heap_samples) >= MaxHeapSamples

NewObjSampled(t, key) ==
    /\ RunsRuby(t)
    /\ Sampled # {}
    /\ ~Full
    /\ key \notin heap_samples
    /\ heap_samples' = heap_samples \union {key}
    /\ ctx' = [u \in Threads |->
                 IF Walking(u) THEN [ctx[u] EXCEPT !.new = @ \union {key}]
                               ELSE ctx[u]]
    /\ UNCHANGED <<gvl_vars, pc, drop_vars, rate_vars>>

NewObjDropped(t) ==
    /\ RunsRuby(t)
    /\ Sampled # {}
    /\ Full
    /\ unreported < MaxUnreported
    /\ dropped_samples_heap_bufsize' = dropped_samples_heap_bufsize + 1
    /\ unreported' = unreported + 1
    /\ UNCHANGED <<gvl_vars, pc, ctx, heap_samples, rate_vars>>

\* An entry is deleted: no walk comes to it any more.
Without(c, key) == [c EXCEPT !.old = @ \ {key}, !.new = @ \ {key}]

FreeObj(t, key) ==
    /\ RunsRuby(t)
    /\ key \in heap_samples
    /\ heap_samples' = heap_samples \ {key}
    /\ ctx' = [u \in Threads |-> Without(ctx[u], key)]
    /\ UNCHANGED <<gvl_vars, pc, drop_vars, rate_vars>>

\* start! resets the count of drops; nobody will be told of them.
Start(t) ==
    /\ RunsRuby(t)
    /\ unreported' = unreported - dropped_samples_heap_bufsize
    /\ dropped_samples_heap_bufsize' = 0
    /\ UNCHANGED <<gvl_vars, pc, ctx, heap_samples, rate_vars>>

\* sample_rate, as a fraction.
SampleRate == <<u32_sample_rate, UInt32Max>>

SetSampleRate(t, rate) ==
    /\ RunsRuby(t)
    /\ rate # asked_rate
    /\ asked_rate' = rate
    /\ u32_sample_rate' = Scaled(rate)
    /\ UNCHANGED <<gvl_vars, pc, ctx, heap_samples, drop_vars>>

-----------------------------------------------------------------------------
(* flush                                                                   *)

\* What is left of the count once a flush has taken it.
\* Fault: the reset is missing.
DroppedLeft_All == dropped_samples_heap_bufsize
DroppedLeft == 0

\* collector_flush with its keyword arguments, up to st_foreach.
FlushBegin(t) ==
    /\ RunsRuby(t)
    /\ t \in Flushers
    /\ \E proactively, without \in BOOLEAN :
          ctx' = [ctx EXCEPT ![t] =
                    [proactively_yield_gvl |-> proactively,
                     yield_gvl |-> without,
                     i |-> 0, old |-> heap_samples, new |-> {}, at |-> NoKey,
                     dropped |-> dropped_samples_heap_bufsize]]
    /\ dropped_samples_heap_bufsize' = DroppedLeft
    /\ pc' = [pc EXCEPT ![t] = "walk"]
    /\ pause' = 0
    /\ UNCHANGED <<gvl, waitq, heap_samples, unreported, rate_vars>>

\* The entry that st_foreach comes to next.
IsNext(t, key) == key \in IF ctx[t].old = {} THEN ctx[t].new ELSE ctx[t].old

\* mpp_is_someone_else_waiting_for_gvl, at every 25th entry.
\* Fault: samples that are too new return before the check.
MustYield_Old(t) ==
    /\ ctx[t].proactively_yield_gvl
    /\ ctx[t].i = 0
    /\ waitq # <<>>
    /\ ctx[t].old # {}

MustYield(t) ==
    /\ ctx[t].proactively_yield_gvl
    /\ ctx[t].i = 0
    /\ waitq # <<>>

\* rb_thread_schedule.
FlushYield(t) ==
    /\ gvl = t /\ pc[t] = "walk"
    /\ MustYield(t)
    /\ \E key \in Keys :
          /\ IsNext(t, key)
          /\ ctx' = [ctx EXCEPT ![t] = [Without(@, key) EXCEPT !.at = key]]
    /\ pc' = [pc EXCEPT ![t] = "visit"]
    /\ HandOver(Append(waitq, t))
    /\ UNCHANGED <<heap_samples, drop_vars, rate_vars>>

\* ctx->i++.
Incremented(i) == IF i + 1 = Interval THEN 0 ELSE i + 1

\* st_foreach goes on behind the entry.
\* Fault: it begins again.
Behind_Restart(t, key) ==
    [ctx[t] EXCEPT !.i = Incremented(@), !.at = NoKey, !.old = heap_samples]
Behind(t, key) ==
    [Without(ctx[t], key) EXCEPT !.i = Incremented(@), !.at = NoKey]

\* flush_each_sample, or what rb_thread_schedule has left of it.  The sample is
\* passed over or added to the profile, or its object is gone.
FlushVisit(t, key) ==
    /\ gvl = t
    /\ \/ pc[t] = "visit" /\ key = ctx[t].at
       \/ pc[t] = "walk" /\ IsNext(t, key) /\ ~MustYield(t)
    /\ \/ /\ ctx' = [ctx EXCEPT ![t] = Behind(t, key)]
          /\ UNCHANGED heap_samples
       \/ /\ key \in heap_samples \ ctx[t].new
          /\ heap_samples' = heap_samples \ {key}
          /\ ctx' = [u \in Threads |-> IF u = t THEN Behind(t, key)
                                       ELSE Without(ctx[u], key)]
    /\ pc' = [pc EXCEPT ![t] = "walk"]
    /\ pause' = IF waitq = <<>> \/ pause > Interval THEN pause ELSE pause + 1
    /\ UNCHANGED <<gvl, waitq, drop_vars, rate_vars>>

\* The serialisation begins, with or without the GVL.
FlushEndWalk(t) ==
    /\ gvl = t /\ pc[t] = "walk"
    /\ ctx[t].old = {} /\ ctx[t].new = {}
    /\ pc' = [pc EXCEPT ![t] = "serialize"]
    /\ IF ctx[t].yield_gvl THEN HandOver(waitq) ELSE UNCHANGED gvl_vars
    /\ UNCHANGED <<ctx, heap_samples, drop_vars, rate_vars>>

FlushSerialized(t) ==
    /\ pc[t] = "serialize"
    /\ pc' = [pc EXCEPT ![t] = "finish"]
    /\ IF ctx[t].yield_gvl THEN Acquire(t) ELSE UNCHANGED gvl_vars
    /\ UNCHANGED <<ctx, heap_samples, drop_vars, rate_vars>>

\* The drops are in the ProfileData that is returned; or they are lost, as the
\* flush raises: a sample or the serialisation has failed, or an exception was
\* pending when the GVL came back.
FlushReturn(t) ==
    /\ gvl = t
    /\ pc[t] \in {"walk", "visit", "finish"}
    /\ unreported' = unreported - ctx[t].dropped
    /\ ctx' = [ctx EXCEPT ![t] = NoFlush]
    /\ pc' = [pc EXCEPT ![t] = "ruby"]
    /\ UNCHANGED <<gvl_vars, heap_samples, dropped_samples_heap_bufsize,
                   rate_vars>>

-----------------------------------------------------------------------------
FlusherStep(t) ==
    \/ FlushYield(t)
    \/ \E key \in Keys : FlushVisit(t, key)
    \/ FlushEndWalk(t)
    \/ FlushSerialized(t)
    \/ pc[t] = "finish" /\ FlushReturn(t)

Next ==
    \/ \E t \in Threads : Block(t) \/ Unblock(t) \/ Preempt(t)
    \/ \E t \in Threads, key \in Keys : NewObjSampled(t, key) \/ FreeObj(t, key)
    \/ \E t \in Threads : NewObjDropped(t) \/ Start(t)
    \/ \E t \in Threads, rate \in Rates : SetSampleRate(t, rate)
    \/ \E t \in Threads : FlushBegin(t)
    \/ \E t \in Threads : FlusherStep(t)
    \/ \E t \in Threads : pc[t] # "finish" /\ FlushReturn(t)

\* A flush that can go on goes on.  The interrupt of the timer stays pending
\* while C code runs, and Ruby code looks at it again and again.
Fairness ==
    \A t \in Threads : WF_vars(FlusherStep(t)) /\ SF_vars(Preempt(t))

Spec == Init /\ [][Next]_vars /\ Fairness

-----------------------------------------------------------------------------
(* What the flush promises                                                 *)

\* The types, and who has the GVL: a walk is suspended in the queue only, and
\* the rest of the flush is there, or without the GVL if it was asked to.
TypeOK ==
    /\ gvl \in Threads \union {NoThread}
    /\ waitq \in Seq(Threads)
    /\ IsInjective(waitq) /\ gvl \notin Waiting
    /\ gvl = NoThread => waitq = <<>>
    /\ pc \in [Threads -> {"ruby", "walk", "visit", "serialize", "finish"}]
    /\ ctx \in [Threads -> Context]
    /\ heap_samples \subseteq Keys
    /\ {dropped_samples_heap_bufsize, unreported, pause} \subseteq Nat
    /\ asked_rate \in Rates /\ u32_sample_rate \in 0 .. UInt32Max
    /\ \A t \in Threads :
          /\ Walking(t) => ~Away(t)
          /\ pc[t] = "visit" <=> ctx[t].at # NoKey
          /\ pc[t] = "serialize" /\ ~ctx[t].yield_gvl => gvl = t
          /\ ctx[t].old \union ctx[t].new \subseteq heap_samples

\* IMPLEMENTATION.md: "many shorter pauses rather than one very long pause".
\* A walk that yields visits no more entries than the interval while somebody
\* waits, whatever has come to the table and whoever else is flushing.
ShortPauses ==
    \A t \in Threads :
        gvl = t /\ Walking(t) /\ ctx[t].proactively_yield_gvl =>
            pause <= Interval

\* Every drop is counted once: it is in the count, or in the hands of one of
\* the flushes that are in progress.
DropsAddUp ==
    unreported = dropped_samples_heap_bufsize
                 + FoldFunction(+, 0, [t \in Threads |-> ctx[t].dropped])

\* As many of the random values are sampled as the rate says, up to one; with
\* a rate of one, all are.  And sample_rate is the rate that was asked for,
\* up to the precision of the 32 bits.
RateIsKept ==
    LET part == Cardinality(Sampled) * asked_rate[2]
        wanted == asked_rate[1] * (UInt32Max + 1)
        drift == asked_rate[1] * SampleRate[2] - asked_rate[2] * SampleRate[1]
    IN  /\ part - wanted \in -asked_rate[2] .. asked_rate[2]
        /\ asked_rate[1] = asked_rate[2] => part = wanted
        /\ drift \in 0 .. asked_rate[2] - 1

\* Whoever waits for the GVL gets it, whoever flushes.
WaitersRun == \A t \in Threads : t \in Waiting ~> gvl = t

\* A flush returns, also one that yields, unless the other threads go on for
\* ever to append to the table that it walks.
Appends == heap_samples \subseteq heap_samples' /\ heap_samples # heap_samples'

FlushReturns ==
    <>[][~Appends]_vars => \A t \in Flushers : pc[t] # "ruby" ~> pc[t] = "ruby"

=============================================================================
