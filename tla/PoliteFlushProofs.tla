------------------------- MODULE PoliteFlushProofs -------------------------
(* Proofs about PoliteFlush, for any threads, table, interval and rates: a   *)
(* flush that was asked to yield never makes the others wait for more        *)
(* entries than the interval; who has the GVL, and who waits for it; every   *)
(* drop is counted once; and the sample rate is the one that was asked for.  *)
EXTENDS PoliteFlush, FiniteSetTheorems, TLAPS

PC == {"ruby", "walk", "visit", "serialize", "finish"}

Types ==
    /\ waitq \in Seq(Threads)
    /\ pc \in [Threads -> PC]
    /\ ctx \in [Threads -> Context]
    /\ heap_samples \subseteq Keys
    /\ pause \in Nat
    /\ dropped_samples_heap_bufsize \in Nat

\* How many entries a walk may have visited since it has the GVL, by the
\* number of the entry that it comes to: none when it is back from a yield, and
\* as many as there were since the last look at the queue.
Visited(t) ==
    CASE pc[t] = "visit" -> 0
      [] pc[t] = "walk" -> IF ctx[t].i = 0 THEN Interval ELSE ctx[t].i

Polite(t) ==
    /\ pc[t] = "visit" => ctx[t].i = 0
    /\ gvl = t /\ Walking(t) /\ ctx[t].proactively_yield_gvl =>
           pause <= Visited(t)

\* Nobody waits: no pause.
Pauses == (waitq = <<>> => pause = 0) /\ \A t \in Threads : Polite(t)

PoliteInv == Types /\ Pauses

-----------------------------------------------------------------------------
(* The contexts                                                            *)

\* What other threads do to the context of a walk leaves its count alone.
LEMMA WithoutFields ==
    ASSUME NEW c \in Context, NEW key \in Keys, Sizes
    PROVE  /\ Without(c, key) \in Context
           /\ Without(c, key).i = c.i
           /\ Without(c, key).proactively_yield_gvl = c.proactively_yield_gvl
BY DEF Without, Context

LEMMA NewFields ==
    ASSUME NEW c \in Context, NEW key \in Keys
    PROVE  LET d == [c EXCEPT !.new = @ \union {key}]
           IN  /\ d \in Context /\ d.i = c.i
               /\ d.proactively_yield_gvl = c.proactively_yield_gvl
BY DEF Context

LEMMA IncrementedType ==
    ASSUME NEW i \in 0 .. Interval - 1
    PROVE  /\ Incremented(i) \in 0 .. Interval - 1
           /\ Incremented(i) = 0 => i + 1 = Interval
           /\ Incremented(i) # 0 => Incremented(i) = i + 1
BY Sizes DEF Sizes, Incremented

LEMMA BehindFields ==
    ASSUME NEW t \in Threads, NEW key \in Keys, ctx[t] \in Context
    PROVE  /\ Behind(t, key) \in Context
           /\ Behind(t, key).i = Incremented(ctx[t].i)
           /\ Behind(t, key).proactively_yield_gvl =
                  ctx[t].proactively_yield_gvl
<1> DEFINE c == Without(ctx[t], key)
<1>1. /\ c \in Context /\ c.i = ctx[t].i
      /\ c.proactively_yield_gvl = ctx[t].proactively_yield_gvl
    BY WithoutFields, Sizes
<1>2. Incremented(c.i) \in 0 .. Interval - 1
    BY <1>1, IncrementedType DEF Context
<1>3. Behind(t, key) = [c EXCEPT !.i = Incremented(c.i), !.at = NoKey]
    BY DEF Behind
<1> HIDE DEF c
<1> QED BY <1>1, <1>2, <1>3 DEF Context

LEMMA YieldFields ==
    ASSUME NEW c \in Context, NEW key \in Keys
    PROVE  LET d == [Without(c, key) EXCEPT !.at = key]
           IN  d \in Context /\ d.i = c.i
<1>1. Without(c, key) \in Context /\ Without(c, key).i = c.i
    BY WithoutFields, Sizes
<1> QED BY <1>1 DEF Context

-----------------------------------------------------------------------------
(* The pauses                                                              *)

\* The counts of the walks are as they were.
SameCounts ==
    \A t \in Threads :
        /\ ctx'[t].i = ctx[t].i
        /\ ctx'[t].proactively_yield_gvl = ctx[t].proactively_yield_gvl

LEMMA VisitedType ==
    ASSUME Types, NEW t \in Threads, Walking(t)
    PROVE  Visited(t) \in Nat
BY Sizes DEF Types, Visited, Walking, Context, Sizes

LEMMA SamePauses ==
    ASSUME Pauses, SameCounts, UNCHANGED <<gvl_vars, pc>>
    PROVE  Pauses'
BY DEF Pauses, Polite, Visited, Walking, SameCounts, gvl_vars

\* Whoever gets the GVL begins a new pause.
LEMMA HandOverPauses ==
    ASSUME Types', NEW queue \in Seq(Threads), HandOver(queue),
           \A t \in Threads : pc'[t] = "visit" => ctx'[t].i = 0
    PROVE  Pauses'
<1>1. pause' = 0
    BY DEF HandOver
<1>2. ASSUME NEW t \in Threads
      PROVE  Polite(t)'
  <2>1. ASSUME Walking(t)'
        PROVE  Visited(t)' \in Nat
      BY <2>1, Sizes DEF Types, Visited, Walking, Context, Sizes
  <2>2. Walking(t)' => pause' <= Visited(t)'
      BY <1>1, <2>1
  <2> QED BY <2>2 DEF Polite
<1> QED BY <1>1, <1>2 DEF Pauses

LEMMA HandOverType ==
    ASSUME NEW queue \in Seq(Threads), HandOver(queue)
    PROVE  waitq' \in Seq(Threads) /\ pause' \in Nat
BY DEF HandOver

\* A thread that waits for the GVL, or gets it, is not one that walks.
LEMMA AcquirePauses ==
    ASSUME Types, Pauses, NEW t \in Threads, Acquire(t), SameCounts,
           NEW c \in {"ruby", "finish"}, pc' = [pc EXCEPT ![t] = c]
    PROVE  waitq' \in Seq(Threads) /\ pause' \in Nat /\ Pauses'
<1>1. pause' = pause /\ waitq' \in Seq(Threads)
    BY DEF Acquire, Types
<1>2. waitq' = <<>> => waitq = <<>>
    BY DEF Acquire, Types
<1>3. ASSUME NEW u \in Threads
      PROVE  Polite(u)'
  <2>1. CASE u = t
      BY <2>1 DEF Polite, Walking, Types
  <2>2. CASE u # t
    <3>1. pc'[u] = pc[u] /\ (gvl' = u => gvl = u)
        BY <2>2 DEF Acquire, Types
    <3> QED BY <1>1, <3>1
            DEF Pauses, Polite, Walking, Visited, SameCounts
  <2> QED BY <2>1, <2>2
<1> QED BY <1>1, <1>2, <1>3 DEF Pauses, Types

LEMMA InvInit == Init => PoliteInv
<1> SUFFICES ASSUME Init
             PROVE  PoliteInv
    OBVIOUS
<1>1. NoFlush \in Context
    BY Sizes DEF NoFlush, Context, Sizes
<1> QED BY <1>1 DEF Init, PoliteInv, Types, PC, Pauses, Polite, Walking

\* The GVL.
LEMMA GvlKeepsInv ==
    ASSUME PoliteInv, NEW t \in Threads, Block(t) \/ Unblock(t) \/ Preempt(t)
    PROVE  PoliteInv'
<1> USE DEF PoliteInv
<1>1. SameCounts /\ UNCHANGED <<pc, ctx, heap_samples,
                                 dropped_samples_heap_bufsize>>
    BY DEF SameCounts, Block, Unblock, Preempt, drop_vars
<1>2. \A u \in Threads : pc'[u] = "visit" => ctx'[u].i = 0
    BY <1>1 DEF Pauses, Polite
<1>3. ASSUME NEW queue \in Seq(Threads), HandOver(queue)
      PROVE  PoliteInv'
  <2>1. Types'
      BY <1>1, <1>3, HandOverType DEF Types
  <2> QED BY <1>2, <1>3, <2>1, HandOverPauses
<1>4. CASE Block(t)
    BY <1>3, <1>4 DEF Block, Types
<1>5. CASE Preempt(t)
  <2>1. Append(waitq, t) \in Seq(Threads)
      BY DEF Types
  <2> QED BY <1>3, <1>5, <2>1 DEF Preempt
<1>6. CASE Unblock(t)
  <2>1. Acquire(t) /\ pc[t] = "ruby"
      BY <1>6 DEF Unblock
  <2>2. pc' = [pc EXCEPT ![t] = "ruby"]
      BY <1>1, <2>1 DEF Types
  <2>3. waitq' \in Seq(Threads) /\ pause' \in Nat /\ Pauses'
      BY <1>1, <2>1, <2>2, AcquirePauses
  <2> QED BY <1>1, <2>3 DEF Types
<1> QED BY <1>4, <1>5, <1>6

\* The hooks, start! and the setter.
LEMMA HooksKeepInv ==
    ASSUME PoliteInv, NEW t \in Threads,
           \/ \E key \in Keys : NewObjSampled(t, key) \/ FreeObj(t, key)
           \/ NewObjDropped(t) \/ Start(t)
           \/ \E rate \in Rates : SetSampleRate(t, rate)
    PROVE  PoliteInv'
<1> USE DEF PoliteInv
<1>1. UNCHANGED <<gvl_vars, pc>>
    BY DEF NewObjSampled, FreeObj, NewObjDropped, Start, SetSampleRate
<1>2. dropped_samples_heap_bufsize' \in Nat /\ heap_samples' \subseteq Keys
    BY DEF NewObjSampled, FreeObj, NewObjDropped, Start, SetSampleRate,
           drop_vars, Types
<1>3. ctx' \in [Threads -> Context] /\ SameCounts
  <2>1. ASSUME NEW key \in Keys, NewObjSampled(t, key)
        PROVE  ctx' \in [Threads -> Context] /\ SameCounts
    <3>1. \A u \in Threads :
              ctx'[u] = IF Walking(u)
                        THEN [ctx[u] EXCEPT !.new = @ \union {key}]
                        ELSE ctx[u]
        BY <2>1 DEF NewObjSampled
    <3>2. ctx' = [u \in Threads |-> ctx'[u]]
        BY <2>1 DEF NewObjSampled
    <3>3. \A u \in Threads : ctx[u] \in Context
        BY DEF Types
    <3>4. \A u \in Threads :
              /\ ctx'[u] \in Context /\ ctx'[u].i = ctx[u].i
              /\ ctx'[u].proactively_yield_gvl =
                     ctx[u].proactively_yield_gvl
        BY <3>1, <3>3, NewFields
    <3> QED BY <3>2, <3>4 DEF SameCounts
  <2>2. ASSUME NEW key \in Keys, FreeObj(t, key)
        PROVE  ctx' \in [Threads -> Context] /\ SameCounts
    <3>1. ctx' = [u \in Threads |-> Without(ctx[u], key)]
        BY <2>2 DEF FreeObj
    <3>2. \A u \in Threads : ctx[u] \in Context
        BY DEF Types
    <3> QED BY <3>1, <3>2, WithoutFields, Sizes DEF SameCounts
  <2>3. CASE ctx' = ctx
      BY <2>3 DEF SameCounts, Types
  <2> QED BY <2>1, <2>2, <2>3 DEF NewObjDropped, Start, SetSampleRate
<1> QED BY <1>1, <1>2, <1>3, SamePauses DEF Types, gvl_vars

\* The steps of a flush.
LEMMA BeginKeepsInv ==
    ASSUME PoliteInv, NEW t \in Threads, FlushBegin(t)
    PROVE  PoliteInv'
<1> USE DEF PoliteInv
<1>1. PICK proactively \in BOOLEAN, without \in BOOLEAN :
          ctx' = [ctx EXCEPT ![t] =
                    [proactively_yield_gvl |-> proactively,
                     yield_gvl |-> without,
                     i |-> 0, old |-> heap_samples, new |-> {}, at |-> NoKey,
                     dropped |-> dropped_samples_heap_bufsize]]
    BY DEF FlushBegin
<1>2. /\ waitq' = waitq /\ gvl' = gvl /\ pause' = 0
      /\ pc' = [pc EXCEPT ![t] = "walk"]
      /\ heap_samples' = heap_samples /\ dropped_samples_heap_bufsize' = 0
    BY DEF FlushBegin, DroppedLeft
<1>3. ctx'[t] \in Context /\ ctx'[t].i = 0
    BY <1>1, Sizes DEF Types, Context, Sizes
<1>4. ctx' \in [Threads -> Context]
    BY <1>1, <1>3 DEF Types
<1>5. ASSUME NEW u \in Threads
      PROVE  Polite(u)'
  <2>1. CASE u = t
      BY <1>2, <1>3, <2>1, Sizes DEF Polite, Walking, Visited, Types, Sizes
  <2>2. CASE u # t
    <3>1. gvl = t /\ pc'[u] = pc[u] /\ ctx'[u] = ctx[u]
        BY <1>1, <1>2, <2>2 DEF FlushBegin, RunsRuby, Types
    <3> QED BY <1>2, <2>2, <3>1 DEF Pauses, Polite, Walking
  <2> QED BY <2>1, <2>2
<1> QED BY <1>2, <1>4, <1>5 DEF Types, Pauses, PC

LEMMA YieldKeepsInv ==
    ASSUME PoliteInv, NEW t \in Threads, FlushYield(t)
    PROVE  PoliteInv'
<1> USE DEF PoliteInv
<1>1. PICK key \in Keys :
          ctx' = [ctx EXCEPT ![t] = [Without(@, key) EXCEPT !.at = key]]
    BY DEF FlushYield
<1>2. /\ pc' = [pc EXCEPT ![t] = "visit"]
      /\ HandOver(Append(waitq, t)) /\ Append(waitq, t) \in Seq(Threads)
      /\ ctx[t].i = 0 /\ ctx[t] \in Context
      /\ UNCHANGED <<heap_samples, dropped_samples_heap_bufsize>>
    BY DEF FlushYield, MustYield, Types, drop_vars
<1>3. ctx'[t] \in Context /\ ctx'[t].i = 0
    BY <1>1, <1>2, YieldFields DEF Types
<1>4. Types'
    BY <1>1, <1>2, <1>3, HandOverType DEF Types, PC
<1>5. \A u \in Threads : pc'[u] = "visit" => ctx'[u].i = 0
    BY <1>1, <1>2, <1>3 DEF Pauses, Polite, Types
<1> QED BY <1>2, <1>4, <1>5, HandOverPauses

\* An entry more: the count goes up with the pause, and when it is back at the
\* check, the pause is at most the interval.
LEMMA VisitKeepsInv ==
    ASSUME PoliteInv, NEW t \in Threads, NEW key \in Keys, FlushVisit(t, key)
    PROVE  PoliteInv'
<1> USE DEF PoliteInv
<1>1. /\ gvl = t /\ gvl' = gvl /\ waitq' = waitq
      /\ Walking(t) /\ (pc[t] = "walk" => ~MustYield(t))
      /\ pc' = [pc EXCEPT ![t] = "walk"]
      /\ pause' = IF waitq = <<>> \/ pause > Interval THEN pause ELSE pause + 1
      /\ dropped_samples_heap_bufsize' = dropped_samples_heap_bufsize
    BY DEF FlushVisit, Walking, drop_vars
<1>c. \A u \in Threads : ctx[u] \in Context
    BY DEF Types
<1>2. /\ ctx'[t] = Behind(t, key)
      /\ \A u \in Threads \ {t} :
            ctx'[u] = ctx[u] \/ ctx'[u] = Without(ctx[u], key)
      /\ ctx' = [u \in Threads |-> ctx'[u]]
    BY DEF FlushVisit, Types
<1>3. /\ ctx'[t] \in Context
      /\ ctx'[t].i = Incremented(ctx[t].i)
      /\ ctx'[t].proactively_yield_gvl = ctx[t].proactively_yield_gvl
    BY <1>c, <1>2, BehindFields
<1>4. ASSUME NEW u \in Threads \ {t}
      PROVE  ctx'[u] \in Context /\ ctx'[u].i = ctx[u].i
    BY <1>c, <1>2, WithoutFields, Sizes
<1>5. Types'
  <2>1. \A u \in Threads : ctx'[u] \in Context
      BY <1>3, <1>4
  <2>2. ctx' \in [Threads -> Context]
      BY <1>2, <2>1
  <2>3. heap_samples' \subseteq Keys
      BY DEF FlushVisit, Types
  <2>4. pause' \in Nat
      BY <1>1 DEF Types
  <2> QED BY <1>1, <2>2, <2>3, <2>4 DEF Types, PC
<1>6. ASSUME NEW u \in Threads \ {t}
      PROVE  Polite(u)'
    BY <1>1, <1>4 DEF Pauses, Polite, Types
<1>7. Polite(t)'
  <2> DEFINE i == ctx[t].i
  <2> SUFFICES ASSUME ctx[t].proactively_yield_gvl
               PROVE  pause' <= IF ctx'[t].i = 0 THEN Interval ELSE ctx'[t].i
      BY <1>1, <1>3 DEF Polite, Visited, Types
  <2>1. /\ i \in 0 .. Interval - 1 /\ Interval \in Nat \ {0}
        /\ pause \in Nat
      BY <1>c, Sizes DEF Context, Sizes, Types
  <2>2. /\ Incremented(i) \in 0 .. Interval - 1
        /\ Incremented(i) = 0 => i + 1 = Interval
        /\ Incremented(i) # 0 => Incremented(i) = i + 1
      BY <2>1, IncrementedType
  <2>3. pause <= i
    <3>1. CASE pc[t] = "visit"
        BY <1>1, <2>1, <3>1 DEF Pauses, Polite, Visited
    <3>2. CASE pc[t] = "walk" /\ i = 0
        BY <1>1, <2>1, <3>2 DEF MustYield, Pauses
    <3>3. CASE pc[t] = "walk" /\ i # 0
        BY <1>1, <2>1, <3>3 DEF Pauses, Polite, Visited
    <3> QED BY <1>1, <3>1, <3>2, <3>3 DEF Walking
  <2>4. pause' <= i + 1
      BY <1>1, <2>1, <2>3
  <2>5. pause' \in Nat
      BY <1>5 DEF Types
  <2> HIDE DEF i
  <2>6. ctx'[t].i = Incremented(i)
      BY <1>3 DEF i
  <2> QED BY <2>1, <2>2, <2>4, <2>5, <2>6
<1>8. waitq' = <<>> => pause' = 0
    BY <1>1 DEF Pauses
<1> QED BY <1>5, <1>6, <1>7, <1>8 DEF Pauses

\* The rest of a flush does not walk.
LEMMA EndKeepsInv ==
    ASSUME PoliteInv, NEW t \in Threads,
           FlushEndWalk(t) \/ FlushSerialized(t) \/ FlushReturn(t)
    PROVE  PoliteInv'
<1> USE DEF PoliteInv
<1>0. UNCHANGED <<heap_samples, dropped_samples_heap_bufsize>>
    BY DEF FlushEndWalk, FlushSerialized, FlushReturn, drop_vars
<1>1. ASSUME UNCHANGED gvl_vars, ctx' \in [Threads -> Context],
             \A u \in Threads \ {t} : ctx'[u] = ctx[u],
             NEW c \in {"ruby", "serialize", "finish"},
             pc' = [pc EXCEPT ![t] = c]
      PROVE  PoliteInv'
  <2>1. Types'
      BY <1>0, <1>1 DEF Types, PC, gvl_vars
  <2>2. ASSUME NEW u \in Threads
        PROVE  Polite(u)'
    <3>1. CASE u = t
        BY <1>1, <3>1 DEF Polite, Walking, Types
    <3>2. CASE u # t
        BY <1>1, <3>2
        DEF Pauses, Polite, Walking, Visited, Types, gvl_vars
    <3> QED BY <3>1, <3>2
  <2> QED BY <1>1, <2>1, <2>2 DEF Pauses, gvl_vars
<1>2. CASE FlushEndWalk(t)
  <2>1. ctx' = ctx /\ pc' = [pc EXCEPT ![t] = "serialize"]
      BY <1>2 DEF FlushEndWalk
  <2>2. CASE UNCHANGED gvl_vars
      BY <1>1, <2>1, <2>2 DEF Types
  <2>3. CASE HandOver(waitq)
    <3>1. Types'
        BY <1>0, <2>1, <2>3, HandOverType DEF Types, PC
    <3>2. \A u \in Threads : pc'[u] = "visit" => ctx'[u].i = 0
        BY <2>1 DEF Pauses, Polite, Types
    <3> QED BY <2>3, <3>1, <3>2, HandOverPauses DEF Types
  <2> QED BY <1>2, <2>2, <2>3 DEF FlushEndWalk
<1>3. CASE FlushSerialized(t)
  <2>1. ctx' = ctx /\ pc' = [pc EXCEPT ![t] = "finish"]
      BY <1>3 DEF FlushSerialized
  <2>2. CASE UNCHANGED gvl_vars
      BY <1>1, <2>1, <2>2 DEF Types
  <2>3. CASE Acquire(t)
    <3>1. SameCounts
        BY <2>1 DEF SameCounts
    <3>2. waitq' \in Seq(Threads) /\ pause' \in Nat /\ Pauses'
        BY <2>1, <2>3, <3>1, AcquirePauses
    <3> QED BY <1>0, <2>1, <3>2 DEF Types, PC
  <2> QED BY <1>3, <2>2, <2>3 DEF FlushSerialized
<1>4. CASE FlushReturn(t)
  <2>1. NoFlush \in Context
      BY Sizes DEF NoFlush, Context, Sizes
  <2>2. /\ UNCHANGED gvl_vars /\ pc' = [pc EXCEPT ![t] = "ruby"]
        /\ ctx' = [ctx EXCEPT ![t] = NoFlush]
      BY <1>4 DEF FlushReturn
  <2>3. /\ ctx' \in [Threads -> Context]
        /\ \A u \in Threads \ {t} : ctx'[u] = ctx[u]
      BY <2>1, <2>2 DEF Types
  <2> QED BY <1>1, <2>2, <2>3
<1> QED BY <1>2, <1>3, <1>4

LEMMA InvStep == PoliteInv /\ [Next]_vars => PoliteInv'
<1>1. ASSUME PoliteInv, UNCHANGED vars
      PROVE  PoliteInv'
  <2>1. SameCounts /\ UNCHANGED <<gvl_vars, pc>>
      BY <1>1 DEF SameCounts, vars
  <2> QED BY <1>1, <2>1, SamePauses
          DEF PoliteInv, Types, vars, gvl_vars, drop_vars
<1> QED
    BY <1>1, GvlKeepsInv, HooksKeepInv, BeginKeepsInv, YieldKeepsInv,
       VisitKeepsInv, EndKeepsInv
    DEF Next, FlusherStep

\* A flush that was asked to yield visits at most an interval of entries while
\* somebody waits, however many threads there are and whatever they do.
THEOREM PausesAreShort == Spec => []ShortPauses
<1>1. PoliteInv => ShortPauses
  <2> SUFFICES ASSUME PoliteInv, NEW t \in Threads, gvl = t, Walking(t),
                      ctx[t].proactively_yield_gvl
               PROVE  pause <= Interval
      BY DEF ShortPauses
  <2>1. pause <= Visited(t) /\ pause \in Nat
      BY DEF PoliteInv, Pauses, Polite, Types
  <2>2. Visited(t) \in Nat /\ Visited(t) <= Interval
      BY Sizes
      DEF Visited, Walking, PoliteInv, Types, Context, Sizes
  <2> QED BY <2>1, <2>2, Sizes DEF Sizes
<1> QED BY InvInit, InvStep, <1>1, PTL DEF Spec

-----------------------------------------------------------------------------
(* Sums over the threads                                                   *)

\* The element that FoldFunction takes first, and the sum that it computes over
\* a set, out of the one without that element.
First(s) == CHOOSE x \in s : TRUE
Plus(f, s, sum) == IF s = {} THEN 0 ELSE f[First(s)] + sum[s \ {First(s)}]
Sums(f, S) == CHOOSE sum : sum = [s \in SUBSET S |-> Plus(f, s, sum)]

Total(f) == FoldFunction(+, 0, f)

LEMMA FirstOf ==
    ASSUME NEW s, s # {}
    PROVE  First(s) \in s
BY DEF First

LEMMA FoldIsSum ==
    ASSUME NEW f
    PROVE  Total(f) = Sums(f, DOMAIN f)[DOMAIN f]
BY DEF Total, FoldFunction, FoldFunctionOnSet, MapThenFoldSet, Sums, Plus, First

\* There is such a function: for the sets of at most n elements by induction
\* on n, in the form of a least number for which there is none.
LEMMA LeastNat ==
    ASSUME NEW T \in SUBSET Nat, T # {}
    PROVE  \E n \in T : \A m \in T : ~(m < n)
<1>1. \E n \in T : \A m \in T : ~(<<m, n>> \in OpToRel(<, Nat))
    BY NatLessThanWellFounded, WFMin
<1> QED BY <1>1 DEF OpToRel

\* sum is right for the sets of at most n elements.
UpTo(f, S, sum, n) ==
    /\ sum = [s \in SUBSET S |-> sum[s]]
    /\ \A s \in SUBSET S : Cardinality(s) <= n => sum[s] = Plus(f, s, sum)

LEMMA Longer ==
    ASSUME NEW S, IsFiniteSet(S), NEW f, NEW n \in Nat, NEW sum,
           UpTo(f, S, sum, n)
    PROVE  \E g : UpTo(f, S, g, n + 1)
<1> DEFINE g == [s \in SUBSET S |-> IF Cardinality(s) <= n THEN sum[s]
                                    ELSE Plus(f, s, sum)]
<1>1. ASSUME NEW s \in SUBSET S, Cardinality(s) <= n + 1
      PROVE  g[s] = Plus(f, s, g)
  <2>0. IsFiniteSet(s) /\ Cardinality(s) \in Nat
      BY FS_Subset, FS_CardinalityType
  <2>1. g[s] = Plus(f, s, sum)
      BY DEF UpTo
  <2>2. CASE s = {}
      BY <2>1, <2>2 DEF Plus
  <2>3. CASE s # {}
    <3>1. First(s) \in s
        BY <2>3, FirstOf
    <3>2. Cardinality(s \ {First(s)}) = Cardinality(s) - 1
        BY <2>0, <3>1, FS_RemoveElement
    <3>3. Cardinality(s \ {First(s)}) <= n
        BY <1>1, <2>0, <3>2
    <3>4. g[s \ {First(s)}] = sum[s \ {First(s)}]
        BY <3>3
    <3> HIDE DEF g
    <3> QED BY <2>1, <3>4 DEF Plus
  <2> QED BY <2>2, <2>3
<1>2. g = [s \in SUBSET S |-> g[s]]
    OBVIOUS
<1> HIDE DEF g
<1> QED BY <1>1, <1>2 DEF UpTo

\* The recursive definition of Sums has a solution.
LEMMA SumsExist ==
    ASSUME NEW S, IsFiniteSet(S), NEW f
    PROVE  \A s \in SUBSET S : Sums(f, S)[s] = Plus(f, s, Sums(f, S))
<1> DEFINE Short == {n \in Nat : ~\E sum : UpTo(f, S, sum, n)}
<1>1. 0 \notin Short
  <2> DEFINE g == [s \in SUBSET S |-> 0]
  <2>1. ASSUME NEW s \in SUBSET S, Cardinality(s) <= 0
        PROVE  g[s] = Plus(f, s, g)
    <3>1. s = {}
        BY <2>1, FS_Subset, FS_CardinalityType, FS_EmptySet
    <3> QED BY <3>1 DEF Plus
  <2>2. UpTo(f, S, g, 0)
      BY <2>1 DEF UpTo
  <2> QED BY <2>2
<1>2. \A n \in Nat : n \notin Short => n + 1 \notin Short
    BY Longer
<1>3. Short = {}
  <2> SUFFICES ASSUME Short # {}
               PROVE  FALSE
      OBVIOUS
  <2>1. PICK n \in Short : \A m \in Short : ~(m < n)
      BY LeastNat
  <2>2. n \in Nat /\ n # 0
      BY <1>1
  <2>3. n - 1 \in Nat /\ n - 1 < n /\ n = (n - 1) + 1
      BY <2>2
  <2>4. n - 1 \notin Short
      BY <2>1, <2>3
  <2>5. n \notin Short
      BY <1>2, <2>3, <2>4
  <2> QED BY <2>5
<1>4. Cardinality(S) \in Nat
    BY FS_CardinalityType
<1>5. PICK sum : UpTo(f, S, sum, Cardinality(S))
    BY <1>3, <1>4
<1>6. \A s \in SUBSET S : Cardinality(s) <= Cardinality(S)
    BY FS_Subset
<1>7. sum = [s \in SUBSET S |-> Plus(f, s, sum)]
    BY <1>5, <1>6 DEF UpTo
<1>8. Sums(f, S) = [s \in SUBSET S |-> Plus(f, s, Sums(f, S))]
    BY <1>7 DEF Sums
<1> HIDE DEF Short
<1> QED BY <1>8

\* One value is changed: the sum changes by as much.  The induction is over the
\* subsets: a smallest one for which it is wrong.
LEMMA SumChange ==
    ASSUME NEW S, IsFiniteSet(S), NEW f \in [S -> Nat], NEW g \in [S -> Nat],
           NEW t \in S, \A u \in S \ {t} : g[u] = f[u]
    PROVE  /\ Total(f) \in Nat
           /\ Total(g) = Total(f) - f[t] + g[t]
           /\ Total(f) >= f[t]
<1> DEFINE F == Sums(f, S)
           G == Sums(g, S)
           Good(s) == /\ F[s] \in Nat /\ G[s] \in Nat
                      /\ t \notin s => G[s] = F[s]
                      /\ t \in s => G[s] = F[s] - f[t] + g[t] /\ F[s] >= f[t]
           Bad == {s \in SUBSET S : ~Good(s)}
<1>1. \A s \in SUBSET S : F[s] = Plus(f, s, F) /\ G[s] = Plus(g, s, G)
    BY SumsExist
<1> HIDE DEF F, G
<1>2. ASSUME NEW s \in SUBSET S, s # {} => Good(s \ {First(s)})
      PROVE  Good(s)
  <2>1. CASE s = {}
      BY <1>1, <2>1 DEF Plus
  <2>2. CASE s # {}
    <3> DEFINE x == First(s)
               r == s \ {x}
    <3>1. x \in s /\ x \in S /\ r \in SUBSET S
        BY <2>2, FirstOf
    <3>2. F[s] = f[x] + F[r] /\ G[s] = g[x] + G[r]
        BY <1>1, <2>2 DEF Plus
    <3>3. Good(r)
        BY <1>2, <2>2
    <3>4. f[x] \in Nat /\ g[x] \in Nat /\ f[t] \in Nat /\ g[t] \in Nat
        BY <3>1
    <3>5. t \in s <=> t = x \/ t \in r
        BY <3>1
    <3>6. ~(t = x /\ t \in r)
        OBVIOUS
    <3> HIDE DEF x, r
    <3>7. CASE t = x
        BY <3>2, <3>3, <3>4, <3>5, <3>6, <3>7
    <3>8. CASE t # x
      <4>1. g[x] = f[x]
          BY <3>1, <3>8
      <4> QED BY <3>2, <3>3, <3>4, <3>5, <3>8, <4>1
    <3> QED BY <3>7, <3>8
  <2> QED BY <2>1, <2>2
<1>3. Bad = {}
  <2> SUFFICES ASSUME Bad # {}
               PROVE  FALSE
      OBVIOUS
  <2>1. /\ FiniteSubsetsOf(S) = SUBSET S
        /\ IsWellFoundedOn(StrictSubsetOrdering(S), SUBSET S)
      BY FS_FiniteSubsetsOfFinite, FS_StrictSubsetOrderingWellFounded
  <2>2. Bad \subseteq SUBSET S
      OBVIOUS
  <2> HIDE DEF Bad
  <2>3. PICK s \in Bad : \A r \in Bad : <<r, s>> \notin StrictSubsetOrdering(S)
      BY <2>1, <2>2, WFMin
  <2>4. s \in SUBSET S /\ ~Good(s)
      BY DEF Bad
  <2>5. s # {} => Good(s \ {First(s)})
    <3> SUFFICES ASSUME s # {}
                 PROVE  Good(s \ {First(s)})
        OBVIOUS
    <3> HIDE DEF Good
    <3>1. First(s) \in s
        BY FirstOf
    <3>2. <<s \ {First(s)}, s>> \in StrictSubsetOrdering(S)
        BY <2>4, <3>1 DEF StrictSubsetOrdering
    <3>3. s \ {First(s)} \notin Bad
        BY <2>3, <3>2
    <3> QED BY <2>4, <3>3 DEF Bad
  <2> HIDE DEF Good
  <2> QED BY <1>2, <2>4, <2>5
<1>4. Good(S)
    BY <1>3
<1>5. /\ Total(f) = F[S] /\ Total(g) = G[S]
    BY FoldIsSum DEF F, G
<1> QED BY <1>4, <1>5

\* Nothing but zeros.
LEMMA SumOfZeros ==
    ASSUME NEW S, IsFiniteSet(S), NEW f, f = [u \in S |-> 0]
    PROVE  Total(f) = 0
<1> DEFINE F == Sums(f, S)
           Bad == {s \in SUBSET S : F[s] # 0}
<1>1. \A s \in SUBSET S : F[s] = Plus(f, s, F)
    BY SumsExist
<1> HIDE DEF F
<1>2. Bad = {}
  <2> SUFFICES ASSUME Bad # {}
               PROVE  FALSE
      OBVIOUS
  <2>1. /\ FiniteSubsetsOf(S) = SUBSET S
        /\ IsWellFoundedOn(StrictSubsetOrdering(S), SUBSET S)
      BY FS_FiniteSubsetsOfFinite, FS_StrictSubsetOrderingWellFounded
  <2>2. Bad \subseteq SUBSET S
      OBVIOUS
  <2> HIDE DEF Bad
  <2>3. PICK s \in Bad : \A r \in Bad : <<r, s>> \notin StrictSubsetOrdering(S)
      BY <2>1, <2>2, WFMin
  <2>4. s \in SUBSET S /\ F[s] # 0
      BY DEF Bad
  <2>5. s # {}
      BY <1>1, <2>4 DEF Plus
  <2>6. First(s) \in s
      BY <2>5, FirstOf
  <2>7. <<s \ {First(s)}, s>> \in StrictSubsetOrdering(S)
      BY <2>4, <2>6 DEF StrictSubsetOrdering
  <2>8. F[s \ {First(s)}] = 0
      BY <2>3, <2>4, <2>7 DEF Bad
  <2>9. f[First(s)] = 0
      BY <2>4, <2>6
  <2>10. F[s] = 0 + 0
      BY <1>1, <2>4, <2>5, <2>8, <2>9 DEF Plus
  <2> QED BY <2>4, <2>10
<1>3. DOMAIN f = S /\ F[S] = 0
    BY <1>2
<1> QED BY <1>3, FoldIsSum DEF F

-----------------------------------------------------------------------------
(* Who has the GVL                                                         *)

\* The GVL and its queue: nobody is in them twice.
Queue ==
    /\ gvl \in Threads \union {NoThread}
    /\ waitq \in Seq(Threads)
    /\ IsInjective(waitq) /\ gvl \notin Waiting
    /\ gvl = NoThread => waitq = <<>>

Place(t) ==
    /\ Walking(t) => ~Away(t)
    /\ pc[t] = "serialize" /\ ~ctx[t].yield_gvl => gvl = t

QueueInv == Queue /\ \A t \in Threads : Place(t)

Members(queue) == {queue[k] : k \in DOMAIN queue}

\* The holder is not in the queue, and may go to its end.
LEMMA AppendQueue ==
    ASSUME Queue, NEW t \in Threads, gvl = t
    PROVE  /\ Append(waitq, t) \in Seq(Threads)
           /\ IsInjective(Append(waitq, t))
           /\ Members(Append(waitq, t)) = Waiting \union {t}
<1> DEFINE queue == Append(waitq, t)
           n == Len(waitq)
<1>1. /\ waitq \in Seq(Threads) /\ n \in Nat
      /\ DOMAIN waitq = 1 .. n
      /\ \A k \in 1 .. n : waitq[k] # t
    BY DEF Queue, Waiting
<1>2. /\ queue \in Seq(Threads) /\ DOMAIN queue = 1 .. n + 1
      /\ \A k \in 1 .. n : queue[k] = waitq[k]
      /\ queue[n + 1] = t
    BY <1>1
<1>3. \A j, k \in 1 .. n : waitq[j] = waitq[k] => j = k
    BY <1>1 DEF Queue, IsInjective
<1> HIDE DEF n, queue
<1>4. IsInjective(queue)
  <2> SUFFICES ASSUME NEW j \in 1 .. n + 1, NEW k \in 1 .. n + 1,
                      queue[j] = queue[k]
               PROVE  j = k
      BY <1>2 DEF IsInjective
  <2>1. j \in 1 .. n \/ j = n + 1
      BY <1>1
  <2>2. k \in 1 .. n \/ k = n + 1
      BY <1>1
  <2> QED BY <1>1, <1>2, <1>3, <2>1, <2>2
<1>5. Members(queue) = Waiting \union {t}
  <2>1. ASSUME NEW k \in 1 .. n + 1
        PROVE  queue[k] \in Waiting \union {t}
    <3>1. CASE k \in 1 .. n
        BY <1>1, <1>2, <3>1 DEF Waiting
    <3>2. CASE k = n + 1
        BY <1>2, <3>2
    <3> QED BY <1>1, <3>1, <3>2
  <2>2. \A k \in 1 .. n : waitq[k] \in Members(queue)
      BY <1>1, <1>2 DEF Members
  <2>3. t \in Members(queue)
      BY <1>1, <1>2 DEF Members
  <2> QED BY <1>1, <1>2, <2>1, <2>2, <2>3 DEF Members, Waiting
<1> QED BY <1>2, <1>4, <1>5 DEF queue

\* Whoever is in the queue has the GVL afterwards, or is still in it.
LEMMA HandOverQueue ==
    ASSUME NEW queue \in Seq(Threads), IsInjective(queue), HandOver(queue)
    PROVE  /\ Queue'
           /\ \A u \in Members(queue) : ~Away(u)'
<1>1. CASE queue = <<>>
    BY <1>1, Nobody DEF HandOver, Queue, Waiting, IsInjective, Members, Away
<1>2. CASE queue # <<>>
  <2> DEFINE n == Len(queue)
  <2>1. /\ gvl' = Head(queue) /\ waitq' = Tail(queue)
      BY <1>2 DEF HandOver
  <2>2. /\ n \in Nat \ {0} /\ DOMAIN queue = 1 .. n
        /\ waitq' \in Seq(Threads) /\ DOMAIN waitq' = 1 .. n - 1
        /\ \A k \in 1 .. n - 1 : waitq'[k] = queue[k + 1]
        /\ gvl' = queue[1] /\ gvl' \in Threads
      BY <1>2, <2>1
  <2>3. \A j, k \in 1 .. n : queue[j] = queue[k] => j = k
      BY <2>2 DEF IsInjective
  <2> HIDE DEF n
  <2>4. IsInjective(waitq')
    <3> SUFFICES ASSUME NEW j \in 1 .. n - 1, NEW k \in 1 .. n - 1,
                        waitq'[j] = waitq'[k]
                 PROVE  j = k
        BY <2>2 DEF IsInjective
    <3>1. j + 1 \in 1 .. n /\ k + 1 \in 1 .. n
        BY <2>2
    <3>2. queue[j + 1] = queue[k + 1]
        BY <2>2
    <3>3. j + 1 = k + 1
        BY <2>3, <3>1, <3>2
    <3> QED BY <3>3
  <2>5. gvl' \notin Waiting'
    <3> SUFFICES ASSUME NEW k \in 1 .. n - 1, waitq'[k] = gvl'
                 PROVE  FALSE
        BY <2>2 DEF Waiting
    <3>1. 1 \in 1 .. n /\ k + 1 \in 1 .. n /\ k + 1 # 1
        BY <2>2
    <3> QED BY <2>2, <2>3, <3>1
  <2>6. ASSUME NEW k \in 1 .. n
        PROVE  ~Away(queue[k])'
    <3>1. CASE k = 1
        BY <2>2, <3>1 DEF Away
    <3>2. CASE k # 1
      <4>1. k - 1 \in 1 .. n - 1 /\ (k - 1) + 1 = k
          BY <2>2, <3>2
      <4>2. queue[k] = waitq'[k - 1] /\ k - 1 \in DOMAIN waitq'
          BY <2>2, <4>1
      <4> QED BY <4>2 DEF Away, Waiting
    <3> QED BY <3>1, <3>2
  <2>7. \A u \in Members(queue) : ~Away(u)'
      BY <2>2, <2>6 DEF Members
  <2> QED BY <2>2, <2>4, <2>5, <2>7, Nobody DEF Queue
<1> QED BY <1>1, <1>2

\* A thread that is away takes the GVL, or goes to the end of its queue.
LEMMA AcquireQueue ==
    ASSUME Queue, NEW t \in Threads, Acquire(t)
    PROVE  /\ Queue'
           /\ \A u \in Threads : ~Away(u) => ~Away(u)'
           /\ gvl # NoThread => gvl' = gvl
<1>1. CASE gvl = NoThread
  <2>1. gvl' = t /\ waitq' = <<>> /\ waitq = <<>>
      BY <1>1 DEF Acquire, Queue
  <2> QED BY <1>1, <2>1, Nobody DEF Queue, Away, Waiting, IsInjective
<1>2. CASE gvl # NoThread
  <2> DEFINE n == Len(waitq)
  <2>1. /\ gvl' = gvl /\ waitq' = Append(waitq, t) /\ t # gvl
        /\ gvl \in Threads /\ t \notin Waiting
      BY <1>2 DEF Acquire, Queue, Away
  <2>2. /\ waitq \in Seq(Threads) /\ n \in Nat
        /\ DOMAIN waitq = 1 .. n
        /\ \A k \in 1 .. n : waitq[k] # t
      BY <2>1 DEF Queue, Waiting
  <2>3. /\ waitq' \in Seq(Threads) /\ DOMAIN waitq' = 1 .. n + 1
        /\ \A k \in 1 .. n : waitq'[k] = waitq[k]
        /\ waitq'[n + 1] = t
      BY <2>1, <2>2
  <2>4. \A j, k \in 1 .. n : waitq[j] = waitq[k] => j = k
      BY <2>2 DEF Queue, IsInjective
  <2>5. \A k \in 1 .. n : waitq[k] # gvl
      BY <2>2 DEF Queue, Waiting
  <2> HIDE DEF n
  <2>6. IsInjective(waitq')
    <3> SUFFICES ASSUME NEW j \in 1 .. n + 1, NEW k \in 1 .. n + 1,
                        waitq'[j] = waitq'[k]
                 PROVE  j = k
        BY <2>3 DEF IsInjective
    <3>1. j \in 1 .. n \/ j = n + 1
        BY <2>2
    <3>2. k \in 1 .. n \/ k = n + 1
        BY <2>2
    <3> QED BY <2>2, <2>3, <2>4, <3>1, <3>2
  <2>7. gvl' \notin Waiting'
    <3> SUFFICES ASSUME NEW k \in 1 .. n + 1, waitq'[k] = gvl'
                 PROVE  FALSE
        BY <2>3 DEF Waiting
    <3>1. k \in 1 .. n \/ k = n + 1
        BY <2>2
    <3> QED BY <2>1, <2>3, <2>5, <3>1
  <2>8. ASSUME NEW k \in 1 .. n
        PROVE  waitq[k] \in Waiting'
    <3>1. k \in DOMAIN waitq' /\ waitq'[k] = waitq[k]
        BY <2>2, <2>3
    <3> QED BY <3>1 DEF Waiting
  <2>9. \A u \in Threads : ~Away(u) => ~Away(u)'
      BY <2>1, <2>2, <2>8 DEF Away, Waiting
  <2> QED BY <1>2, <2>1, <2>3, <2>6, <2>7, <2>9 DEF Queue
<1> QED BY <1>1, <1>2

\* The holder gives up the GVL; what it does next is not to walk, unless it
\* has gone to the queue.
LEMMA HandOverPlaces ==
    ASSUME PoliteInv, QueueInv, NEW t \in Threads, gvl = t,
           NEW queue \in {waitq, Append(waitq, t)}, HandOver(queue),
           \A u \in Threads \ {t} :
               pc'[u] = pc[u] /\ ctx'[u].yield_gvl = ctx[u].yield_gvl,
           Walking(t)' => queue = Append(waitq, t),
           pc'[t] = "serialize" => ctx'[t].yield_gvl
    PROVE  QueueInv'
<1>1. /\ queue \in Seq(Threads) /\ IsInjective(queue)
      /\ Waiting \subseteq Members(queue)
      /\ queue = Append(waitq, t) => t \in Members(queue)
  <2>1. CASE queue = waitq
    <3>1. Waiting = Members(queue) /\ t \notin Waiting
        BY <2>1 DEF QueueInv, Queue, Members, Waiting
    <3>2. queue \in Seq(Threads) /\ IsInjective(queue)
        BY <2>1 DEF QueueInv, Queue
    <3>3. t \in Members(Append(waitq, t))
        BY AppendQueue DEF QueueInv
    <3> QED BY <3>1, <3>2, <3>3
  <2>2. CASE queue = Append(waitq, t)
      BY <2>2, AppendQueue DEF QueueInv
  <2> QED BY <2>1, <2>2
<1>2. Queue' /\ \A u \in Members(queue) : ~Away(u)'
    BY <1>1, HandOverQueue
<1>3. Place(t)'
    BY <1>1, <1>2 DEF Place
<1>4. ASSUME NEW u \in Threads \ {t}
      PROVE  Place(u)'
  <2>1. Walking(u)' => ~Away(u)'
    <3>1. Walking(u)' => Walking(u)
        BY DEF Walking
    <3>2. Walking(u) => u \in Waiting
        BY DEF QueueInv, Place, Away
    <3> QED BY <1>1, <1>2, <3>1, <3>2
  <2>2. ~(pc'[u] = "serialize" /\ ~ctx'[u].yield_gvl)
      BY DEF QueueInv, Place
  <2> QED BY <2>1, <2>2 DEF Place
<1> QED BY <1>2, <1>3, <1>4 DEF QueueInv

\* A thread that is away, and does not walk, comes back.
LEMMA AcquirePlaces ==
    ASSUME QueueInv, NEW t \in Threads, Acquire(t),
           \A u \in Threads \ {t} :
               pc'[u] = pc[u] /\ ctx'[u].yield_gvl = ctx[u].yield_gvl,
           pc'[t] \in {"ruby", "finish"}
    PROVE  QueueInv'
<1>1. /\ Queue'
      /\ \A u \in Threads : ~Away(u) => ~Away(u)'
      /\ gvl # NoThread => gvl' = gvl
    BY AcquireQueue DEF QueueInv
<1>2. Place(t)'
    BY DEF Place, Walking
<1>3. ASSUME NEW u \in Threads \ {t}
      PROVE  Place(u)'
    BY <1>1, Nobody DEF QueueInv, Place, Walking
<1> QED BY <1>1, <1>2, <1>3 DEF QueueInv

\* The GVL stays with its holder, who goes on.
LEMMA SamePlaces ==
    ASSUME QueueInv, UNCHANGED <<gvl, waitq>>,
           \A u \in Threads :
               \/ pc'[u] = pc[u] /\ ctx'[u].yield_gvl = ctx[u].yield_gvl
               \/ gvl = u
               \/ pc'[u] \in {"ruby", "finish"}
    PROVE  QueueInv'
<1>1. Queue'
    BY DEF QueueInv, Queue, Waiting
<1>2. ASSUME NEW u \in Threads
      PROVE  Place(u)'
  <2>1. Away(u)' = Away(u)
      BY DEF Away, Waiting
  <2>2. CASE pc'[u] = pc[u] /\ ctx'[u].yield_gvl = ctx[u].yield_gvl
      BY <2>1, <2>2 DEF QueueInv, Place, Walking
  <2>3. CASE gvl = u
      BY <2>1, <2>3 DEF Place, Away
  <2>4. CASE pc'[u] \in {"ruby", "finish"}
      BY <2>4 DEF Place, Walking
  <2> QED BY <2>2, <2>3, <2>4
<1> QED BY <1>1, <1>2 DEF QueueInv

LEMMA QueueInit == Init => QueueInv
BY Nobody
   DEF Init, QueueInv, Queue, Waiting, Place, Walking, IsInjective

LEMMA QueueStep ==
    ASSUME PoliteInv, QueueInv, [Next]_vars
    PROVE  QueueInv'
<1> USE DEF PoliteInv, Types
<1>1. CASE UNCHANGED vars
    BY <1>1, SamePlaces DEF vars, gvl_vars
<1>2. ASSUME NEW t \in Threads, Block(t)
      PROVE  QueueInv'
    BY <1>2, HandOverPlaces DEF Block, RunsRuby, Walking
<1>3. ASSUME NEW t \in Threads, Unblock(t)
      PROVE  QueueInv'
    BY <1>3, AcquirePlaces DEF Unblock
<1>4. ASSUME NEW t \in Threads, Preempt(t)
      PROVE  QueueInv'
    BY <1>4, HandOverPlaces DEF Preempt, RunsRuby, Walking
<1>5. ASSUME NEW t \in Threads, NEW key \in Keys, NewObjSampled(t, key)
      PROVE  QueueInv'
  <2>1. \A u \in Threads : ctx'[u].yield_gvl = ctx[u].yield_gvl
      BY <1>5 DEF NewObjSampled, Context
  <2>2. UNCHANGED <<gvl, waitq, pc>>
      BY <1>5 DEF NewObjSampled, gvl_vars
  <2> QED BY <2>1, <2>2, SamePlaces
<1>6. ASSUME NEW t \in Threads, NEW key \in Keys, FreeObj(t, key)
      PROVE  QueueInv'
  <2>1. \A u \in Threads : ctx'[u].yield_gvl = ctx[u].yield_gvl
      BY <1>6 DEF FreeObj, Without, Context
  <2>2. UNCHANGED <<gvl, waitq, pc>>
      BY <1>6 DEF FreeObj, gvl_vars
  <2> QED BY <2>1, <2>2, SamePlaces
<1>7. ASSUME NEW t \in Threads,
             \/ NewObjDropped(t) \/ Start(t)
             \/ \E rate \in Rates : SetSampleRate(t, rate)
      PROVE  QueueInv'
  <2>1. UNCHANGED <<gvl, waitq, pc, ctx>>
      BY <1>7 DEF NewObjDropped, Start, SetSampleRate, gvl_vars
  <2> QED BY <2>1, SamePlaces
<1>8. ASSUME NEW t \in Threads, FlushBegin(t)
      PROVE  QueueInv'
  <2>1. /\ UNCHANGED <<gvl, waitq>> /\ gvl = t
        /\ \A u \in Threads \ {t} : pc'[u] = pc[u] /\ ctx'[u] = ctx[u]
      BY <1>8 DEF FlushBegin, RunsRuby
  <2> QED BY <2>1, SamePlaces
<1>9. ASSUME NEW t \in Threads, FlushYield(t)
      PROVE  QueueInv'
  <2>1. /\ gvl = t /\ pc'[t] = "visit" /\ HandOver(Append(waitq, t))
        /\ \A u \in Threads \ {t} : pc'[u] = pc[u] /\ ctx'[u] = ctx[u]
      BY <1>9 DEF FlushYield
  <2> QED BY <2>1, HandOverPlaces
<1>10. ASSUME NEW t \in Threads, NEW key \in Keys, FlushVisit(t, key)
       PROVE  QueueInv'
  <2>1. /\ UNCHANGED <<gvl, waitq>> /\ gvl = t
        /\ \A u \in Threads \ {t} :
               pc'[u] = pc[u] /\ ctx'[u].yield_gvl = ctx[u].yield_gvl
      BY <1>10 DEF FlushVisit, Without, Context
  <2> QED BY <2>1, SamePlaces
<1>11. ASSUME NEW t \in Threads, FlushEndWalk(t)
       PROVE  QueueInv'
  <2>1. /\ gvl = t /\ pc'[t] = "serialize" /\ ctx' = ctx
        /\ \A u \in Threads \ {t} : pc'[u] = pc[u]
      BY <1>11 DEF FlushEndWalk
  <2>2. CASE ctx[t].yield_gvl
    <3>1. HandOver(waitq) /\ ~Walking(t)'
        BY <1>11, <2>1, <2>2 DEF FlushEndWalk, Walking
    <3> QED BY <2>1, <2>2, <3>1, HandOverPlaces
  <2>3. CASE ~ctx[t].yield_gvl
    <3>1. UNCHANGED <<gvl, waitq>>
        BY <1>11, <2>3 DEF FlushEndWalk, gvl_vars
    <3> QED BY <2>1, <3>1, SamePlaces
  <2> QED BY <2>2, <2>3
<1>12. ASSUME NEW t \in Threads, FlushSerialized(t)
       PROVE  QueueInv'
  <2>1. /\ pc'[t] = "finish" /\ ctx' = ctx
        /\ \A u \in Threads \ {t} : pc'[u] = pc[u]
      BY <1>12 DEF FlushSerialized
  <2>2. CASE Acquire(t)
      BY <2>1, <2>2, AcquirePlaces
  <2>3. CASE UNCHANGED gvl_vars
      BY <2>1, <2>3, SamePlaces DEF gvl_vars
  <2> QED BY <1>12, <2>2, <2>3 DEF FlushSerialized
<1>13. ASSUME NEW t \in Threads, FlushReturn(t)
       PROVE  QueueInv'
  <2>1. /\ UNCHANGED <<gvl, waitq>> /\ pc'[t] = "ruby"
        /\ \A u \in Threads \ {t} : pc'[u] = pc[u] /\ ctx'[u] = ctx[u]
      BY <1>13 DEF FlushReturn, gvl_vars
  <2> QED BY <2>1, SamePlaces
<1> QED BY <1>1, <1>2, <1>3, <1>4, <1>5, <1>6, <1>7, <1>8, <1>9, <1>10,
           <1>11, <1>12, <1>13
        DEF Next, FlusherStep

-----------------------------------------------------------------------------
(* What a walk has still to come to                                        *)

\* The keys that a walk has left are in the table.
Table(t) ==
    /\ pc[t] = "visit" <=> ctx[t].at # NoKey
    /\ ctx[t].old \union ctx[t].new \subseteq heap_samples

TableInv == \A t \in Threads : Table(t)

\* What Without and Behind do to the other fields.
LEMMA WithoutTable ==
    ASSUME NEW c \in Context, NEW key \in Keys
    PROVE  LET d == Without(c, key)
           IN  /\ d \in Context /\ d.at = c.at /\ d.dropped = c.dropped
               /\ d.old = c.old \ {key} /\ d.new = c.new \ {key}
BY DEF Without, Context

LEMMA BehindTable ==
    ASSUME NEW t \in Threads, NEW key \in Keys, ctx[t] \in Context
    PROVE  LET d == Behind(t, key)
           IN  /\ d.at = NoKey /\ d.dropped = ctx[t].dropped
               /\ d.old = ctx[t].old \ {key} /\ d.new = ctx[t].new \ {key}
<1> DEFINE c == Without(ctx[t], key)
<1>1. /\ c \in Context /\ c.at = ctx[t].at /\ c.dropped = ctx[t].dropped
      /\ c.old = ctx[t].old \ {key} /\ c.new = ctx[t].new \ {key}
    BY WithoutTable
<1>2. Behind(t, key) = [c EXCEPT !.i = Incremented(@), !.at = NoKey]
    BY DEF Behind
<1> HIDE DEF c
<1> QED BY <1>1, <1>2 DEF Context

LEMMA TableInit == Init => TableInv
BY DEF Init, TableInv, Table, NoFlush

LEMMA TableStep ==
    ASSUME PoliteInv, TableInv, [Next]_vars
    PROVE  TableInv'
<1>c. \A u \in Threads : ctx[u] \in Context
    BY DEF PoliteInv, Types
<1> USE DEF PoliteInv, Types
<1>1. ASSUME UNCHANGED <<ctx, heap_samples>>,
             NEW t \in Threads, NEW c \in PC \ {"visit"},
             pc[t] # "visit", pc' = [pc EXCEPT ![t] = c] \/ pc' = pc
      PROVE  TableInv'
    BY <1>1 DEF TableInv, Table
<1>2. CASE UNCHANGED vars
    BY <1>2 DEF vars, TableInv, Table
<1>3. ASSUME NEW t \in Threads,
             \/ Block(t) \/ Unblock(t) \/ Preempt(t)
             \/ NewObjDropped(t) \/ Start(t)
             \/ \E rate \in Rates : SetSampleRate(t, rate)
      PROVE  TableInv'
  <2>1. UNCHANGED <<pc, ctx, heap_samples>>
      BY <1>3 DEF Block, Unblock, Preempt, NewObjDropped, Start, SetSampleRate
  <2> QED BY <2>1 DEF TableInv, Table
<1>4. ASSUME NEW t \in Threads, NEW key \in Keys, NewObjSampled(t, key)
      PROVE  TableInv'
  <2>1. /\ pc' = pc /\ heap_samples' = heap_samples \union {key}
        /\ \A u \in Threads :
               ctx'[u] = IF Walking(u)
                         THEN [ctx[u] EXCEPT !.new = @ \union {key}]
                         ELSE ctx[u]
      BY <1>4 DEF NewObjSampled
  <2>2. ASSUME NEW u \in Threads
        PROVE  Table(u)'
    <3>1. /\ ctx'[u].at = ctx[u].at /\ ctx'[u].old = ctx[u].old
          /\ ctx'[u].new \subseteq ctx[u].new \union {key}
        BY <1>c, <2>1 DEF Context
    <3> QED BY <2>1, <3>1 DEF TableInv, Table
  <2> QED BY <2>2 DEF TableInv
<1>5. ASSUME NEW t \in Threads, NEW key \in Keys, FreeObj(t, key)
      PROVE  TableInv'
  <2>1. /\ pc' = pc /\ heap_samples' = heap_samples \ {key}
        /\ \A u \in Threads : ctx'[u] = Without(ctx[u], key)
      BY <1>5 DEF FreeObj
  <2>2. ASSUME NEW u \in Threads
        PROVE  Table(u)'
    <3>1. /\ ctx'[u].at = ctx[u].at
          /\ ctx'[u].old = ctx[u].old \ {key}
          /\ ctx'[u].new = ctx[u].new \ {key}
        BY <1>c, <2>1, WithoutTable
    <3> QED BY <2>1, <3>1 DEF TableInv, Table
  <2> QED BY <2>2 DEF TableInv
<1>6. ASSUME NEW t \in Threads, FlushBegin(t)
      PROVE  TableInv'
  <2>1. /\ heap_samples' = heap_samples /\ pc'[t] = "walk"
        /\ ctx'[t].at = NoKey /\ ctx'[t].old = heap_samples
        /\ ctx'[t].new = {}
        /\ \A u \in Threads \ {t} : pc'[u] = pc[u] /\ ctx'[u] = ctx[u]
      BY <1>6 DEF FlushBegin
  <2> QED BY <2>1 DEF TableInv, Table
<1>7. ASSUME NEW t \in Threads, FlushYield(t)
      PROVE  TableInv'
  <2>1. PICK key \in Keys :
            ctx' = [ctx EXCEPT ![t] = [Without(@, key) EXCEPT !.at = key]]
      BY <1>7 DEF FlushYield
  <2>2. /\ heap_samples' = heap_samples /\ pc'[t] = "visit"
        /\ \A u \in Threads \ {t} : pc'[u] = pc[u] /\ ctx'[u] = ctx[u]
        /\ ctx'[t] = [Without(ctx[t], key) EXCEPT !.at = key]
      BY <1>7, <2>1 DEF FlushYield
  <2>3. /\ ctx'[t].at = key /\ ctx'[t].old = ctx[t].old \ {key}
        /\ ctx'[t].new = ctx[t].new \ {key}
    <3> DEFINE c == Without(ctx[t], key)
    <3>1. c \in Context /\ c.old = ctx[t].old \ {key}
          /\ c.new = ctx[t].new \ {key}
        BY <1>c, WithoutTable
    <3>2. ctx'[t] = [c EXCEPT !.at = key]
        BY <2>2
    <3> HIDE DEF c
    <3> QED BY <3>1, <3>2 DEF Context
  <2> QED BY <2>2, <2>3, Nobody DEF TableInv, Table
<1>8. ASSUME NEW t \in Threads, NEW key \in Keys, FlushVisit(t, key)
      PROVE  TableInv'
  <2>1. /\ pc' = [pc EXCEPT ![t] = "walk"]
        /\ \/ /\ heap_samples' = heap_samples
              /\ ctx' = [ctx EXCEPT ![t] = Behind(t, key)]
           \/ /\ heap_samples' = heap_samples \ {key}
              /\ ctx' = [u \in Threads |-> IF u = t THEN Behind(t, key)
                                           ELSE Without(ctx[u], key)]
      BY <1>8 DEF FlushVisit
  <2>2. /\ ctx'[t].at = NoKey /\ ctx'[t].old = ctx[t].old \ {key}
        /\ ctx'[t].new = ctx[t].new \ {key}
    <3>1. ctx'[t] = Behind(t, key)
        BY <2>1
    <3> QED BY <1>c, <3>1, BehindTable
  <2>3. heap_samples \ {key} \subseteq heap_samples'
      BY <2>1
  <2>4. Table(t)'
      BY <2>1, <2>2, <2>3 DEF TableInv, Table
  <2>5. ASSUME NEW u \in Threads \ {t}
        PROVE  Table(u)'
    <3>1. /\ pc'[u] = pc[u]
          /\ \/ heap_samples' = heap_samples /\ ctx'[u] = ctx[u]
             \/ /\ heap_samples' = heap_samples \ {key}
                /\ ctx'[u] = Without(ctx[u], key)
        BY <2>1
    <3>2. LET d == Without(ctx[u], key)
          IN  /\ d.at = ctx[u].at
              /\ d.old = ctx[u].old \ {key} /\ d.new = ctx[u].new \ {key}
        BY <1>c, WithoutTable
    <3> QED BY <3>1, <3>2 DEF TableInv, Table
  <2> QED BY <2>4, <2>5 DEF TableInv
<1>9. ASSUME NEW t \in Threads, FlushEndWalk(t) \/ FlushSerialized(t)
      PROVE  TableInv'
  <2>1. /\ UNCHANGED <<ctx, heap_samples>>
        /\ pc[t] # "visit"
        /\ \/ pc' = [pc EXCEPT ![t] = "serialize"]
           \/ pc' = [pc EXCEPT ![t] = "finish"]
      BY <1>9 DEF FlushEndWalk, FlushSerialized
  <2> QED BY <1>1, <2>1 DEF PC
<1>10. ASSUME NEW t \in Threads, FlushReturn(t)
       PROVE  TableInv'
  <2>1. /\ heap_samples' = heap_samples /\ pc'[t] = "ruby"
        /\ ctx'[t] = NoFlush
        /\ \A u \in Threads \ {t} : pc'[u] = pc[u] /\ ctx'[u] = ctx[u]
      BY <1>10 DEF FlushReturn
  <2> QED BY <2>1 DEF TableInv, Table, NoFlush
<1> QED BY <1>2, <1>3, <1>4, <1>5, <1>6, <1>7, <1>8, <1>9, <1>10
        DEF Next, FlusherStep

-----------------------------------------------------------------------------
(* The drops                                                               *)

Dropped == [t \in Threads |-> ctx[t].dropped]

\* A thread that does not flush has no drops in its hands.
DropsInv ==
    /\ unreported = dropped_samples_heap_bufsize + Total(Dropped)
    /\ \A t \in Threads : pc[t] = "ruby" => ctx[t].dropped = 0

LEMMA DropsType ==
    ASSUME Types
    PROVE  Dropped \in [Threads -> Nat]
BY DEF Types, Dropped, Context

\* The sum over the threads, after a change of the context of one of them.
LEMMA SumStep ==
    ASSUME Types, Types', NEW t \in Threads,
           \A u \in Threads \ {t} : ctx'[u].dropped = ctx[u].dropped
    PROVE  /\ Total(Dropped) \in Nat
           /\ Total(Dropped)' =
                  Total(Dropped) - ctx[t].dropped
                  + ctx'[t].dropped
           /\ Total(Dropped) >= ctx[t].dropped
<1> DEFINE f == Dropped
           g == [u \in Threads |-> ctx'[u].dropped]
<1>1. f \in [Threads -> Nat] /\ g \in [Threads -> Nat]
    BY DEF Types, Dropped, Context
<1>2. \A u \in Threads \ {t} : g[u] = f[u]
    BY DEF Dropped
<1>3. f[t] = ctx[t].dropped /\ g[t] = ctx'[t].dropped
    BY DEF Dropped
<1>4. Total(Dropped)' = Total(g)
    BY DEF Dropped
<1> HIDE DEF f, g
<1>5. /\ Total(f) \in Nat
      /\ Total(g) = Total(f) - f[t] + g[t]
      /\ Total(f) >= f[t]
    BY <1>1, <1>2, SumChange, FinitelyMany
<1>6. f = Dropped
    BY DEF f
<1> QED BY <1>3, <1>4, <1>5, <1>6

\* Nobody's drops have changed.
LEMMA SameDrops ==
    ASSUME DropsInv, UNCHANGED <<dropped_samples_heap_bufsize, unreported>>,
           \A u \in Threads : /\ ctx'[u].dropped = ctx[u].dropped
                              /\ pc'[u] = "ruby" => pc[u] = "ruby"
    PROVE  DropsInv'
<1> DEFINE g == [u \in Threads |-> ctx'[u].dropped]
<1>1. \A u \in Threads : g[u] = Dropped[u]
    BY DEF Dropped
<1>2. g = Dropped
    BY <1>1 DEF Dropped
<1>3. Dropped' = g
    BY DEF Dropped
<1>4. Total(Dropped)' = Total(Dropped)
    BY <1>2, <1>3
<1> QED BY <1>4 DEF DropsInv

LEMMA DropsInit == Init => DropsInv
<1> SUFFICES ASSUME Init
             PROVE  DropsInv
    OBVIOUS
<1>1. Dropped = [t \in Threads |-> 0]
    BY DEF Init, Dropped, NoFlush
<1>2. Total(Dropped) = 0
    BY <1>1, SumOfZeros, FinitelyMany
<1>3. unreported = 0 /\ dropped_samples_heap_bufsize = 0
    BY DEF Init
<1>4. \A t \in Threads : ctx[t].dropped = 0
    BY DEF Init, NoFlush
<1> QED BY <1>2, <1>3, <1>4 DEF DropsInv

LEMMA DropsStep ==
    ASSUME PoliteInv, PoliteInv', DropsInv, [Next]_vars
    PROVE  DropsInv'
<1>c. \A u \in Threads : ctx[u] \in Context
    BY DEF PoliteInv, Types
<1> USE DEF PoliteInv
<1>1. ASSUME UNCHANGED <<ctx, drop_vars>>,
             \A u \in Threads : pc'[u] = "ruby" => pc[u] = "ruby"
      PROVE  DropsInv'
    BY <1>1, SameDrops DEF drop_vars
<1>2. CASE UNCHANGED vars
    BY <1>1, <1>2 DEF vars
<1>3. ASSUME NEW t \in Threads,
             \/ Block(t) \/ Unblock(t) \/ Preempt(t)
             \/ \E rate \in Rates : SetSampleRate(t, rate)
      PROVE  DropsInv'
  <2>1. UNCHANGED <<ctx, drop_vars, pc>>
      BY <1>3 DEF Block, Unblock, Preempt, SetSampleRate
  <2> QED BY <1>1, <2>1
<1>4. ASSUME NEW t \in Threads, NEW key \in Keys, NewObjSampled(t, key)
      PROVE  DropsInv'
  <2>1. UNCHANGED <<drop_vars, pc>>
      BY <1>4 DEF NewObjSampled
  <2>2. \A u \in Threads : ctx'[u].dropped = ctx[u].dropped
      BY <1>4, <1>c DEF NewObjSampled, Context
  <2> QED BY <2>1, <2>2, SameDrops DEF drop_vars
<1>5. ASSUME NEW t \in Threads, NEW key \in Keys, FreeObj(t, key)
      PROVE  DropsInv'
  <2>1. UNCHANGED <<drop_vars, pc>>
      BY <1>5 DEF FreeObj
  <2>2. \A u \in Threads : ctx'[u].dropped = ctx[u].dropped
      BY <1>5, <1>c, WithoutTable DEF FreeObj
  <2> QED BY <2>1, <2>2, SameDrops DEF drop_vars
<1>6. ASSUME NEW t \in Threads, NewObjDropped(t) \/ Start(t)
      PROVE  DropsInv'
  <2>1. ctx' = ctx /\ pc' = pc
      BY <1>6 DEF NewObjDropped, Start
  <2>2. Dropped' = Dropped
      BY <2>1 DEF Dropped
  <2>3. Total(Dropped) \in Nat
      BY <2>1, SumStep
  <2>4. dropped_samples_heap_bufsize \in Nat
      BY DEF Types
  <2>5. \/ /\ dropped_samples_heap_bufsize' = dropped_samples_heap_bufsize + 1
           /\ unreported' = unreported + 1
        \/ /\ dropped_samples_heap_bufsize' = 0
           /\ unreported' = unreported - dropped_samples_heap_bufsize
      BY <1>6 DEF NewObjDropped, Start
  <2>6. Total(Dropped)' = Total(Dropped)
      BY <2>2
  <2>7. unreported' =
            dropped_samples_heap_bufsize' + Total(Dropped)'
      BY <2>3, <2>4, <2>5, <2>6 DEF DropsInv
  <2> QED BY <2>1, <2>7 DEF DropsInv
<1>7. ASSUME NEW t \in Threads, FlushBegin(t)
      PROVE  DropsInv'
  <2>1. /\ pc[t] = "ruby" /\ pc'[t] = "walk"
        /\ ctx'[t].dropped = dropped_samples_heap_bufsize
        /\ dropped_samples_heap_bufsize' = 0 /\ unreported' = unreported
        /\ \A u \in Threads \ {t} : pc'[u] = pc[u] /\ ctx'[u] = ctx[u]
      BY <1>7 DEF FlushBegin, RunsRuby, DroppedLeft, Types
  <2>2. /\ Total(Dropped) \in Nat
        /\ Total(Dropped)' =
               Total(Dropped) - ctx[t].dropped
               + ctx'[t].dropped
      BY <2>1, SumStep
  <2>3. ctx[t].dropped = 0 /\ dropped_samples_heap_bufsize \in Nat
      BY <2>1 DEF DropsInv, Types
  <2>4. unreported' =
            dropped_samples_heap_bufsize' + Total(Dropped)'
      BY <2>1, <2>2, <2>3 DEF DropsInv
  <2> QED BY <2>1, <2>4 DEF DropsInv
<1>8. ASSUME NEW t \in Threads, FlushYield(t)
      PROVE  DropsInv'
  <2>1. PICK key \in Keys :
            ctx' = [ctx EXCEPT ![t] = [Without(@, key) EXCEPT !.at = key]]
      BY <1>8 DEF FlushYield
  <2>2. /\ UNCHANGED drop_vars
        /\ pc' = [pc EXCEPT ![t] = "visit"]
        /\ \A u \in Threads \ {t} : ctx'[u] = ctx[u]
        /\ ctx'[t] = [Without(ctx[t], key) EXCEPT !.at = key]
      BY <1>8, <2>1 DEF FlushYield, Types
  <2>3. ctx'[t].dropped = ctx[t].dropped
    <3> DEFINE c == Without(ctx[t], key)
    <3>1. c \in Context /\ c.dropped = ctx[t].dropped
        BY <1>c, WithoutTable
    <3>2. ctx'[t] = [c EXCEPT !.at = key]
        BY <2>2
    <3> HIDE DEF c
    <3> QED BY <3>1, <3>2 DEF Context
  <2>4. \A u \in Threads : /\ ctx'[u].dropped = ctx[u].dropped
                           /\ pc'[u] = "ruby" => pc[u] = "ruby"
      BY <2>2, <2>3 DEF Types
  <2> QED BY <2>2, <2>4, SameDrops DEF drop_vars
<1>9. ASSUME NEW t \in Threads, NEW key \in Keys, FlushVisit(t, key)
      PROVE  DropsInv'
  <2>1. /\ pc' = [pc EXCEPT ![t] = "walk"] /\ UNCHANGED drop_vars
        /\ \A u \in Threads : \/ u = t /\ ctx'[u] = Behind(t, key)
                              \/ ctx'[u] = ctx[u]
                              \/ ctx'[u] = Without(ctx[u], key)
      BY <1>9 DEF FlushVisit, Types
  <2>2. ASSUME NEW u \in Threads
        PROVE  ctx'[u].dropped = ctx[u].dropped
      BY <1>c, <2>1, WithoutTable, BehindTable
  <2>3. \A u \in Threads : pc'[u] = "ruby" => pc[u] = "ruby"
      BY <2>1 DEF Types
  <2> QED BY <2>1, <2>2, <2>3, SameDrops DEF drop_vars
<1>10. ASSUME NEW t \in Threads, FlushEndWalk(t) \/ FlushSerialized(t)
       PROVE  DropsInv'
  <2>1. /\ UNCHANGED <<ctx, drop_vars>>
        /\ \A u \in Threads : pc'[u] = "ruby" => pc[u] = "ruby"
      BY <1>10 DEF FlushEndWalk, FlushSerialized, Types
  <2> QED BY <1>1, <2>1
<1>11. ASSUME NEW t \in Threads, FlushReturn(t)
       PROVE  DropsInv'
  <2>1. /\ unreported' = unreported - ctx[t].dropped
        /\ dropped_samples_heap_bufsize' = dropped_samples_heap_bufsize
        /\ ctx'[t].dropped = 0
        /\ \A u \in Threads \ {t} : pc'[u] = pc[u] /\ ctx'[u] = ctx[u]
      BY <1>11 DEF FlushReturn, NoFlush, Types
  <2>2. /\ Total(Dropped) \in Nat
        /\ Total(Dropped)' =
               Total(Dropped) - ctx[t].dropped
               + ctx'[t].dropped
      BY <2>1, SumStep
  <2>3. ctx[t].dropped \in Nat /\ dropped_samples_heap_bufsize \in Nat
      BY <1>c DEF Types, Context
  <2>4. unreported' =
            dropped_samples_heap_bufsize' + Total(Dropped)'
      BY <2>1, <2>2, <2>3 DEF DropsInv
  <2> QED BY <2>1, <2>4 DEF DropsInv
<1> QED BY <1>2, <1>3, <1>4, <1>5, <1>6, <1>7, <1>8, <1>9, <1>10, <1>11
        DEF Next, FlusherStep

\* Every drop is counted once, however many flushes are in progress: FlushBegin
\* moves the count into the hands of the flush, with nothing left behind.
THEOREM DropsAreCounted == Spec => []DropsAddUp
<1>1. DropsInv => DropsAddUp
    BY DEF DropsInv, DropsAddUp, Dropped, Total
<1>2. Init => PoliteInv /\ DropsInv
    BY InvInit, DropsInit
<1>3. PoliteInv /\ DropsInv /\ [Next]_vars => PoliteInv' /\ DropsInv'
    BY InvStep, DropsStep
<1> QED BY <1>1, <1>2, <1>3, PTL DEF Spec

-----------------------------------------------------------------------------
(* The rate                                                                *)

RateInv == asked_rate \in Rates /\ u32_sample_rate = Scaled(asked_rate)

LEMMA Division ==
    ASSUME NEW n \in Nat, NEW q \in Nat \ {0}
    PROVE  /\ n \div q \in Nat
           /\ q * (n \div q) <= n
           /\ n < q * (n \div q) + q
OBVIOUS

LEMMA Remainder ==
    ASSUME NEW d \in Nat, NEW u \in Nat, d <= u
    PROVE  d % (u + 1) = d
OBVIOUS

LEMMA Times ==
    ASSUME NEW a \in Int, NEW b \in Int, NEW c \in Int
    PROVE  /\ a * b \in Int /\ a * b = b * a
           /\ a * (b + 1) = a * b + a
           /\ (b + 1) * a = a * b + a
           /\ a * (b - c) = a * b - a * c
OBVIOUS

LEMMA TimesLess ==
    ASSUME NEW a \in Int, NEW b \in Int, NEW c \in Nat
    PROVE  /\ a <= b => c * a <= c * b
           /\ c # 0 /\ a < b => c * a < c * b
OBVIOUS

\* The conversion keeps to the range, so that it never wraps, and is less than
\* one in 2^32 below the rate.
LEMMA ScaledBounds ==
    ASSUME NEW rate \in Rates
    PROVE  /\ rate[1] \in Nat /\ rate[2] \in Nat \ {0} /\ rate[1] <= rate[2]
           /\ Scaled(rate) \in 0 .. UInt32Max
           /\ rate[2] * Scaled(rate) <= UInt32Max * rate[1]
           /\ UInt32Max * rate[1] < rate[2] * Scaled(rate) + rate[2]
<1> DEFINE p == rate[1]
           q == rate[2]
           u == UInt32Max
           d == (u * p) \div q
<1>1. p \in Nat /\ q \in Nat \ {0} /\ p <= q /\ u \in Nat
    BY Sizes DEF Sizes
<1>2. u * p \in Nat /\ u * p <= u * q /\ q * u = u * q
  <2> HIDE DEF p, q, u
  <2>1. u * p <= u * q /\ u * p \in Int /\ q * u = u * q
      BY <1>1, Times, TimesLess
  <2>2. u * 0 <= u * p /\ u * 0 = 0
      BY <1>1, TimesLess
  <2> QED BY <2>1, <2>2
<1>3. Scaled(rate) = d % (u + 1)
    BY DEF Scaled
<1> HIDE DEF p, q, u
<1>4. d \in Nat /\ q * d <= u * p /\ u * p < q * d + q
    BY <1>1, <1>2, Division
<1> HIDE DEF d
<1>5. d <= u
  <2> SUFFICES ASSUME u < d
               PROVE  FALSE
      BY <1>1, <1>4
  <2>1. q * u < q * d
      BY <1>1, <1>4, TimesLess
  <2>2. q * d \in Int /\ q * u \in Int /\ u * q \in Int
      BY <1>1, <1>4, Times
  <2> QED BY <1>2, <1>4, <2>1, <2>2
<1>6. Scaled(rate) = d
    BY <1>1, <1>3, <1>4, <1>5, Remainder
<1> QED BY <1>1, <1>4, <1>5, <1>6 DEF p, q, u

LEMMA RateInit == Init => RateInv
BY DEF Init, RateInv

LEMMA RateStep == RateInv /\ [Next]_vars => RateInv'
<1>1. ASSUME RateInv, UNCHANGED rate_vars
      PROVE  RateInv'
    BY <1>1 DEF RateInv, rate_vars, Scaled
<1>2. ASSUME RateInv, NEW t \in Threads, NEW rate \in Rates,
             SetSampleRate(t, rate)
      PROVE  RateInv'
    BY <1>2 DEF RateInv, SetSampleRate, Scaled
<1> QED BY <1>1, <1>2
        DEF Next, FlusherStep, vars, Block, Unblock, Preempt, NewObjSampled,
            FreeObj, NewObjDropped, Start, FlushBegin, FlushYield, FlushVisit,
            FlushEndWalk, FlushSerialized, FlushReturn

\* Of the values that mpp_rand may draw, as many are sampled as the rate says.
LEMMA RateHolds == RateInv => RateIsKept
<1> SUFFICES ASSUME RateInv
             PROVE  RateIsKept
    OBVIOUS
<1> DEFINE p == asked_rate[1]
           q == asked_rate[2]
           u == UInt32Max
           d == u32_sample_rate
<1>1. /\ p \in Nat /\ q \in Nat \ {0} /\ p <= q /\ u \in Nat
      /\ d \in 0 .. u
      /\ q * d <= u * p /\ u * p < q * d + q
    BY ScaledBounds, Sizes DEF RateInv, Sizes
<1>2. Cardinality(Sampled) = d + 1
  <2>1. Sampled = 0 .. d
      BY <1>1 DEF Sampled, Rands
  <2> HIDE DEF d
  <2>2. Cardinality(0 .. d) = d - 0 + 1
      BY <1>1, FS_Interval
  <2> QED BY <1>1, <2>1, <2>2
<1> DEFINE part == (d + 1) * q
           wanted == p * (u + 1)
           drift == p * u - q * d
<1>3. SUFFICES /\ part - wanted \in -q .. q
               /\ p = q => part = wanted
               /\ drift \in 0 .. q - 1
    BY <1>2 DEF RateIsKept, SampleRate
<1> HIDE DEF p, q, u, d
<1>4. /\ part = q * d + q /\ wanted = p * u + p
      /\ q * d \in Int /\ p * u \in Int /\ p * u = u * p
    BY <1>1, Times
<1>5. drift \in 0 .. q - 1
    BY <1>1, <1>4
<1>6. part - wanted = q - p - drift
    BY <1>1, <1>4
<1>7. p = q => part = wanted
  <2> SUFFICES ASSUME p = q
               PROVE  part = wanted
      OBVIOUS
  <2>1. q * (u - d) = q * u - q * d /\ u - d \in Nat
      BY <1>1, Times
  <2>2. u - d = 0
    <3> SUFFICES ASSUME 1 <= u - d
                 PROVE  FALSE
        BY <2>1
    <3>1. q * 1 <= q * (u - d)
        BY <1>1, <2>1, TimesLess
    <3>2. q * 1 = q
        BY <1>1
    <3> QED BY <1>1, <1>5, <2>1, <3>1, <3>2
  <2>3. u = d
      BY <1>1, <2>2
  <2> QED BY <1>1, <2>3, Times
<1> HIDE DEF part, wanted, drift
<1> QED BY <1>1, <1>5, <1>6, <1>7

\* sample_rate= and sample_rate keep the rate, up to the precision of the 32
\* bits, and the hook samples by it: for every UINT32_MAX and every fraction.
THEOREM SampleRateIsKept == Spec => []RateIsKept
BY RateInit, RateStep, RateHolds, PTL DEF Spec

-----------------------------------------------------------------------------
(* The types                                                               *)

LEMMA TotalType ==
    ASSUME Types
    PROVE  Total(Dropped) \in Nat
<1>1. Dropped \in [Threads -> Nat]
    BY DEF Types, Dropped, Context
<1>2. CASE Threads = {}
  <2>1. Dropped = [u \in Threads |-> 0]
      BY <1>2 DEF Dropped
  <2>2. Total(Dropped) = 0
      BY <2>1, SumOfZeros, FinitelyMany
  <2> QED BY <2>2
<1>3. ASSUME NEW t \in Threads
      PROVE  Total(Dropped) \in Nat
    BY <1>1, SumChange, FinitelyMany
<1> QED BY <1>2, <1>3

FlushInv == PoliteInv /\ QueueInv /\ TableInv /\ DropsInv /\ RateInv

LEMMA FlushInvHolds == Spec => []FlushInv
<1>1. Init => FlushInv
    BY InvInit, QueueInit, TableInit, DropsInit, RateInit DEF FlushInv
<1>2. FlushInv /\ [Next]_vars => FlushInv'
    BY InvStep, QueueStep, TableStep, DropsStep, RateStep DEF FlushInv
<1> QED BY <1>1, <1>2, PTL DEF Spec

\* A walk is suspended in the queue of the GVL only, and with its keys in the
\* table; nobody is in the queue twice, or in it with the GVL.
THEOREM TypesAreKept == Spec => []TypeOK
<1>1. FlushInv => TypeOK
  <2> SUFFICES ASSUME FlushInv
               PROVE  TypeOK
      OBVIOUS
  <2> USE DEF FlushInv
  <2>1. /\ gvl \in Threads \union {NoThread} /\ waitq \in Seq(Threads)
        /\ IsInjective(waitq) /\ gvl \notin Waiting
        /\ (gvl = NoThread => waitq = <<>>)
      BY DEF QueueInv, Queue
  <2>2. /\ pc \in [Threads -> {"ruby", "walk", "visit", "serialize", "finish"}]
        /\ ctx \in [Threads -> Context] /\ heap_samples \subseteq Keys
        /\ dropped_samples_heap_bufsize \in Nat /\ pause \in Nat
      BY DEF PoliteInv, Types, PC
  <2>3. unreported \in Nat
    <3>1. Total(Dropped) \in Nat
        BY TotalType DEF PoliteInv
    <3> QED BY <2>2, <3>1 DEF DropsInv
  <2>4. asked_rate \in Rates /\ u32_sample_rate \in 0 .. UInt32Max
      BY ScaledBounds DEF RateInv
  <2>5. ASSUME NEW t \in Threads
        PROVE  /\ Walking(t) => ~Away(t)
               /\ pc[t] = "visit" <=> ctx[t].at # NoKey
               /\ pc[t] = "serialize" /\ ~ctx[t].yield_gvl => gvl = t
               /\ ctx[t].old \union ctx[t].new \subseteq heap_samples
      BY DEF QueueInv, Place, TableInv, Table
  <2> QED BY <2>1, <2>2, <2>3, <2>4, <2>5 DEF TypeOK
<1> QED BY <1>1, FlushInvHolds, PTL

=============================================================================
