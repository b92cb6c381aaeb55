-------------------------- MODULE GcSectionProofs --------------------------
(***************************************************************************)
(* The sections without GC, for every heap and every table of pages.  The  *)
(* argument has three parts: how the sections nest (NestInv), what that    *)
(* says of the GC's flag, and what follows for an object while its section *)
(* is open.                                                                *)
(***************************************************************************)
EXTENDS GcSection, HeapProbeProofs, SequenceTheorems

Section == [by : {"newobj", "freeobj", "flush"}, a : Addresses, was : BOOLEAN]

\* Only the newobj hook nests, and only in the flush that adds a sample.
NestInv ==
    /\ sections \in Seq(Section)
    /\ Len(sections) \in {0, 1, 2}
    /\ visit.at # "idle" <=> Len(sections) # 0 /\ sections[1].by = "flush"
    /\ Len(sections) = 2 =>
          /\ sections[1].by = "flush" /\ sections[2].by = "newobj"
          /\ visit.at = "add"
    /\ probe.state # "idle" <=> visit.at = "probe"
    /\ visit.at = "probe" => probe.p = visit.a

\* A section keeps what the flag was before the outermost of them, or TRUE.
FlagInv ==
    /\ GcFlagRestored
    /\ Len(sections) # 0 => sections[1].was = app_disabled
    /\ Len(sections) = 2 => sections[2].was = TRUE

\* The objects that an open section is about are there.
ObjectInv ==
    /\ SectionKeepsObject
    /\ NoMissedFree
    /\ visit.at # "idle" => visit.a \in tracked
    /\ \A i \in 1 .. Len(sections) :
          sections[i].by = "newobj" => heap[sections[i].a] # "free"

Inv == TypeOK /\ IInv /\ NestInv /\ FlagInv /\ ObjectInv

-----------------------------------------------------------------------------
(* Sections as sequences                                                   *)

LEMMA OpenFacts ==
    ASSUME sections \in Seq(Section), dont_gc \in BOOLEAN,
           NEW by \in {"newobj", "freeobj", "flush"}, NEW a \in Addresses,
           Open(by, a)
    PROVE  /\ sections' \in Seq(Section)
           /\ Len(sections') = Len(sections) + 1
           /\ \A i \in 1 .. Len(sections) : sections'[i] = sections[i]
           /\ LET opened == sections'[Len(sections) + 1]
              IN  opened.by = by /\ opened.a = a /\ opened.was = dont_gc
           /\ sections' # <<>>
           /\ dont_gc' = TRUE /\ app_disabled' = app_disabled
<1>1. [by |-> by, a |-> a, was |-> dont_gc] \in Section
    BY DEF Section
<1> DEFINE e == [by |-> by, a |-> a, was |-> dont_gc]
           s == Append(sections, e)
<1>0. e \in Section
    BY <1>1
<1> HIDE DEF e
<1>2. /\ s \in Seq(Section) /\ s # <<>> /\ Len(s) = Len(sections) + 1
      /\ \A i \in 1 .. Len(sections) : s[i] = sections[i]
      /\ s[Len(sections) + 1] = e
    BY <1>0, AppendProperties
<1>3. sections' = s /\ dont_gc' = TRUE /\ app_disabled' = app_disabled
    BY DEF Open, GcDisable, e
<1>4. e.by = by /\ e.a = a /\ e.was = dont_gc
    BY DEF e
<1> QED BY <1>2, <1>3, <1>4, Zenon

LEMMA CloseFacts ==
    ASSUME sections \in Seq(Section), sections # <<>>, Close
    PROVE  /\ sections' \in Seq(Section)
           /\ Len(sections') = Len(sections) - 1
           /\ \A i \in 1 .. Len(sections) - 1 : sections'[i] = sections[i]
           /\ dont_gc' = sections[Len(sections)].was
           /\ app_disabled' = app_disabled
<1> DEFINE n == Len(sections) - 1
<1>1. Len(sections) \in Nat \ {0}
    BY EmptySeq
<1>2. sections' = SubSeq(sections, 1, n)
    BY DEF Close
<1>3. \A i \in 1 .. n : sections[i] \in Section
    BY <1>1, ElementOfSeq
<1>4. n \in Nat /\ n - 1 + 1 = n /\ (1 <= n \/ n = 0)
  <2>1. \A l \in Nat \ {0} : l - 1 \in Nat /\ l - 1 - 1 + 1 = l - 1
                             /\ (1 <= l - 1 \/ l - 1 = 0)
      OBVIOUS
  <2> QED BY <1>1, <2>1, Zenon
<1> HIDE DEF n
<1>5. /\ SubSeq(sections, 1, n) \in Seq(Section)
      /\ Len(SubSeq(sections, 1, n)) = IF 1 <= n THEN n - 1 + 1 ELSE 0
      /\ \A i \in 1 .. n - 1 + 1 : SubSeq(sections, 1, n)[i] = sections[1 + i - 1]
    BY <1>3, <1>4, SubSeqProperties
<1>6. \A i \in 1 .. n : 1 + i - 1 = i
    BY <1>4
<1>7. dont_gc' = sections[Len(sections)].was /\ app_disabled' = app_disabled
    BY DEF Close, Restored, Innermost
<1> QED BY <1>2, <1>4, <1>5, <1>6, <1>7 DEF n

\* What the nesting says about who is running.
LEMMA NestFacts ==
    ASSUME TypeOK, NestInv
    PROVE  /\ Outside <=> Len(sections) = 0
           /\ Within("freeobj") => Len(sections) = 1 /\ visit.at = "idle"
                                   /\ sections[1].by = "freeobj"
           /\ Within("newobj") =>
                 \/ Len(sections) = 1 /\ visit.at = "idle"
                    /\ sections[1].by = "newobj"
                 \/ Len(sections) = 2 /\ visit.at = "add"
           /\ Within("flush") => Len(sections) = 1 /\ sections[1].by = "flush"
           /\ visit.at = "probe" => Len(sections) = 1 /\ Within("flush")
           /\ Outside => visit.at = "idle" /\ probe.state = "idle"
           /\ ~Outside => Innermost \in Section
<1>1. sections # <<>> => Len(sections) \in Nat \ {0}
    BY EmptySeq DEF NestInv
<1>2. Outside <=> Len(sections) = 0
    BY <1>1, EmptySeq DEF Outside
<1>3. Len(sections) = 1 => Innermost = sections[1]
    BY DEF Innermost
<1>4. Len(sections) = 2 => Innermost = sections[2]
    BY DEF Innermost
<1>5. ~Outside => Innermost \in Section
    BY <1>1, ElementOfSeq DEF Innermost, Outside, NestInv
<1>6. visit.at \in {"idle", "probe", "add"}
    BY DEF TypeOK
<1> QED BY <1>2, <1>3, <1>4, <1>5, <1>6 DEF NestInv, Within, Outside

\* No garbage is collected in a section.
LEMMA NoGcInside ==
    ASSUME TypeOK, FlagInv
    PROVE  GcMayRun => Outside
BY DEF FlagInv, GcFlagRestored, TypeOK, GcMayRun, GvlFree, Outside,
       Allocating, Within

-----------------------------------------------------------------------------
(* Every step is one of HeapProbe, or leaves its variables alone           *)

LEMMA ProbeSimulation ==
    ASSUME TypeOK, NestInv, FlagInv, [Next]_vars
    PROVE  [ProbeNext]_probe_vars
<1>1. CASE UNCHANGED probe_vars
    BY <1>1
<1>2. ASSUME NEW a \in Addresses, VisitSample(a)
      PROVE  ProbeNext
    BY <1>2 DEF VisitSample, ProbeNext
<1>3. CASE Search
    BY <1>3 DEF Search, ProbeNext
<1>4. CASE DiscardSample \/ KeepSample
    BY <1>4 DEF DiscardSample, KeepSample, ProbeNext
<1>5. CASE SweepPages
  <2>1. Outside
      BY <1>5, NoGcInside DEF SweepPages
  <2>2. probe.state = "idle"
      BY <2>1, NestFacts
  <2>3. VmStep /\ UNCHANGED probe
      BY <1>5 DEF SweepPages, VmStep
  <2> QED BY <2>2, <2>3 DEF ProbeNext, Searching
<1>6. CASE GrowHeap
  <2>1. probe.state = "idle"
    <3>1. CASE Outside
        BY <3>1, NestFacts
    <3>2. CASE visit.at = "add"
        BY <3>2 DEF NestInv
    <3> QED BY <1>6, <3>1, <3>2 DEF GrowHeap, ObjectsMayBeAllocated, GvlFree,
                                    Outside
  <2>2. VmStep /\ UNCHANGED probe
      BY <1>6 DEF GrowHeap, VmStep
  <2> QED BY <2>1, <2>2 DEF ProbeNext, Searching
<1> QED BY <1>1, <1>2, <1>3, <1>4, <1>5, <1>6
        DEF Next, SectionStep, vars, SwitchGc, SwitchTracing, Free, NewObj,
            FreeObjHook, NewObjHook, SampleAdded

-----------------------------------------------------------------------------
(* The flag and the nesting                                                *)

LEMMA OpenKeepsFlag ==
    ASSUME TypeOK, NestInv, FlagInv, Len(sections) # 2,
           NEW by \in {"newobj", "freeobj", "flush"}, NEW a \in Addresses,
           Open(by, a)
    PROVE  FlagInv'
<1>1. sections \in Seq(Section) /\ dont_gc \in BOOLEAN
    BY DEF NestInv, TypeOK
<1>2. /\ Len(sections') = Len(sections) + 1
      /\ \A i \in 1 .. Len(sections) : sections'[i] = sections[i]
      /\ sections'[Len(sections) + 1].was = dont_gc
      /\ sections' # <<>>
      /\ dont_gc' = TRUE /\ app_disabled' = app_disabled
    BY <1>1, OpenFacts
<1>3. GcFlagRestored'
    BY <1>2 DEF GcFlagRestored
<1>4. CASE Len(sections) = 0
  <2>1. sections = <<>>
      BY <1>4, NestFacts DEF Outside
  <2>2. dont_gc = app_disabled
      BY <2>1 DEF FlagInv, GcFlagRestored, TypeOK
  <2>3. Len(sections') = 1 /\ sections'[1].was = dont_gc
      BY <1>2, <1>4
  <2>4. app_disabled' = app_disabled
      BY <1>2
  <2>5. sections'[1].was = app_disabled'
      BY <2>2, <2>3, <2>4, Zenon
  <2> QED BY <1>3, <2>3, <2>5 DEF FlagInv
<1>5. CASE Len(sections) = 1
  <2>1. sections # <<>>
      BY <1>5, NestFacts DEF Outside
  <2>2. dont_gc = TRUE
      BY <2>1 DEF FlagInv, GcFlagRestored, TypeOK
  <2>3. /\ Len(sections') = 2 /\ sections'[2].was = dont_gc
        /\ sections'[1] = sections[1]
      BY <1>2, <1>5
  <2>4. sections[1].was = app_disabled
      BY <1>5 DEF FlagInv
  <2> QED BY <1>2, <1>3, <2>2, <2>3, <2>4 DEF FlagInv
<1> QED BY <1>4, <1>5 DEF NestInv

LEMMA CloseKeepsFlag ==
    ASSUME TypeOK, NestInv, FlagInv, sections # <<>>, Close
    PROVE  FlagInv'
<1>1. /\ sections' \in Seq(Section)
      /\ Len(sections') = Len(sections) - 1
      /\ \A i \in 1 .. Len(sections) - 1 : sections'[i] = sections[i]
      /\ dont_gc' = sections[Len(sections)].was
      /\ app_disabled' = app_disabled
    BY CloseFacts DEF NestInv
<1>2. CASE Len(sections) = 1
  <2>1. Len(sections') = 0
      BY <1>1, <1>2
  <2>2. sections' = <<>>
      BY <1>1, <2>1, EmptySeq
  <2>3. dont_gc' = app_disabled /\ app_disabled \in BOOLEAN
      BY <1>1, <1>2 DEF FlagInv, TypeOK
  <2>4. dont_gc' = app_disabled' /\ app_disabled' \in BOOLEAN
      BY <1>1, <2>3
  <2>5. GcFlagRestored'
      BY <2>2, <2>4 DEF GcFlagRestored
  <2> QED BY <2>1, <2>5 DEF FlagInv
<1>3. CASE Len(sections) = 2
  <2>1. Len(sections') = 1 /\ sections'[1] = sections[1]
      BY <1>1, <1>3
  <2>2. sections' # <<>>
      BY <2>1, EmptySeq
  <2>3. dont_gc' = TRUE /\ sections[1].was = app_disabled
      BY <1>1, <1>3 DEF FlagInv
  <2>4. GcFlagRestored'
      BY <2>2, <2>3 DEF GcFlagRestored
  <2>5. app_disabled' = app_disabled
      BY <1>1
  <2>6. sections'[1].was = app_disabled'
      BY <2>1, <2>3, <2>5, Zenon
  <2> QED BY <2>1, <2>4, <2>6 DEF FlagInv
<1> QED BY <1>2, <1>3, NestFacts DEF NestInv, Outside

\* A hook opens its section outside of all, or where a sample is added.
LEMMA HookOpens ==
    ASSUME TypeOK, NestInv, FlagInv,
           NEW by \in {"newobj", "freeobj"}, NEW a \in Addresses, Open(by, a),
           Outside \/ (by = "newobj" /\ Within("flush") /\ visit.at = "add"),
           UNCHANGED <<probe, visit>>
    PROVE  NestInv' /\ FlagInv'
<1>1. Len(sections) \in {0, 1} /\ (Outside <=> Len(sections) = 0)
      /\ (Within("flush") => sections[1].by = "flush")
      /\ (Outside => visit.at = "idle")
    BY NestFacts
<1>2. /\ sections' \in Seq(Section)
      /\ Len(sections') = Len(sections) + 1
      /\ \A i \in 1 .. Len(sections) : sections'[i] = sections[i]
      /\ sections'[Len(sections) + 1].by = by
    BY OpenFacts DEF NestInv, TypeOK
<1>3. FlagInv'
    BY <1>1, OpenKeepsFlag
<1>4. CASE Len(sections) = 0
  <2>1. Len(sections') = 1 /\ sections'[1].by = by
      BY <1>2, <1>4
  <2> QED BY <1>1, <1>2, <1>3, <1>4, <2>1 DEF NestInv
<1>5. CASE Len(sections) = 1
  <2>1. /\ Len(sections') = 2 /\ sections'[1] = sections[1]
        /\ sections'[2].by = by
      BY <1>2, <1>5
  <2> QED BY <1>1, <1>2, <1>3, <1>5, <2>1 DEF NestInv
<1> QED BY <1>1, <1>4, <1>5

\* A section that is not the flush's is closed, and the visit goes on.
LEMMA HookCloses ==
    ASSUME TypeOK, NestInv, FlagInv, Close,
           Within("newobj") \/ Within("freeobj"), UNCHANGED <<probe, visit>>
    PROVE  /\ NestInv' /\ FlagInv'
           /\ sections' = <<>> \/ (Len(sections') = 1 /\ sections'[1].by = "flush")
<1>1. sections # <<>>
    BY DEF Within
<1>2. FlagInv'
    BY <1>1, CloseKeepsFlag
<1>3. /\ sections' \in Seq(Section)
      /\ Len(sections') = Len(sections) - 1
      /\ \A i \in 1 .. Len(sections) - 1 : sections'[i] = sections[i]
    BY <1>1, CloseFacts DEF NestInv
<1>4. \/ Len(sections) = 1 /\ visit.at = "idle"
      \/ Len(sections) = 2 /\ visit.at = "add"
    BY NestFacts
<1>5. CASE Len(sections) = 1 /\ visit.at = "idle"
  <2>1. Len(sections') = 0
      BY <1>3, <1>5
  <2>2. sections' = <<>>
      BY <1>3, <2>1, EmptySeq
  <2> QED BY <1>2, <1>3, <1>5, <2>1, <2>2 DEF NestInv
<1>6. CASE Len(sections) = 2 /\ visit.at = "add"
  <2>1. Len(sections') = 1 /\ sections'[1] = sections[1]
      BY <1>3, <1>6
  <2>2. sections[1].by = "flush"
      BY <1>6 DEF NestInv
  <2> QED BY <1>2, <1>3, <1>6, <2>1, <2>2 DEF NestInv
<1> QED BY <1>4, <1>5, <1>6

\* The flush's section is closed.
LEMMA VisitCloses ==
    ASSUME TypeOK, NestInv, FlagInv, Close, Within("flush"),
           visit' = NoVisit, probe'.state = "idle"
    PROVE  NestInv' /\ FlagInv' /\ sections' = <<>>
<1>1. sections # <<>> /\ Len(sections) = 1
    BY NestFacts DEF Within
<1>2. FlagInv'
    BY <1>1, CloseKeepsFlag
<1>3. sections' \in Seq(Section) /\ Len(sections') = Len(sections) - 1
    BY <1>1, CloseFacts DEF NestInv
<1>4. Len(sections') = 0
    BY <1>1, <1>3
<1>5. sections' = <<>>
    BY <1>3, <1>4, EmptySeq
<1>6. visit'.at = "idle"
    BY DEF NoVisit
<1> QED BY <1>2, <1>3, <1>4, <1>5, <1>6 DEF NestInv

\* The search keeps the address that was asked about.
LEMMA SearchKeepsAddress ==
    ASSUME ProbeTypeOK, SearchStep
    PROVE  probe'.p = probe.p /\ probe'.state # "idle"
BY DEF ProbeTypeOK, SearchStep, FoundPage, GoUp, GoDown, NotFound, Answer,
       Searching

LEMMA NestStep ==
    ASSUME TypeOK, NestInv, FlagInv, [Next]_vars
    PROVE  NestInv' /\ FlagInv'
<1>1. CASE UNCHANGED <<gc_vars, visit, probe>>
    BY <1>1 DEF NestInv, FlagInv, GcFlagRestored, gc_vars
<1>2. CASE SwitchGc
  <2>1. sections = <<>> /\ dont_gc' = app_disabled' /\ app_disabled' \in BOOLEAN
        /\ UNCHANGED <<probe, sections, visit>>
      BY <1>2 DEF SwitchGc, GvlFree, Outside, probe_vars
  <2>2. Len(sections) = 0
      BY <2>1, EmptySeq
  <2> QED BY <2>1, <2>2 DEF NestInv, FlagInv, GcFlagRestored
<1>3. ASSUME NEW a \in Addresses, Free(a)
      PROVE  NestInv' /\ FlagInv'
  <2>1. Outside /\ UNCHANGED <<probe, visit>>
      BY <1>3, NoGcInside DEF Free, probe_vars
  <2>2. CASE Open("freeobj", a)
      BY <2>1, <2>2, HookOpens
  <2> QED BY <1>1, <1>3, <2>1, <2>2 DEF Free
<1>4. ASSUME NEW a \in Addresses, NewObj(a)
      PROVE  NestInv' /\ FlagInv'
  <2>1. UNCHANGED <<probe, visit>>
      BY <1>4 DEF NewObj, probe_vars
  <2>2. Outside \/ (Within("flush") /\ visit.at = "add")
      BY <1>4 DEF NewObj, ObjectsMayBeAllocated, GvlFree, Outside
  <2>3. CASE Open("newobj", a)
      BY <2>1, <2>2, <2>3, HookOpens
  <2> QED BY <1>1, <1>4, <2>1, <2>3 DEF NewObj
<1>5. ASSUME NEW a \in Addresses, VisitSample(a)
      PROVE  NestInv' /\ FlagInv'
  <2>1. Outside /\ Open("flush", a) /\ visit' = [at |-> "probe", a |-> a]
        /\ probe'.p = a /\ probe'.state # "idle"
      BY <1>5 DEF VisitSample, Ask
  <2>2. Len(sections) = 0
      BY <2>1, NestFacts
  <2>3. /\ sections' \in Seq(Section)
        /\ Len(sections') = Len(sections) + 1
        /\ sections'[Len(sections) + 1].by = "flush"
      BY <2>1, OpenFacts DEF NestInv, TypeOK
  <2>4. Len(sections') = 1 /\ sections'[1].by = "flush"
      BY <2>2, <2>3
  <2>5. FlagInv'
      BY <2>1, <2>2, OpenKeepsFlag
  <2> QED BY <2>1, <2>3, <2>4, <2>5 DEF NestInv
<1>6. CASE FreeObjHook \/ NewObjHook
    BY <1>6, HookCloses DEF FreeObjHook, NewObjHook, probe_vars
<1>7. CASE Search
  <2>1. probe'.p = probe.p /\ probe'.state # "idle" /\ visit.at = "probe"
        /\ UNCHANGED <<gc_vars, visit>>
      BY <1>7, SearchKeepsAddress DEF Search, TypeOK
  <2> QED BY <2>1 DEF NestInv, FlagInv, GcFlagRestored, gc_vars
<1>8. CASE DiscardSample
  <2>1. Within("flush")
      BY <1>8, NestFacts DEF DiscardSample
  <2> QED BY <1>8, <2>1, VisitCloses DEF DiscardSample, Forget, Idle
<1>9. CASE KeepSample
  <2>1. visit.at = "probe" /\ probe'.state = "idle" /\ UNCHANGED gc_vars
        /\ visit' = [visit EXCEPT !.at = "add"]
      BY <1>9 DEF KeepSample, Forget, Idle
  <2>2. visit'.at = "add"
      BY <2>1 DEF TypeOK
  <2>3. Len(sections) = 1
      BY <2>1, NestFacts
  <2> QED BY <2>1, <2>2, <2>3 DEF NestInv, FlagInv, GcFlagRestored, gc_vars
<1>10. CASE SampleAdded
  <2>1. probe.state = "idle" /\ UNCHANGED probe
      BY <1>10 DEF SampleAdded, NestInv, probe_vars
  <2> QED BY <1>10, <2>1, VisitCloses DEF SampleAdded
<1> QED BY <1>1, <1>2, <1>3, <1>4, <1>5, <1>6, <1>7, <1>8, <1>9, <1>10
        DEF Next, SectionStep, SwitchTracing, SweepPages, GrowHeap, vars,
            probe_vars, gc_vars

-----------------------------------------------------------------------------
(* The objects                                                             *)

LEMMA TypeStep ==
    ASSUME TypeOK, NestInv, [Next]_vars, ProbeTypeOK'
    PROVE  TypeOK'
<1> DEFINE Typed ==
      /\ heap \in [Addresses -> {"free", "object", "node"}]
      /\ tracked \subseteq Addresses
      /\ {tracing, dont_gc, app_disabled} \subseteq BOOLEAN
      /\ visit \in [at : {"idle", "probe", "add"}, a : Nat]
<1>1. Typed'
  <2>t. /\ heap \in [Addresses -> {"free", "object", "node"}]
        /\ tracked \subseteq Addresses
        /\ tracing \in BOOLEAN /\ dont_gc \in BOOLEAN /\ app_disabled \in BOOLEAN
        /\ visit \in [at : {"idle", "probe", "add"}, a : Nat]
        /\ Addresses \subseteq Nat
      BY Sizes DEF TypeOK
  <2>1. ~Outside => Innermost \in Section
      BY NestFacts
  <2>2. ASSUME Close, ~Outside
        PROVE  dont_gc' \in BOOLEAN /\ app_disabled' \in BOOLEAN
      BY <2>t, <2>1, <2>2 DEF Close, Restored, Section
  <2>3. ASSUME NEW by, NEW a, Open(by, a)
        PROVE  dont_gc' \in BOOLEAN /\ app_disabled' \in BOOLEAN
      BY <2>t, <2>3 DEF Open, GcDisable
  <2>4. CASE UNCHANGED <<heap, table_vars, gc_vars, visit>>
      BY <2>t, <2>4 DEF table_vars, gc_vars
  <2>5. CASE SwitchGc
      BY <2>t, <2>5 DEF SwitchGc, table_vars
  <2>6. CASE SwitchTracing
      BY <2>t, <2>6 DEF SwitchTracing, gc_vars
  <2>7. ASSUME NEW a \in Addresses, Free(a) PROVE Typed'
    <3>1. dont_gc' \in BOOLEAN /\ app_disabled' \in BOOLEAN
        BY <2>t, <2>3, <2>7 DEF Free, gc_vars
    <3> QED BY <2>t, <2>7, <3>1 DEF Free, table_vars
  <2>8. ASSUME NEW a \in Addresses, NewObj(a) PROVE Typed'
    <3>1. dont_gc' \in BOOLEAN /\ app_disabled' \in BOOLEAN
        BY <2>t, <2>3, <2>8 DEF NewObj, gc_vars
    <3> QED BY <2>t, <2>8, <3>1 DEF NewObj, table_vars
  <2>9. ASSUME NEW a \in Addresses, VisitSample(a) PROVE Typed'
    <3>1. dont_gc' \in BOOLEAN /\ app_disabled' \in BOOLEAN
        BY <2>3, <2>9 DEF VisitSample
    <3> QED BY <2>t, <2>9, <3>1 DEF VisitSample, table_vars
  <2>10. CASE FreeObjHook \/ NewObjHook
    <3>1. ~Outside
        BY <2>10 DEF FreeObjHook, NewObjHook, Within, Outside
    <3>2. Innermost.a \in Addresses
        BY <2>1, <3>1 DEF Section
    <3>3. dont_gc' \in BOOLEAN /\ app_disabled' \in BOOLEAN
        BY <2>2, <2>10, <3>1 DEF FreeObjHook, NewObjHook
    <3> QED BY <2>t, <2>10, <3>2, <3>3 DEF FreeObjHook, NewObjHook
  <2>11. CASE DiscardSample
    <3>1. ~Outside
        BY <2>11, NestFacts DEF DiscardSample
    <3>2. dont_gc' \in BOOLEAN /\ app_disabled' \in BOOLEAN
        BY <2>2, <2>11, <3>1 DEF DiscardSample
    <3> QED BY <2>t, <2>11, <3>2 DEF DiscardSample, NoVisit
  <2>12. CASE KeepSample
      BY <2>t, <2>12 DEF KeepSample, table_vars, gc_vars
  <2>13. CASE SampleAdded
    <3>1. ~Outside
        BY <2>13 DEF SampleAdded, Within, Outside
    <3>2. dont_gc' \in BOOLEAN /\ app_disabled' \in BOOLEAN
        BY <2>2, <2>13, <3>1 DEF SampleAdded
    <3> QED BY <2>t, <2>13, <3>2 DEF SampleAdded, table_vars, NoVisit
  <2> QED BY <2>4, <2>5, <2>6, <2>7, <2>8, <2>9, <2>10, <2>11, <2>12, <2>13
          DEF Next, SectionStep, SweepPages, GrowHeap, Search, vars
<1> QED BY <1>1 DEF TypeOK

\* A slot stays one while the VM only adds pages.
LEMMA SlotStays ==
    ASSUME TypeOK, GrowHeap, NEW a \in Nat, IsSlot(a)
    PROVE  IsSlot(a)'
<1>1. PICK k \in 0 .. allocated_pages - 1 :
        a \in SlotsOf(sorted[k]) /\ sorted[k] \notin tomb
    BY DEF IsSlot, Pages
<1>2. allocated_pages \in Nat
    BY DEF TypeOK, ProbeTypeOK
<1>3. ASSUME NEW page \in Layouts, AllocatePage(page)
      PROVE  IsSlot(a)'
  <2>1. PICK i \in 0 .. allocated_pages : sorted' = InsertedAt(i, page)
      BY <1>3 DEF AllocatePage
  <2>2. allocated_pages' = allocated_pages + 1 /\ tomb' = tomb
      BY <1>3 DEF AllocatePage
  <2>3. PICK l \in 0 .. allocated_pages : sorted'[l] = sorted[k]
    <3>1. CASE k < i
      <4>1. k \in 0 .. allocated_pages
          BY <1>2
      <4> QED BY <2>1, <3>1, <4>1 DEF InsertedAt
    <3>2. CASE i <= k
      <4>1. k + 1 \in 0 .. allocated_pages /\ ~(k + 1 < i) /\ k + 1 # i
            /\ k + 1 - 1 = k
          BY <1>2, <3>2
      <4> QED BY <2>1, <4>1 DEF InsertedAt
    <3> QED BY <1>2, <3>1, <3>2
  <2>4. allocated_pages' - 1 = allocated_pages
      BY <1>2, <2>2
  <2>5. sorted[k] \in Pages'
      BY <2>3, <2>4 DEF Pages
  <2> QED BY <1>1, <2>2, <2>5 DEF IsSlot, SlotsOf
<1>4. ASSUME NEW page, LeaveTomb(page)
      PROVE  IsSlot(a)'
    BY <1>4 DEF LeaveTomb, IsSlot, Pages
<1> QED BY <1>3, <1>4 DEF GrowHeap

\* What the sections do to the objects they are about.
LEMMA ObjectStep ==
    ASSUME Inv, NestInv', FlagInv', [Next]_vars
    PROVE  ObjectInv'
<1>t. TypeOK /\ NestInv /\ FlagInv /\ ObjectInv /\ ProbeAnswers
    BY DEF Inv, IInv
<1>h. heap \in [Addresses -> {"free", "object", "node"}] /\ tracked \subseteq Addresses
    BY <1>t DEF TypeOK
<1>1. CASE UNCHANGED <<pages, heap, table_vars, sections, visit>>
    BY <1>t, <1>1 DEF ObjectInv, SectionKeepsObject, NoMissedFree, IsSlot,
       Pages, pages, table_vars, Within, Innermost
<1>2. CASE SwitchTracing
  <2>1. Outside /\ Len(sections) = 0 /\ visit.at = "idle"
      BY <1>t, <1>2, NestFacts DEF SwitchTracing, GvlFree
  <2>2. UNCHANGED <<sections, visit, heap>> /\ (tracing' => tracked' = {})
      BY <1>2 DEF SwitchTracing, gc_vars
  <2> QED BY <2>1, <2>2 DEF ObjectInv, SectionKeepsObject, NoMissedFree
<1>3. ASSUME NEW a \in Addresses, Free(a)
      PROVE  ObjectInv'
  <2>1. Outside /\ Len(sections) = 0 /\ visit.at = "idle" /\ ~InHook
        /\ UNCHANGED <<tracing, tracked, visit>>
        /\ heap' = [heap EXCEPT ![a] = "free"]
      BY <1>t, <1>3, NoGcInside, NestFacts DEF Free, table_vars, InHook, Outside
  <2>2. CASE tracing
    <3>1. Open("freeobj", a)
        BY <1>3, <2>1, <2>2 DEF Free
    <3>2. /\ Len(sections') = 1 /\ sections' # <<>>
          /\ sections'[1].by = "freeobj" /\ sections'[1].a = a
      <4>1. /\ Len(sections') = Len(sections) + 1 /\ sections' # <<>>
            /\ sections'[Len(sections) + 1].by = "freeobj"
            /\ sections'[Len(sections) + 1].a = a
          BY <1>t, <3>1, OpenFacts DEF TypeOK, NestInv
      <4> QED BY <2>1, <4>1
    <3>3. Within("freeobj")' /\ Innermost'.a = a
        BY <3>2 DEF Within, Innermost
    <3>4. NoMissedFree'
        BY <1>t, <1>h, <2>1, <3>3 DEF ObjectInv, NoMissedFree, Within, Outside
    <3> QED BY <2>1, <3>2, <3>4 DEF ObjectInv, SectionKeepsObject
  <2>3. CASE ~tracing
    <3>1. UNCHANGED sections
        BY <1>3, <2>3 DEF Free, gc_vars
    <3> QED BY <2>1, <2>3, <3>1 DEF ObjectInv, SectionKeepsObject, NoMissedFree
  <2> QED BY <2>2, <2>3
<1>4. ASSUME NEW a \in Addresses, NewObj(a)
      PROVE  ObjectInv'
  <2>1. /\ heap[a] = "free" /\ heap'[a] # "free"
        /\ \A b \in Addresses \ {a} : heap'[b] = heap[b]
        /\ UNCHANGED <<tracing, tracked, visit, pages>>
      BY <1>h, <1>4 DEF NewObj, table_vars, probe_vars
  <2>2. Outside \/ Within("flush")
      BY <1>4 DEF NewObj, ObjectsMayBeAllocated, GvlFree, Outside
  <2>3. NoMissedFree'
    <3>1. ~Within("freeobj")
        BY <1>t, <2>2, NestFacts DEF Within, Outside
    <3> QED BY <1>t, <1>h, <2>1, <3>1 DEF ObjectInv, NoMissedFree
  <2>4. SectionKeepsObject'
    <3> SUFFICES ASSUME visit.at = "add" PROVE SectionKeepsObject'
        BY <2>1 DEF SectionKeepsObject
    <3>1. heap[visit.a] = "object" /\ IsSlot(visit.a) /\ visit.a \in tracked
        BY <1>t DEF ObjectInv, SectionKeepsObject
    <3>2. heap'[visit.a] = "object"
        BY <1>h, <2>1, <3>1
    <3> QED BY <2>1, <3>1, <3>2 DEF SectionKeepsObject, IsSlot, Pages, pages
  <2>5. CASE Open("newobj", a)
    <3>1. /\ Len(sections') = Len(sections) + 1
          /\ \A i \in 1 .. Len(sections) : sections'[i] = sections[i]
          /\ sections'[Len(sections) + 1].a = a
        BY <1>t, <2>5, OpenFacts DEF TypeOK, NestInv
    <3>2. Len(sections) \in {0, 1}
          /\ (Len(sections) = 1 => sections[1].by = "flush")
        BY <1>t, <2>2, NestFacts
    <3>3. ASSUME NEW i \in 1 .. Len(sections'), sections'[i].by = "newobj"
          PROVE  heap'[sections'[i].a] # "free"
      <4>1. CASE Len(sections) = 0
        <5>1. i = 1
            BY <3>1, <3>3, <4>1
        <5> QED BY <2>1, <3>1, <4>1, <5>1
      <4>2. CASE Len(sections) = 1
        <5>1. i \in {1, 2} /\ sections'[1] = sections[1]
            BY <3>1, <3>3, <4>2
        <5>2. i = 2
            BY <3>2, <3>3, <4>2, <5>1
        <5> QED BY <2>1, <3>1, <4>2, <5>2
      <4> QED BY <3>2, <4>1, <4>2
    <3> QED BY <1>t, <2>1, <2>3, <2>4, <3>3 DEF ObjectInv
  <2>6. CASE UNCHANGED gc_vars
    <3>1. ASSUME NEW i \in 1 .. Len(sections), sections[i].by = "newobj"
          PROVE  heap'[sections[i].a] # "free"
      <4>1. heap[sections[i].a] # "free"
          BY <1>t, <3>1 DEF ObjectInv
      <4>2. sections[i].a \in Addresses
        <5>1. sections[i] \in Section
            BY <1>t, ElementOfSeq DEF NestInv
        <5> QED BY <5>1 DEF Section
      <4> QED BY <2>1, <4>1, <4>2
    <3> QED BY <1>t, <2>1, <2>3, <2>4, <2>6, <3>1 DEF ObjectInv, gc_vars
  <2> QED BY <1>4, <2>5, <2>6 DEF NewObj
<1>5. ASSUME NEW a \in Addresses, VisitSample(a)
      PROVE  ObjectInv'
  <2>1. /\ Outside /\ Len(sections) = 0 /\ Open("flush", a) /\ a \in tracked
        /\ visit' = [at |-> "probe", a |-> a]
        /\ UNCHANGED <<heap, tracing, tracked>>
      BY <1>t, <1>5, NestFacts DEF VisitSample, table_vars
  <2>2. Len(sections') = 1 /\ sections'[1].by = "flush"
      BY <1>t, <2>1, OpenFacts DEF TypeOK, NestInv
  <2> QED BY <1>t, <2>1, <2>2
          DEF ObjectInv, SectionKeepsObject, NoMissedFree, Within, Outside
<1>6. CASE FreeObjHook
  <2>1. /\ Within("freeobj") /\ Len(sections) = 1 /\ visit.at = "idle" /\ Close
        /\ tracked' = tracked \ {Innermost.a}
        /\ UNCHANGED <<heap, tracing, visit, probe>>
      BY <1>t, <1>6, NestFacts DEF FreeObjHook, probe_vars
  <2>2. Len(sections') = 0
      BY <1>t, <2>1, CloseFacts DEF NestInv, Within
  <2> QED BY <1>t, <2>1, <2>2 DEF ObjectInv, SectionKeepsObject, NoMissedFree
<1>7. CASE NewObjHook
  <2>1. /\ Within("newobj") /\ Close /\ tracked \subseteq tracked'
        /\ tracked' \subseteq tracked \union {Innermost.a}
        /\ UNCHANGED <<heap, tracing, visit, pages, probe>>
      BY <1>7 DEF NewObjHook, probe_vars
  <2>2. heap[Innermost.a] # "free"
    <3>1. Len(sections) \in 1 .. Len(sections) /\ sections[Len(sections)].by = "newobj"
        BY <1>t, <2>1, NestFacts DEF Innermost, Within
    <3> QED BY <1>t, <3>1 DEF ObjectInv, Innermost
  <2>3. sections' = <<>> \/ (Len(sections') = 1 /\ sections'[1].by = "flush")
      BY <1>t, <2>1, HookCloses
  <2>4. \A i \in 1 .. Len(sections') : sections'[i].by # "newobj"
    <3>1. CASE Len(sections') = 1 /\ sections'[1].by = "flush"
        BY <3>1
    <3>2. CASE sections' = <<>>
        BY <3>2, EmptySeq
    <3> QED BY <2>3, <3>1, <3>2
  <2>5. ~Within("freeobj")
      BY <2>1 DEF Within
  <2> QED BY <1>t, <2>1, <2>2, <2>4, <2>5
          DEF ObjectInv, SectionKeepsObject, NoMissedFree, IsSlot, Pages, pages
<1>8. CASE SweepPages
  <2>1. Outside /\ Len(sections) = 0 /\ visit.at = "idle"
        /\ UNCHANGED <<heap, tracing, tracked, sections, visit>>
      BY <1>t, <1>8, NoGcInside, NestFacts DEF SweepPages, table_vars, gc_vars
  <2> QED BY <1>t, <2>1 DEF ObjectInv, SectionKeepsObject, NoMissedFree, Within,
                            Innermost
<1>9. CASE GrowHeap
  <2>1. UNCHANGED <<heap, tracing, tracked, sections, visit>>
      BY <1>9 DEF GrowHeap, table_vars, gc_vars
  <2>2. visit.at = "add" => IsSlot(visit.a)'
    <3>1. visit.a \in Nat /\ visit'.a = visit.a
        BY <1>t, <2>1 DEF TypeOK
    <3>2. \A a \in Nat : IsSlot(a) => \E page \in Pages' \ tomb' : a \in SlotsOf(page)
        BY <1>t, <1>9, SlotStays DEF IsSlot, SlotsOf
    <3>3. visit.at = "add" => IsSlot(visit.a)
        BY <1>t DEF ObjectInv, SectionKeepsObject
    <3> QED BY <3>1, <3>2, <3>3 DEF IsSlot, SlotsOf
  <2> QED BY <1>t, <2>1, <2>2 DEF ObjectInv, SectionKeepsObject, NoMissedFree,
                                  Within, Innermost
<1>10. CASE Search
  <2>1. UNCHANGED <<heap, tracing, tracked, sections, visit>> /\ visit.at = "probe"
      BY <1>10 DEF Search, table_vars, gc_vars
  <2> QED BY <1>t, <2>1 DEF ObjectInv, SectionKeepsObject, NoMissedFree, Within,
                            Innermost
<1>11. CASE DiscardSample
  <2>1. /\ Within("flush") /\ Close /\ visit' = NoVisit
        /\ tracked' = tracked \ {visit.a} /\ UNCHANGED <<heap, tracing>>
        /\ probe'.state = "idle"
      BY <1>t, <1>11, NestFacts DEF DiscardSample, Forget, Idle
  <2>2. sections' = <<>>
      BY <1>t, <2>1, VisitCloses
  <2> QED BY <1>t, <2>1, <2>2, EmptySeq
          DEF ObjectInv, SectionKeepsObject, NoMissedFree, Within, NoVisit
<1>12. CASE KeepSample
  <2>1. /\ visit.at = "probe" /\ probe.answer /\ heap[visit.a] = "object"
        /\ probe.state = "done" /\ visit' = [visit EXCEPT !.at = "add"]
        /\ UNCHANGED <<pages, heap, tracing, tracked, sections>>
      BY <1>12 DEF KeepSample, Validish, Forget, table_vars, gc_vars
  <2>2. visit'.a = visit.a /\ visit'.at = "add"
      BY <1>t, <2>1 DEF TypeOK
  <2>3. IsSlot(visit.a) /\ visit.a \in tracked
      BY <1>t, <2>1 DEF ProbeAnswers, NestInv, ObjectInv
  <2> QED BY <1>t, <2>1, <2>2, <2>3
          DEF ObjectInv, SectionKeepsObject, NoMissedFree, Within, Innermost,
              IsSlot, Pages, pages
<1>13. CASE SampleAdded
  <2>1. /\ Within("flush") /\ Close /\ visit' = NoVisit
        /\ UNCHANGED <<heap, tracing, tracked>> /\ probe'.state = "idle"
      BY <1>t, <1>13 DEF SampleAdded, table_vars, probe_vars, NestInv
  <2>2. sections' = <<>>
      BY <1>t, <2>1, VisitCloses
  <2> QED BY <1>t, <2>1, <2>2, EmptySeq
          DEF ObjectInv, SectionKeepsObject, NoMissedFree, Within, NoVisit
<1>14. CASE SwitchGc
    BY <1>1, <1>14 DEF SwitchGc, probe_vars
<1> QED BY <1>1, <1>2, <1>3, <1>4, <1>5, <1>6, <1>7, <1>8, <1>9, <1>10, <1>11,
           <1>12, <1>13, <1>14
        DEF Next, SectionStep, vars, probe_vars, gc_vars

-----------------------------------------------------------------------------
LEMMA Initial == Init => Inv
<1> SUFFICES ASSUME Init PROVE Inv
    OBVIOUS
<1>1. IInv
    BY ProbeInitial DEF Init
<1>2. /\ sections = <<>> /\ Len(sections) = 0 /\ sections \in Seq(Section)
      /\ visit.at = "idle" /\ visit.a = 0 /\ probe.state = "idle"
    BY EmptySeq DEF Init, NoVisit, ProbeInit, Idle
<1>3. TypeOK
    BY <1>1 DEF Init, TypeOK, IInv, NoVisit
<1>4. NestInv
    BY <1>2 DEF NestInv
<1>5. FlagInv
  <2>1. dont_gc = FALSE /\ app_disabled = FALSE
      BY DEF Init
  <2>2. GcFlagRestored
      BY <1>2, <2>1 DEF GcFlagRestored
  <2> QED BY <1>2, <2>2 DEF FlagInv
<1>6. ObjectInv
    BY <1>2 DEF Init, ObjectInv, SectionKeepsObject, NoMissedFree
<1> QED BY <1>1, <1>3, <1>4, <1>5, <1>6 DEF Inv

LEMMA Step == Inv /\ [Next]_vars => Inv' /\ [ProbeNext]_probe_vars
<1> SUFFICES ASSUME Inv, [Next]_vars
             PROVE  Inv' /\ [ProbeNext]_probe_vars
    OBVIOUS
<1>1. [ProbeNext]_probe_vars
    BY ProbeSimulation DEF Inv
<1>2. IInv'
    BY <1>1, ProbeStep DEF Inv
<1>3. NestInv' /\ FlagInv'
    BY NestStep DEF Inv
<1>4. TypeOK'
    BY <1>2, TypeStep DEF Inv, IInv
<1>5. ObjectInv'
    BY <1>3, ObjectStep
<1> QED BY <1>1, <1>2, <1>3, <1>4, <1>5 DEF Inv

\* The inductive invariant of the sections.
THEOREM Invariant == Spec => []Inv
BY Initial, Step, PTL DEF Spec

THEOREM Types == Spec => []TypeOK
BY Invariant, PTL DEF Inv

\* A search runs in a section, so that the VM's pages are those of one moment.
THEOREM SearchSimulation == Spec => SearchesLikeHeapProbe
<1>1. Init => ProbeInit
    BY DEF Init
<1>2. Spec => [][ProbeNext]_probe_vars
    BY Invariant, Step, PTL DEF Spec
<1> QED BY <1>1, <1>2, PTL DEF Spec, ProbeSpec, SearchesLikeHeapProbe

\* Hence what the flush asks mpp_is_pointer_to_heap is answered rightly.
THEOREM SampleIsFoundAlive == Spec => []ProbeAnswers
BY SearchSimulation, ProbeIsRight, PTL DEF SearchesLikeHeapProbe

\* However sections nest, the flag of the GC is put back to what it was.
THEOREM FlagIsRestored == Spec => []GcFlagRestored
<1>1. Inv => GcFlagRestored
    BY DEF Inv, FlagInv
<1> QED BY <1>1, Invariant, PTL

\* The object that flush_each_sample measures is alive until it is done.
THEOREM ObjectIsKept == Spec => []SectionKeepsObject
<1>1. Inv => SectionKeepsObject
    BY DEF Inv, ObjectInv
<1> QED BY <1>1, Invariant, PTL

\* No object is freed without its freeobj hook.
THEOREM NoFreeIsMissed == Spec => []NoMissedFree
<1>1. Inv => NoMissedFree
    BY DEF Inv, ObjectInv
<1> QED BY <1>1, Invariant, PTL

=============================================================================
