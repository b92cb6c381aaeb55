----------------------------- MODULE GcSection -----------------------------
(***************************************************************************)
(* The sections of collector.c in which the GC is switched off: the newobj *)
(* hook, the freeobj hook, and what flush_each_sample does with a sample.  *)
(* They may nest: an object that is allocated while a sample is formatted  *)
(* runs the newobj hook inside the flush's section.  Each switches the GC  *)
(* off by the flag of the VM and back to what it was, and between two of   *)
(* them the application uses the same flag for GC.disable and GC.enable.   *)
(*                                                                         *)
(* Collector takes the hooks and the visit of a sample for single steps    *)
(* that see every free.  This module is about the steps inside them, and   *)
(* about why the GC does not run there; the search in the VM's pages is    *)
(* that of HeapProbe.                                                      *)
(***************************************************************************)
EXTENDS HeapProbe, Sequences, FiniteSets

CONSTANT MaxObjects \* bound of the model: the objects that live at once

VARIABLES
    heap,         \* what is in each slot
    tracing,      \* the tracepoints are enabled
    tracked,      \* the keys of heap_samples
    dont_gc,      \* objspace->flags.dont_gc
    app_disabled, \* history: the application has called GC.disable
    sections,     \* the open sections, the innermost last
    visit         \* how far flush_each_sample is, and with which object

gc_vars == <<dont_gc, app_disabled, sections>>
table_vars == <<tracing, tracked>>
vars == <<probe_vars, heap, table_vars, gc_vars, visit>>

NoVisit == [at |-> "idle", a |-> 0]

Init ==
    /\ ProbeInit
    /\ heap = [a \in Addresses |-> "free"]
    /\ tracing = FALSE
    /\ tracked = {}
    /\ dont_gc = FALSE
    /\ app_disabled = FALSE
    /\ sections = <<>>
    /\ visit = NoVisit

-----------------------------------------------------------------------------
(* The flag                                                                *)

\* mpp_rb_gc_disable_no_rest.
\* Fault: the GC is left on.
GcDisable_Not == dont_gc
GcDisable == TRUE

Open(by, a) ==
    /\ sections' = Append(sections, [by |-> by, a |-> a, was |-> dont_gc])
    /\ dont_gc' = GcDisable
    /\ UNCHANGED app_disabled

Innermost == sections[Len(sections)]

\* The way out of a section, and rb_gc_enable.
\* Fault: the GC is switched on whatever it was.
Restored_On == FALSE
Restored == Innermost.was

Close ==
    /\ sections' = SubSeq(sections, 1, Len(sections) - 1)
    /\ dont_gc' = Restored
    /\ UNCHANGED app_disabled

Within(by) == sections # <<>> /\ Innermost.by = by
Outside == sections = <<>>

\* Other threads run before and after a section: the flush gives up the GVL
\* before it switches the GC off.
\* Fault: it does so while it looks for the object.
GvlFree_Late == Outside \/ visit.at = "probe"
GvlFree == Outside

\* Ruby does not run a hook inside a hook.
InHook == \E i \in DOMAIN sections : sections[i].by \in {"newobj", "freeobj"}

-----------------------------------------------------------------------------
(* The application                                                         *)

SwitchGc ==
    /\ GvlFree
    /\ \E off \in BOOLEAN : dont_gc' = off /\ app_disabled' = off
    /\ UNCHANGED <<probe_vars, heap, table_vars, sections, visit>>

\* start! clears the table, and after stop! no hook runs.
SwitchTracing ==
    /\ GvlFree
    /\ tracing' = ~tracing
    /\ tracked' = IF tracing THEN tracked ELSE {}
    /\ UNCHANGED <<probe_vars, heap, gc_vars, visit>>

-----------------------------------------------------------------------------
(* The garbage collector and the heap (external)                           *)

\* Memory is allocated in the newobj hook, which captures a backtrace, and
\* while a sample is added to a profile.
Allocating == Within("newobj") \/ (Within("flush") /\ visit.at = "add")

\* A GC runs when memory is allocated, unless it is switched off.  Outside
\* the sections GC.start runs one all the same.
GcMayRun == GvlFree \/ (Allocating /\ ~dont_gc)

\* A sweep frees an object, and the freeobj hook opens its section.
\* collector_tphook_freeobj.
Free(a) ==
    /\ GcMayRun
    /\ heap[a] # "free"
    /\ heap' = [heap EXCEPT ![a] = "free"]
    /\ IF tracing /\ ~InHook THEN Open("freeobj", a) ELSE UNCHANGED gc_vars
    /\ UNCHANGED <<probe_vars, table_vars, visit>>

FreeObjHook ==
    /\ Within("freeobj")
    /\ tracked' = tracked \ {Innermost.a}
    /\ Close
    /\ UNCHANGED <<probe_vars, heap, tracing, visit>>

Allocated == {a \in Addresses : heap[a] # "free"}

ObjectsMayBeAllocated == GvlFree \/ (Within("flush") /\ visit.at = "add")

\* An object comes into a free slot, and the newobj hook opens its section.
NewObj(a) ==
    /\ ObjectsMayBeAllocated
    /\ Cardinality(Allocated) < MaxObjects
    /\ IsSlot(a) /\ heap[a] = "free"
    /\ \E kind \in {"object", "node"} : heap' = [heap EXCEPT ![a] = kind]
    /\ IF tracing THEN Open("newobj", a) ELSE UNCHANGED gc_vars
    /\ UNCHANGED <<probe_vars, table_vars, visit>>

\* The rest of collector_tphook_newobj, which samples the object or not.
NewObjHook ==
    /\ Within("newobj")
    /\ tracked' \in {tracked, tracked \union {Innermost.a}}
    /\ Close
    /\ UNCHANGED <<probe_vars, heap, tracing, visit>>

SweepPages ==
    /\ GcMayRun
    /\ \/ \E page \in Layouts :
            EnterTomb(page) /\ \A a \in SlotsOf(page) : heap[a] = "free"
       \/ \E i \in 0 .. allocated_pages - 1 : FreePage(i)
    /\ UNCHANGED <<probe, heap, table_vars, gc_vars, visit>>

GrowHeap ==
    /\ ObjectsMayBeAllocated
    /\ \E page \in Layouts : AllocatePage(page) \/ LeaveTomb(page)
    /\ UNCHANGED <<probe, heap, table_vars, gc_vars, visit>>

-----------------------------------------------------------------------------
(* flush_each_sample, from the line that switches the GC off               *)

VisitSample(a) ==
    /\ Outside
    /\ a \in tracked
    /\ Open("flush", a)
    /\ Ask(a)
    /\ visit' = [at |-> "probe", a |-> a]
    /\ UNCHANGED <<heap, table_vars>>

Search ==
    /\ visit.at = "probe"
    /\ SearchStep
    /\ UNCHANGED <<heap, table_vars, gc_vars, visit>>

\* mpp_is_value_still_validish: the types that rb_obj_memsize_of can measure.
Validish == probe.answer /\ heap[visit.a] = "object"

\* The sample of an object that is gone is deleted.
DiscardSample ==
    /\ visit.at = "probe"
    /\ ~Validish
    /\ Forget
    /\ tracked' = tracked \ {visit.a}
    /\ Close
    /\ visit' = NoVisit
    /\ UNCHANGED <<heap, tracing>>

KeepSample ==
    /\ visit.at = "probe"
    /\ Validish
    /\ Forget
    /\ visit' = [visit EXCEPT !.at = "add"]
    /\ UNCHANGED <<heap, table_vars, gc_vars>>

\* The object has been measured and its sample added.
SampleAdded ==
    /\ visit.at = "add"
    /\ Within("flush")
    /\ Close
    /\ visit' = NoVisit
    /\ UNCHANGED <<probe_vars, heap, table_vars>>

-----------------------------------------------------------------------------
SectionStep ==
    \/ FreeObjHook
    \/ NewObjHook
    \/ Search
    \/ DiscardSample
    \/ KeepSample
    \/ SampleAdded

Next ==
    \/ SwitchGc
    \/ SwitchTracing
    \/ \E a \in Addresses : Free(a) \/ NewObj(a) \/ VisitSample(a)
    \/ SweepPages
    \/ GrowHeap
    \/ SectionStep

\* A section does not wait for anything.
Spec == Init /\ [][Next]_vars /\ WF_vars(SectionStep)

-----------------------------------------------------------------------------
(* What the sections are for                                               *)

TypeOK ==
    /\ ProbeTypeOK
    /\ heap \in [Addresses -> {"free", "object", "node"}]
    /\ tracked \subseteq Addresses
    /\ {tracing, dont_gc, app_disabled} \subseteq BOOLEAN
    /\ visit \in [at : {"idle", "probe", "add"}, a : Nat]

\* Comment in flush_each_sample: the GC is off so that the object that was
\* found alive is alive, and its sample in the table, until it has been added.
SectionKeepsObject ==
    visit.at = "add" =>
        heap[visit.a] = "object" /\ IsSlot(visit.a) /\ visit.a \in tracked

\* However the sections nest and whatever the application does in between,
\* the GC is off in all of them, and after the last as the application left it.
GcFlagRestored == dont_gc = (app_disabled \/ sections # <<>>)

\* Comment in the newobj hook: no object is freed where its freeobj hook would
\* be skipped.  So, while tracing, each tracked object is alive or in its hook.
NoMissedFree ==
    tracing =>
        \A a \in tracked :
            heap[a] # "free" \/ (Within("freeobj") /\ Innermost.a = a)

\* The search is one of HeapProbe: no page comes or goes while it goes on, so
\* that its answer is about the pages of one moment.
SearchesLikeHeapProbe == ProbeSpec

\* The visit of a sample ends, and the section with it.
VisitEnds == visit.at # "idle" ~> visit.at = "idle"

=============================================================================
