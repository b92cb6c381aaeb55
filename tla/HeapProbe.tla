----------------------------- MODULE HeapProbe -----------------------------
(***************************************************************************)
(* mpp_is_pointer_to_heap of ruby_hacks.c: is an address that a sample     *)
(* kept still the start of a slot of Ruby's heap?  The function searches   *)
(* the VM's table of pages, heap_pages.sorted, by bisection; one action is *)
(* one round of its loop.  The VM, which is not in src/, adds and removes  *)
(* pages between two searches, and never during one: that it cannot is     *)
(* what GcSection shows of the code that calls the function.               *)
(*                                                                         *)
(* Addresses are numbers.  A page is the record of struct heap_page that   *)
(* the search reads; what it reads of the flags is the set tomb.           *)
(***************************************************************************)
EXTENDS Integers

CONSTANTS
    SizeofRVALUE,     \* sizeof(RVALUE)
    PageAlign,        \* HEAP_PAGE_ALIGN: what the bodies of pages start at
    VariableSlotSize, \* HAVE_VARIABLE_SLOT_SIZE: Ruby 3.1 and later
    Layouts,          \* the pages that the VM may ever allocate
    Addresses         \* what may be asked about

VARIABLES
    sorted,          \* heap_pages.sorted: the pages by address, from 0
    allocated_pages, \* heap_pages.allocated_pages
    range,           \* heap_pages.range: no page is outside
    tomb,            \* the pages whose flag in_tomb is set
    probe            \* the locals of the search

pages == <<sorted, allocated_pages, range, tomb>>
probe_vars == <<pages, probe>>

\* NUM_IN_PAGE
NumInPage(a) == (a % PageAlign) \div SizeofRVALUE

\* The address in the page is that of a slot, not inside one.
Aligned(page, a) ==
    \/ ~VariableSlotSize
    \/ (NumInPage(a) * SizeofRVALUE) % page.slot_size = 0

EndOf(page) == page.start + page.total_slots * page.slot_size

SlotsOf(page) ==
    {page.start + k * page.slot_size : k \in 0 .. page.total_slots - 1}

\* How Ruby lays out a page.  Its first slot is moved up until the distance
\* of every slot from the body of the page, counted in RVALUEs, is a multiple
\* of the size of a slot; before 3.1 a slot is an RVALUE.
ASSUME Sizes ==
    /\ SizeofRVALUE \in Nat \ {0}
    /\ PageAlign \in Nat \ {0}
    /\ VariableSlotSize \in BOOLEAN
    /\ Addresses \subseteq Nat

ASSUME PageLayout ==
    \A page \in Layouts :
        /\ page \in [start : Nat, slot_size : Nat \ {0}, total_slots : Nat \ {0}]
        /\ EndOf(page) \in Nat /\ page.start < EndOf(page)
        /\ \A a \in page.start .. EndOf(page) - 1 :
              a % SizeofRVALUE = 0 =>
                (a \in SlotsOf(page) <=> Aligned(page, a))
        /\ \A a \in SlotsOf(page) :
              /\ a \in page.start .. EndOf(page) - 1
              /\ a % SizeofRVALUE = 0

Pages == {sorted[i] : i \in 0 .. allocated_pages - 1}

Idle == [p |-> 0, lo |-> 0, hi |-> 0, state |-> "idle", answer |-> FALSE]

ProbeInit ==
    /\ sorted = [i \in {} |-> 0]
    /\ allocated_pages = 0
    /\ range = <<0, 0>>
    /\ tomb = {}
    /\ probe = Idle

-----------------------------------------------------------------------------
(* What the VM does with its pages (external)                              *)

InsertedAt(i, page) ==
    [k \in 0 .. allocated_pages |->
        IF k < i THEN sorted[k] ELSE IF k = i THEN page ELSE sorted[k - 1]]

\* heap_page_allocate: a page comes to its place in the table.
AllocatePage(page) ==
    /\ \E i \in 0 .. allocated_pages :
        /\ \A k \in 0 .. i - 1 : EndOf(sorted[k]) <= page.start
        /\ \A k \in i .. allocated_pages - 1 : EndOf(page) <= sorted[k].start
        /\ sorted' = InsertedAt(i, page)
    /\ allocated_pages' = allocated_pages + 1
    /\ range' = IF allocated_pages = 0 THEN <<page.start, EndOf(page)>>
                ELSE <<IF page.start < range[1] THEN page.start ELSE range[1],
                       IF EndOf(page) > range[2] THEN EndOf(page) ELSE range[2]>>
    /\ UNCHANGED tomb

\* heap_pages_free_unused_pages: a page of the tomb is given back.
FreePage(i) ==
    /\ sorted[i] \in tomb
    /\ sorted' = [k \in 0 .. allocated_pages - 2 |->
                    IF k < i THEN sorted[k] ELSE sorted[k + 1]]
    /\ allocated_pages' = allocated_pages - 1
    /\ tomb' = tomb \ {sorted[i]}
    /\ UNCHANGED range

\* A page without objects goes to the tomb, and comes back when it is needed.
EnterTomb(page) ==
    /\ page \in Pages \ tomb
    /\ tomb' = tomb \union {page}
    /\ UNCHANGED <<sorted, allocated_pages, range>>

LeaveTomb(page) ==
    /\ page \in tomb
    /\ tomb' = tomb \ {page}
    /\ UNCHANGED <<sorted, allocated_pages, range>>

VmStep ==
    \/ \E page \in Layouts : AllocatePage(page)
    \/ \E i \in 0 .. allocated_pages - 1 : FreePage(i)
    \/ \E page \in Layouts : EnterTomb(page) \/ LeaveTomb(page)

-----------------------------------------------------------------------------
(* mpp_is_pointer_to_heap                                                  *)

Searching == probe.state = "search"

Answer(b) == probe' = [probe EXCEPT !.state = "done", !.answer = b]

\* The tests of the address that need no page.
OutOfRange(a) ==
    \/ a < range[1]
    \/ a > range[2]
    \/ a % SizeofRVALUE # 0

\* Where the search begins.
\* Fault: one beyond the end of the table.
End_TooFar == allocated_pages + 1
End == allocated_pages

\* The function is called.
Ask(a) ==
    /\ ~Searching
    /\ probe' = [p      |-> a,
                 lo     |-> 0,
                 hi     |-> End,
                 state  |-> IF OutOfRange(a) THEN "done" ELSE "search",
                 answer |-> FALSE]
    /\ UNCHANGED pages

Mid == (probe.lo + probe.hi) \div 2

\* What is answered for an address in the page.
\* Fault: any RVALUE in a larger slot will do.
InSlot_Inside(page) == page \notin tomb
InSlot(page) == page \notin tomb /\ Aligned(page, probe.p)

FoundPage ==
    /\ Searching
    /\ probe.lo < probe.hi
    /\ LET page == sorted[Mid]
       IN  /\ page.start <= probe.p /\ probe.p < EndOf(page)
           /\ Answer(InSlot(page))
    /\ UNCHANGED pages

\* Fault: the page that was looked at is looked at again, for ever.
Above_Stuck == Mid
Above == Mid + 1

GoUp ==
    /\ Searching
    /\ probe.lo < probe.hi
    /\ sorted[Mid].start <= probe.p /\ EndOf(sorted[Mid]) <= probe.p
    /\ probe' = [probe EXCEPT !.lo = Above]
    /\ UNCHANGED pages

Below == Mid

GoDown ==
    /\ Searching
    /\ probe.lo < probe.hi
    /\ probe.p < sorted[Mid].start
    /\ probe' = [probe EXCEPT !.hi = Below]
    /\ UNCHANGED pages

NotFound ==
    /\ Searching
    /\ probe.hi <= probe.lo
    /\ Answer(FALSE)
    /\ UNCHANGED pages

SearchStep ==
    \/ FoundPage
    \/ GoUp
    \/ GoDown
    \/ NotFound

\* The caller has used the answer.
Forget == probe.state = "done" /\ probe' = Idle /\ UNCHANGED pages

ProbeNext ==
    \/ \E a \in Addresses : Ask(a)
    \/ SearchStep
    \/ Forget
    \/ ~Searching /\ probe.state = "idle" /\ VmStep /\ UNCHANGED probe

ProbeSpec == ProbeInit /\ [][ProbeNext]_probe_vars

-----------------------------------------------------------------------------
(* What makes the search correct                                           *)

Ordered ==
    \A i, j \in 0 .. allocated_pages - 1 :
        i < j => EndOf(sorted[i]) <= sorted[j].start

InRange ==
    \A i \in 0 .. allocated_pages - 1 :
        range[1] <= sorted[i].start /\ EndOf(sorted[i]) <= range[2]

ProbeTypeOK ==
    /\ allocated_pages \in Nat
    /\ sorted \in [0 .. allocated_pages - 1 -> Layouts]
    /\ range \in Nat \X Nat
    /\ tomb \subseteq Layouts
    /\ probe \in [p : Nat, lo : Nat, hi : Nat,
                  state : {"idle", "search", "done"}, answer : BOOLEAN]

\* The answer that the comment asks for: the address is that of a slot, in a
\* page that is in use.
IsSlot(a) == \E page \in Pages \ tomb : a \in SlotsOf(page)

\* The bisection finds the page of every slot, takes no address between two
\* slots or in a page of the tomb for one, and never reads beyond the table.
ProbeAnswers == probe.state = "done" => (probe.answer <=> IsSlot(probe.p))

ProbeInBounds ==
    Searching => /\ 0 <= probe.lo /\ probe.hi <= allocated_pages
                 /\ probe.lo < probe.hi => Mid \in 0 .. allocated_pages - 1

=============================================================================
