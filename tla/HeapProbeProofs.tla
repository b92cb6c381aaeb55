-------------------------- MODULE HeapProbeProofs --------------------------
(***************************************************************************)
(* The bisection of mpp_is_pointer_to_heap, for every table of pages.      *)
(***************************************************************************)
EXTENDS HeapProbe, TLAPS

InPage(page, a) == page.start <= a /\ a < EndOf(page)

Probes == [p : Nat, lo : Nat, hi : Nat,
           state : {"idle", "search", "done"}, answer : BOOLEAN]

\* The page of the address, if there is one, is among those between lo and hi.
Located ==
    Searching =>
        /\ probe.p % SizeofRVALUE = 0
        /\ probe.lo <= probe.hi /\ probe.hi <= allocated_pages
        /\ \A k \in 0 .. allocated_pages - 1 :
              InPage(sorted[k], probe.p) => probe.lo <= k /\ k < probe.hi

IInv ==
    /\ ProbeTypeOK
    /\ Ordered
    /\ InRange
    /\ Located
    /\ ProbeAnswers

\* What the layout of a page says about one of them.
LEMMA LayoutFacts ==
    ASSUME NEW page \in Layouts
    PROVE  /\ page.start \in Nat /\ EndOf(page) \in Nat
           /\ page.start < EndOf(page)
           /\ \A a \in Nat :
                /\ a \in SlotsOf(page) =>
                      InPage(page, a) /\ a % SizeofRVALUE = 0
                /\ InPage(page, a) /\ a % SizeofRVALUE = 0 =>
                      (a \in SlotsOf(page) <=> Aligned(page, a))
<1>1. /\ page.start \in Nat /\ EndOf(page) \in Nat
      /\ page.start < EndOf(page)
    BY PageLayout
<1>2. ASSUME NEW a \in Nat, a \in SlotsOf(page)
      PROVE  InPage(page, a) /\ a % SizeofRVALUE = 0
  <2>1. /\ a \in page.start .. EndOf(page) - 1
        /\ a % SizeofRVALUE = 0
      BY <1>2, PageLayout
  <2> QED BY <1>1, <2>1 DEF InPage
<1>3. ASSUME NEW a \in Nat, InPage(page, a), a % SizeofRVALUE = 0
      PROVE  a \in SlotsOf(page) <=> Aligned(page, a)
  <2>1. a \in page.start .. EndOf(page) - 1
      BY <1>1, <1>3 DEF InPage
  <2> QED BY <1>3, <2>1, PageLayout
<1> QED BY <1>1, <1>2, <1>3

LEMMA ProbeInitial == ProbeInit => IInv
BY DEF ProbeInit, IInv, ProbeTypeOK, Ordered, InRange, Located, ProbeAnswers,
       Searching, Idle

\* An address can be in one page only.
LEMMA OnePage ==
    ASSUME ProbeTypeOK, Ordered,
           NEW i \in 0 .. allocated_pages - 1,
           NEW j \in 0 .. allocated_pages - 1,
           NEW a \in Nat, InPage(sorted[i], a), InPage(sorted[j], a)
    PROVE  i = j
<1>1. sorted[i] \in Layouts /\ sorted[j] \in Layouts
    BY DEF ProbeTypeOK
<1>2. /\ i < j => EndOf(sorted[i]) <= sorted[j].start
      /\ j < i => EndOf(sorted[j]) <= sorted[i].start
    BY DEF Ordered
<1>3. /\ sorted[i].start \in Nat /\ EndOf(sorted[i]) \in Nat
      /\ sorted[j].start \in Nat /\ EndOf(sorted[j]) \in Nat
    BY <1>1, LayoutFacts
<1>4. i \in Int /\ j \in Int
    BY DEF ProbeTypeOK
<1> QED BY <1>2, <1>3, <1>4 DEF InPage

\* A slot is in a page of the table.
LEMMA SlotHasPage ==
    ASSUME ProbeTypeOK, NEW a \in Nat, IsSlot(a)
    PROVE  \E k \in 0 .. allocated_pages - 1 :
              /\ InPage(sorted[k], a) /\ a \in SlotsOf(sorted[k])
              /\ a % SizeofRVALUE = 0 /\ sorted[k] \notin tomb
<1>1. PICK k \in 0 .. allocated_pages - 1 :
        a \in SlotsOf(sorted[k]) /\ sorted[k] \notin tomb
    BY DEF IsSlot, Pages
<1>2. sorted[k] \in Layouts
    BY DEF ProbeTypeOK
<1>3. InPage(sorted[k], a) /\ a % SizeofRVALUE = 0
    BY <1>1, <1>2, LayoutFacts
<1> QED BY <1>1, <1>3

-----------------------------------------------------------------------------
(* The steps of the search                                                 *)

LEMMA AskKeeps ==
    ASSUME IInv, NEW a \in Addresses, Ask(a)
    PROVE  IInv'
<1>t. ProbeTypeOK /\ Ordered /\ InRange /\ a \in Nat
    BY Sizes DEF IInv
<1>1. /\ probe' = [p      |-> a,
                   lo     |-> 0,
                   hi     |-> allocated_pages,
                   state  |-> IF OutOfRange(a) THEN "done" ELSE "search",
                   answer |-> FALSE]
      /\ UNCHANGED <<sorted, allocated_pages, range, tomb>>
    BY DEF Ask, End, pages
<1>2. ProbeTypeOK'
    BY <1>t, <1>1 DEF ProbeTypeOK
<1>3. Ordered' /\ InRange'
    BY <1>t, <1>1 DEF Ordered, InRange
<1>4. Located'
  <2> SUFFICES ASSUME Searching' PROVE Located'
      BY DEF Located
  <2>1. ~OutOfRange(a)
      BY <1>1 DEF Searching
  <2>2. a % SizeofRVALUE = 0
      BY <2>1 DEF OutOfRange
  <2>3. \A k \in 0 .. allocated_pages - 1 : 0 <= k /\ k < allocated_pages
      BY <1>t DEF ProbeTypeOK
  <2>4. 0 <= allocated_pages /\ allocated_pages <= allocated_pages
      BY <1>t DEF ProbeTypeOK
  <2> QED BY <1>1, <2>2, <2>3, <2>4 DEF Located
<1>5. ProbeAnswers'
  <2> SUFFICES ASSUME OutOfRange(a), IsSlot(a) PROVE FALSE
      BY <1>1 DEF ProbeAnswers, IsSlot, Pages
  <2>1. PICK k \in 0 .. allocated_pages - 1 :
          InPage(sorted[k], a) /\ a % SizeofRVALUE = 0
      BY <1>t, SlotHasPage
  <2>2. /\ sorted[k].start \in Nat /\ EndOf(sorted[k]) \in Nat
        /\ range[1] \in Nat /\ range[2] \in Nat
      BY <1>t, LayoutFacts DEF ProbeTypeOK
  <2>3. range[1] <= sorted[k].start /\ EndOf(sorted[k]) <= range[2]
      BY <1>t DEF InRange
  <2> QED BY <1>t, <2>1, <2>2, <2>3 DEF OutOfRange, InPage
<1> QED BY <1>2, <1>3, <1>4, <1>5 DEF IInv

\* What each round of the loop finds.
LEMMA MidFacts ==
    ASSUME IInv, Searching, probe.lo < probe.hi
    PROVE  /\ Mid \in 0 .. allocated_pages - 1
           /\ probe.lo <= Mid /\ Mid < probe.hi
           /\ sorted[Mid] \in Layouts
           /\ sorted[Mid].start \in Nat /\ EndOf(sorted[Mid]) \in Nat
           /\ probe.p \in Nat /\ probe.lo \in Nat /\ probe.hi \in Nat
<1>1. /\ probe.p \in Nat /\ probe.lo \in Nat /\ probe.hi \in Nat
      /\ allocated_pages \in Nat
    BY DEF IInv, ProbeTypeOK
<1>2. probe.hi <= allocated_pages
    BY DEF IInv, Located
<1>3. /\ Mid \in 0 .. allocated_pages - 1
      /\ probe.lo <= Mid /\ Mid < probe.hi
  <2>1. \A l, h \in Nat :
          l < h => LET m == (l + h) \div 2
                   IN  m \in Nat /\ l <= m /\ m < h
      OBVIOUS
  <2> QED BY <1>1, <1>2, <2>1 DEF Mid
<1>4. sorted[Mid] \in Layouts
    BY <1>3 DEF IInv, ProbeTypeOK
<1> QED BY <1>1, <1>3, <1>4, LayoutFacts

LEMMA FoundPageKeeps ==
    ASSUME IInv, FoundPage
    PROVE  IInv'
<1> DEFINE page == sorted[Mid]
<1>t. ProbeTypeOK /\ Ordered /\ InRange /\ Located
    BY DEF IInv
<1>1. /\ Searching /\ probe.lo < probe.hi
      /\ InPage(page, probe.p)
      /\ probe' = [probe EXCEPT !.state = "done", !.answer = InSlot(page)]
      /\ UNCHANGED <<sorted, allocated_pages, range, tomb>>
    BY DEF FoundPage, InPage, Answer, pages
<1>2. /\ Mid \in 0 .. allocated_pages - 1 /\ page \in Layouts
      /\ probe.p \in Nat
    BY <1>1, MidFacts
<1> HIDE DEF page
<1>3. InSlot(page) \in BOOLEAN
    BY DEF InSlot
<1>4. /\ probe'.p = probe.p /\ probe'.state = "done"
      /\ probe'.answer = InSlot(page)
    BY <1>t, <1>1 DEF ProbeTypeOK
<1>5. ProbeTypeOK'
    BY <1>t, <1>1, <1>3 DEF ProbeTypeOK
<1>6. Ordered' /\ InRange' /\ Located'
    BY <1>t, <1>1, <1>4 DEF Ordered, InRange, Located, Searching
<1>7. InSlot(page) <=> IsSlot(probe.p)
  <2>1. probe.p \in SlotsOf(page) <=> Aligned(page, probe.p)
      BY <1>t, <1>1, <1>2, LayoutFacts DEF Located
  <2>2. ASSUME InSlot(page) PROVE IsSlot(probe.p)
      BY <1>2, <2>1, <2>2 DEF InSlot, IsSlot, Pages, page
  <2>3. ASSUME IsSlot(probe.p) PROVE InSlot(page)
    <3>1. PICK k \in 0 .. allocated_pages - 1 :
            /\ InPage(sorted[k], probe.p) /\ probe.p \in SlotsOf(sorted[k])
            /\ sorted[k] \notin tomb
        BY <1>t, <1>2, <2>3, SlotHasPage
    <3>2. k = Mid
        BY <1>t, <1>1, <1>2, <3>1, OnePage DEF page
    <3> QED BY <2>1, <3>1, <3>2 DEF InSlot, page
  <2> QED BY <2>2, <2>3
<1>8. ProbeAnswers'
    BY <1>1, <1>4, <1>7 DEF ProbeAnswers, IsSlot, Pages
<1> QED BY <1>5, <1>6, <1>8 DEF IInv

LEMMA GoUpKeeps ==
    ASSUME IInv, GoUp
    PROVE  IInv'
<1>t. ProbeTypeOK /\ Ordered /\ InRange /\ Located
    BY DEF IInv
<1>1. /\ Searching /\ probe.lo < probe.hi
      /\ EndOf(sorted[Mid]) <= probe.p
      /\ probe' = [probe EXCEPT !.lo = Mid + 1]
      /\ UNCHANGED <<sorted, allocated_pages, range, tomb>>
    BY DEF GoUp, Above, pages
<1>2. /\ Mid \in 0 .. allocated_pages - 1 /\ Mid < probe.hi
      /\ probe.p \in Nat /\ probe.hi \in Nat /\ allocated_pages \in Nat
      /\ EndOf(sorted[Mid]) \in Nat /\ sorted[Mid].start \in Nat
      /\ sorted[Mid].start < EndOf(sorted[Mid])
    BY <1>t, <1>1, MidFacts, LayoutFacts DEF ProbeTypeOK
<1>3. /\ probe'.p = probe.p /\ probe'.hi = probe.hi
      /\ probe'.lo = Mid + 1 /\ probe'.state = probe.state
    BY <1>t, <1>1 DEF ProbeTypeOK
<1>4. ProbeTypeOK'
  <2>1. \A m \in Nat : [probe EXCEPT !.lo = m] \in Probes
      BY <1>t DEF ProbeTypeOK, Probes
  <2>2. Mid + 1 \in Nat
      BY <1>2
  <2>3. probe' \in Probes
      BY <1>1, <2>1, <2>2
  <2> QED BY <1>t, <1>1, <2>3 DEF ProbeTypeOK, Probes
<1>5. ASSUME NEW k \in 0 .. allocated_pages - 1, InPage(sorted[k], probe.p)
      PROVE  Mid + 1 <= k /\ k < probe.hi
  <2>1. k < probe.hi
      BY <1>t, <1>1, <1>5 DEF Located
  <2>2. CASE k < Mid
    <3>1. EndOf(sorted[k]) <= sorted[Mid].start
        BY <1>t, <1>2, <2>2 DEF Ordered
    <3>2. EndOf(sorted[k]) \in Nat
        BY <1>t, LayoutFacts DEF ProbeTypeOK
    <3> QED BY <1>1, <1>2, <1>5, <3>1, <3>2 DEF InPage
  <2>3. CASE k = Mid
      BY <1>1, <1>2, <1>5, <2>3 DEF InPage
  <2> QED BY <1>2, <2>1, <2>2, <2>3
<1>6. Located'
  <2>1. probe.p % SizeofRVALUE = 0 /\ probe.hi <= allocated_pages
      BY <1>t, <1>1 DEF Located
  <2>2. Mid + 1 <= probe.hi
      BY <1>2
  <2> QED BY <1>1, <1>3, <1>5, <2>1, <2>2 DEF Located
<1>7. Ordered' /\ InRange' /\ ProbeAnswers'
    BY <1>t, <1>1, <1>3 DEF Ordered, InRange, ProbeAnswers, Searching
<1> QED BY <1>4, <1>6, <1>7 DEF IInv

LEMMA GoDownKeeps ==
    ASSUME IInv, GoDown
    PROVE  IInv'
<1>t. ProbeTypeOK /\ Ordered /\ InRange /\ Located
    BY DEF IInv
<1>1. /\ Searching /\ probe.lo < probe.hi
      /\ probe.p < sorted[Mid].start
      /\ probe' = [probe EXCEPT !.hi = Mid]
      /\ UNCHANGED <<sorted, allocated_pages, range, tomb>>
    BY DEF GoDown, Below, pages
<1>2. /\ Mid \in 0 .. allocated_pages - 1 /\ probe.lo <= Mid
      /\ probe.p \in Nat /\ probe.lo \in Nat /\ allocated_pages \in Nat
      /\ EndOf(sorted[Mid]) \in Nat /\ sorted[Mid].start \in Nat
    BY <1>t, <1>1, MidFacts DEF ProbeTypeOK
<1>3. /\ probe'.p = probe.p /\ probe'.lo = probe.lo
      /\ probe'.hi = Mid /\ probe'.state = probe.state
    BY <1>t, <1>1 DEF ProbeTypeOK
<1>4. ProbeTypeOK'
  <2>1. \A m \in Nat : [probe EXCEPT !.hi = m] \in Probes
      BY <1>t DEF ProbeTypeOK, Probes
  <2>2. Mid \in Nat
      BY <1>2
  <2>3. probe' \in Probes
      BY <1>1, <2>1, <2>2
  <2> QED BY <1>t, <1>1, <2>3 DEF ProbeTypeOK, Probes
<1>5. ASSUME NEW k \in 0 .. allocated_pages - 1, InPage(sorted[k], probe.p)
      PROVE  probe.lo <= k /\ k < Mid
  <2>1. probe.lo <= k
      BY <1>t, <1>1, <1>5 DEF Located
  <2>2. /\ sorted[k].start \in Nat /\ EndOf(sorted[k]) \in Nat
        /\ sorted[k].start < EndOf(sorted[k])
        /\ sorted[Mid].start < EndOf(sorted[Mid])
      BY <1>t, <1>2, LayoutFacts DEF ProbeTypeOK
  <2>3. CASE Mid < k
    <3>1. EndOf(sorted[Mid]) <= sorted[k].start
        BY <1>t, <1>2, <2>3 DEF Ordered
    <3> QED BY <1>1, <1>2, <1>5, <2>2, <3>1 DEF InPage
  <2>4. CASE k = Mid
      BY <1>1, <1>2, <1>5, <2>4 DEF InPage
  <2> QED BY <1>2, <2>1, <2>3, <2>4
<1>6. Located'
  <2>1. probe.p % SizeofRVALUE = 0 /\ probe.lo <= Mid
      BY <1>t, <1>1, <1>2 DEF Located
  <2>2. Mid <= allocated_pages
      BY <1>2
  <2> QED BY <1>1, <1>3, <1>5, <2>1, <2>2 DEF Located
<1>7. Ordered' /\ InRange' /\ ProbeAnswers'
    BY <1>t, <1>1, <1>3 DEF Ordered, InRange, ProbeAnswers, Searching
<1> QED BY <1>4, <1>6, <1>7 DEF IInv

LEMMA NotFoundKeeps ==
    ASSUME IInv, NotFound
    PROVE  IInv'
<1>t. ProbeTypeOK /\ Ordered /\ InRange /\ Located
    BY DEF IInv
<1>1. /\ Searching /\ probe.hi <= probe.lo
      /\ probe' = [probe EXCEPT !.state = "done", !.answer = FALSE]
      /\ UNCHANGED <<sorted, allocated_pages, range, tomb>>
    BY DEF NotFound, Answer, pages
<1>2. /\ probe'.p = probe.p /\ probe'.state = "done" /\ ~probe'.answer
    BY <1>t, <1>1 DEF ProbeTypeOK
<1>3. ProbeTypeOK' /\ Ordered' /\ InRange' /\ Located'
    BY <1>t, <1>1, <1>2 DEF ProbeTypeOK, Ordered, InRange, Located, Searching
<1>4. ~IsSlot(probe.p)
  <2> SUFFICES ASSUME IsSlot(probe.p) PROVE FALSE
      OBVIOUS
  <2>1. probe.p \in Nat /\ probe.lo \in Nat /\ probe.hi \in Nat
      BY <1>t DEF ProbeTypeOK
  <2>2. PICK k \in 0 .. allocated_pages - 1 : InPage(sorted[k], probe.p)
      BY <1>t, <2>1, SlotHasPage
  <2>3. probe.lo <= k /\ k < probe.hi /\ k \in Int
      BY <1>t, <1>1, <2>2 DEF Located
  <2> QED BY <1>1, <2>1, <2>3
<1>5. ProbeAnswers'
    BY <1>1, <1>2, <1>4 DEF ProbeAnswers, IsSlot, Pages
<1> QED BY <1>3, <1>5 DEF IInv

-----------------------------------------------------------------------------
(* The steps of the VM                                                     *)

LEMMA AllocatePageKeeps ==
    ASSUME IInv, NEW page \in Layouts, AllocatePage(page),
           probe.state = "idle", UNCHANGED probe
    PROVE  IInv'
<1>t. ProbeTypeOK /\ Ordered /\ InRange
    BY DEF IInv
<1>1. PICK i \in 0 .. allocated_pages :
        /\ \A k \in 0 .. i - 1 : EndOf(sorted[k]) <= page.start
        /\ \A k \in i .. allocated_pages - 1 : EndOf(page) <= sorted[k].start
        /\ sorted' = InsertedAt(i, page)
    BY DEF AllocatePage
<1>2. allocated_pages' = allocated_pages + 1 /\ tomb' = tomb
    BY DEF AllocatePage
<1>3. /\ allocated_pages \in Nat /\ i \in Nat /\ i <= allocated_pages
      /\ page.start \in Nat /\ EndOf(page) \in Nat
      /\ page.start < EndOf(page)
    BY <1>t, LayoutFacts DEF ProbeTypeOK
<1>4. \A k \in 0 .. allocated_pages - 1 :
        /\ sorted[k] \in Layouts /\ sorted[k].start \in Nat
        /\ EndOf(sorted[k]) \in Nat
    BY <1>t, LayoutFacts DEF ProbeTypeOK
<1>5. \A k \in 0 .. allocated_pages :
        sorted'[k] = IF k < i THEN sorted[k]
                     ELSE IF k = i THEN page ELSE sorted[k - 1]
    BY <1>1 DEF InsertedAt
<1>6. sorted' \in [0 .. allocated_pages -> Layouts]
  <2>1. ASSUME NEW k \in 0 .. allocated_pages
        PROVE  sorted'[k] \in Layouts
    <3>1. CASE k < i
        BY <1>3, <1>4, <1>5, <3>1
    <3>2. CASE k = i
        BY <1>5, <3>2
    <3>3. CASE i < k
      <4>1. k - 1 \in 0 .. allocated_pages - 1
          BY <1>3, <3>3
      <4> QED BY <1>3, <1>4, <1>5, <3>3, <4>1
    <3> QED BY <1>3, <3>1, <3>2, <3>3
  <2> QED BY <1>1, <2>1 DEF InsertedAt
<1>7. /\ range' \in Nat \X Nat
      /\ range'[1] <= page.start /\ EndOf(page) <= range'[2]
      /\ allocated_pages # 0 =>
            range'[1] <= range[1] /\ range[2] <= range'[2]
      /\ range[1] \in Nat /\ range[2] \in Nat
    BY <1>t, <1>3 DEF AllocatePage, ProbeTypeOK
<1>8. ProbeTypeOK'
    BY <1>t, <1>2, <1>3, <1>6, <1>7 DEF ProbeTypeOK
<1>9. Ordered'
  <2> SUFFICES ASSUME NEW j \in 0 .. allocated_pages,
                      NEW k \in 0 .. allocated_pages, j < k
               PROVE  EndOf(sorted'[j]) <= sorted'[k].start
      BY <1>2, <1>3 DEF Ordered
  <2>1. CASE k < i
      BY <1>t, <1>3, <1>5, <2>1 DEF Ordered
  <2>2. CASE k = i
      BY <1>1, <1>3, <1>5, <2>2
  <2>3. CASE i < k /\ j = i
    <3>1. k - 1 \in i .. allocated_pages - 1
        BY <1>3, <2>3
    <3> QED BY <1>1, <1>3, <1>5, <2>3, <3>1
  <2>4. CASE i < j
    <3>1. j - 1 \in 0 .. allocated_pages - 1 /\ k - 1 \in 0 .. allocated_pages - 1
        BY <1>3, <2>4
    <3>2. EndOf(sorted[j - 1]) <= sorted[k - 1].start
        BY <1>t, <3>1 DEF Ordered
    <3> QED BY <1>3, <1>5, <2>4, <3>2
  <2>5. CASE j < i /\ i < k
    <3>1. j \in 0 .. i - 1 /\ k - 1 \in i .. allocated_pages - 1
        BY <1>3, <2>5
    <3>2. /\ EndOf(sorted[j]) <= page.start
          /\ EndOf(page) <= sorted[k - 1].start
        BY <1>1, <3>1
    <3>3. EndOf(sorted[j]) \in Nat /\ sorted[k - 1].start \in Nat
        BY <1>3, <1>4, <3>1
    <3>4. EndOf(sorted[j]) <= sorted[k - 1].start
        BY <1>3, <3>2, <3>3
    <3> QED BY <1>3, <1>5, <2>5, <3>4
  <2> QED BY <1>3, <2>1, <2>2, <2>3, <2>4, <2>5
<1>10. InRange'
  <2> SUFFICES ASSUME NEW k \in 0 .. allocated_pages
               PROVE  /\ range'[1] <= sorted'[k].start
                      /\ EndOf(sorted'[k]) <= range'[2]
      BY <1>2, <1>3 DEF InRange
  <2>1. CASE k = i
      BY <1>5, <1>7, <2>1
  <2>2. CASE k # i
    <3>1. PICK l \in 0 .. allocated_pages - 1 : sorted'[k] = sorted[l]
      <4>1. CASE k < i
          BY <1>3, <1>5, <4>1
      <4>2. CASE i < k
        <5>1. k - 1 \in 0 .. allocated_pages - 1
            BY <1>3, <4>2
        <5> QED BY <1>3, <1>5, <4>2, <5>1
      <4> QED BY <1>3, <2>2, <4>1, <4>2
    <3>2. range[1] <= sorted[l].start /\ EndOf(sorted[l]) <= range[2]
        BY <1>t DEF InRange
    <3>3. range'[1] \in Nat /\ range'[2] \in Nat /\ allocated_pages # 0
        BY <1>3, <1>7
    <3> QED BY <1>4, <1>7, <3>1, <3>2, <3>3
  <2> QED BY <2>1, <2>2
<1>11. Located' /\ ProbeAnswers'
    BY DEF Located, ProbeAnswers, Searching
<1> QED BY <1>8, <1>9, <1>10, <1>11 DEF IInv

LEMMA FreePageKeeps ==
    ASSUME IInv, NEW i \in 0 .. allocated_pages - 1, FreePage(i),
           probe.state = "idle", UNCHANGED probe
    PROVE  IInv'
<1>t. ProbeTypeOK /\ Ordered /\ InRange
    BY DEF IInv
<1>1. /\ sorted' = [k \in 0 .. allocated_pages - 2 |->
                      IF k < i THEN sorted[k] ELSE sorted[k + 1]]
      /\ allocated_pages' = allocated_pages - 1
      /\ tomb' = tomb \ {sorted[i]} /\ range' = range
    BY DEF FreePage
<1>2. allocated_pages \in Nat /\ i \in Nat /\ i < allocated_pages
    BY <1>t DEF ProbeTypeOK
<1> DEFINE Old(k) == IF k < i THEN k ELSE k + 1
<1>3. \A k \in 0 .. allocated_pages - 2 :
        Old(k) \in 0 .. allocated_pages - 1 /\ sorted'[k] = sorted[Old(k)]
    BY <1>1, <1>2
<1>4. \A j, k \in 0 .. allocated_pages - 2 : j < k => Old(j) < Old(k)
    BY <1>2
<1>5. allocated_pages' - 1 = allocated_pages - 2
    BY <1>1, <1>2
<1> HIDE DEF Old
<1>6. sorted' \in [0 .. allocated_pages - 2 -> Layouts]
  <2>1. \A k \in 0 .. allocated_pages - 2 : sorted'[k] \in Layouts
      BY <1>t, <1>3 DEF ProbeTypeOK
  <2> QED BY <1>1, <2>1
<1>7. ProbeTypeOK'
    BY <1>t, <1>1, <1>2, <1>5, <1>6 DEF ProbeTypeOK
<1>8. Ordered'
    BY <1>t, <1>3, <1>4, <1>5 DEF Ordered
<1>9. InRange'
    BY <1>t, <1>1, <1>3, <1>5 DEF InRange
<1>10. Located' /\ ProbeAnswers'
    BY DEF Located, ProbeAnswers, Searching
<1> QED BY <1>7, <1>8, <1>9, <1>10 DEF IInv

LEMMA ProbeStep == IInv /\ [ProbeNext]_probe_vars => IInv'
<1> SUFFICES ASSUME IInv, [ProbeNext]_probe_vars PROVE IInv'
    OBVIOUS
<1>1. CASE UNCHANGED probe_vars
    BY <1>1 DEF IInv, ProbeTypeOK, Ordered, InRange, Located, ProbeAnswers,
                Searching, IsSlot, Pages, probe_vars, pages
<1>2. ASSUME NEW a \in Addresses, Ask(a) PROVE IInv'
    BY <1>2, AskKeeps
<1>3. CASE SearchStep
    BY <1>3, FoundPageKeeps, GoUpKeeps, GoDownKeeps, NotFoundKeeps
    DEF SearchStep
<1>4. CASE Forget
  <2>1. probe' = Idle /\ UNCHANGED <<sorted, allocated_pages, range, tomb>>
      BY <1>4 DEF Forget, pages
  <2>2. probe'.state = "idle"
      BY <2>1 DEF Idle
  <2>3. ProbeTypeOK'
      BY <2>1 DEF IInv, ProbeTypeOK, Idle
  <2> QED BY <2>1, <2>2, <2>3
          DEF IInv, Ordered, InRange, Located, ProbeAnswers, Searching
<1>5. CASE ~Searching /\ probe.state = "idle" /\ VmStep /\ UNCHANGED probe
  <2>1. ASSUME NEW page \in Layouts, EnterTomb(page) \/ LeaveTomb(page)
        PROVE  IInv'
    <3>1. tomb' \subseteq Layouts /\ UNCHANGED <<sorted, allocated_pages, range>>
        BY <2>1 DEF EnterTomb, LeaveTomb, IInv, ProbeTypeOK
    <3> QED BY <1>5, <3>1
            DEF IInv, ProbeTypeOK, Ordered, InRange, Located, ProbeAnswers,
                Searching
  <2> QED BY <1>5, <2>1, AllocatePageKeeps, FreePageKeeps DEF VmStep
<1> QED BY <1>1, <1>2, <1>3, <1>4, <1>5 DEF ProbeNext

\* The inductive invariant of the search: the table is sorted and its pages
\* do not overlap, and a page of the address is between lo and hi.
THEOREM ProbeInvariant == ProbeSpec => []IInv
BY ProbeInitial, ProbeStep, PTL DEF ProbeSpec

\* Whatever pages Ruby has allocated, mpp_is_pointer_to_heap answers whether
\* the address is that of a slot in a page that is in use.
THEOREM ProbeIsRight == ProbeSpec => []ProbeAnswers
<1>1. IInv => ProbeAnswers
    BY DEF IInv
<1> QED BY <1>1, ProbeInvariant, PTL

\* The search never reads an entry that the table of pages does not have.
THEOREM ProbeStaysInTable == ProbeSpec => []ProbeInBounds
<1>1. IInv => ProbeInBounds
  <2> SUFFICES ASSUME IInv, Searching PROVE ProbeInBounds
      BY DEF ProbeInBounds
  <2>1. 0 <= probe.lo /\ probe.hi <= allocated_pages
      BY DEF IInv, ProbeTypeOK, Located
  <2> QED BY <2>1, MidFacts DEF ProbeInBounds
<1> QED BY <1>1, ProbeInvariant, PTL

=============================================================================
