------------------------- MODULE LoaderLayoutProofs -------------------------
(***************************************************************************)
(* Theorems about what Loader leaves in guest memory, for every size of    *)
(* the tables and of memory, all layouts of the files and every stack:     *)
(* create_stack maps what it was asked for or never ends; in a layout like *)
(* that of the lab the tables stay apart from everything else, and every   *)
(* section ends up where it was linked; and in any other one, which pages  *)
(* are mapped, and which sections go astray.                               *)
(***************************************************************************)
EXTENDS LoaderProofs

----------------------------------------------------------------------------
(* The invariants                                                          *)

Pages(mm) == {p \in Frames : Mapped(mm, p)}

(* The loop of create_stack has mapped k pages below the first one.        *)
StackSoFar(k) ==
    /\ stack.page = IF k < StackTop THEN StackTop - 1 - k ELSE AddrPages - 1
    /\ stack.size % 2 = 0 => 2 * k <= stack.size /\ stack.left = stack.size - 2 * k
    /\ stack.size % 2 # 0 => stack.left % 2 # 0
    /\ Pages(m) = StackTop - k..StackTop

LoopInv ==
    /\ stack.at = "top" => m = NewMemory /\ stack.left = stack.size
    /\ stack.at = "below" /\ ~m.broken => \E k \in 0..StackTop : StackSoFar(k)
    /\ stack.at = "mapped" => WholeStack /\ (at = <<1, 1>> => Pages(m) = StackFrames \cap Frames)
    /\ stack.at # "mapped" => at = <<1, 1>> /\ known = {} /\ data = [f \in Frames |-> {}]

(* The pages of the stack and of the files, and the sections that load_file*)
(* has copied.                                                             *)
GuestPages == FilePages \cup StackFrames
Passed     == {a \in SectionIds : a[1] < at[1] \/ (a[1] = at[1] /\ a[2] < at[2])}

MemoryGood == \E o : Packed(m, o, GuestPages)
PagesGood  == /\ Pages(m) \subseteq GuestPages /\ known \subseteq Pages(m)
              /\ stack.at = "mapped" => StackFrames \subseteq Pages(m)
KnownGood  == known = {Sec(a).addr.page : a \in Passed}

(* new_page is the page of the last section of this file.                  *)
NewPageGood == \A a \in Passed : a[1] = at[1] =>
                  /\ Sec(a).addr.page <= newPage
                  /\ \E b \in Passed : b[1] = at[1] /\ newPage = Sec(b).addr.page
DataGood    == /\ \A a \in Passed : \A p \in PagesOf(a) : \E d \in data[p] : d.section = a
               /\ \A f \in Frames : \A d \in data[f] : d.section \in Passed /\ f \in PagesOf(d.section)

LayoutParts == MemoryGood /\ PagesGood /\ KnownGood /\ NewPageGood /\ DataGood
LayoutInv   == GoodLayout => LayoutParts

(* In any layout: new_page is the page of the last section of this file    *)
(* that was new, or 0; the sections passed are where they were linked when *)
(* they are in step; and their first pages are mapped.                     *)
News       == {b \in Passed : b[1] = at[1] /\ Fresh(b)}
NewPageIs  == \/ News = {} /\ newPage = 0
              \/ \E b \in News : newPage = Sec(b).addr.page /\ \A c \in News : c[2] <= b[2]
CopiesAre  == /\ \A f \in Frames : \A d \in data[f] : d.section \in Passed
              /\ \A a \in Passed : InStep(a) <=>
                    \A p \in PagesOf(a) : p \in Frames /\ \E d \in data[p] : d.section = a
PagesAre   == stack.at = "mapped" =>
                 Pages(m) = Frames \cap (StackFrames \cup {Sec(a).addr.page : a \in Passed})

AnyInv     == /\ KnownGood
              /\ ~m.broken => NewPageIs /\ CopiesAre /\ PagesAre
              /\ m.broken => ~Done

----------------------------------------------------------------------------
(* The stack                                                               *)

(* What one page of create_stack adds to the pages that are mapped.        *)
LEMMA StackPageAdds ==
    ASSUME LInv, ~m.broken, NEW q \in 0..StackTop \cup {AddrPages - 1}, NEW D, NEW mm,
           mm = memory_map(m, At(q, {}), At(q, {}), D), ~mm.broken
    PROVE  q \in 0..StackTop /\ Pages(mm) = Pages(m) \cup {q}
<1> DEFINE a == At(q, {})
<1>1. q \in 0..StackTop /\ q \in Frames
  BY StackPageMapped, StackAssumption, MemoryAssumption DEF Frames
<1>2. IsMemory(m) /\ IsTree(m) /\ m.used \subseteq Frames
  BY DEF LInv, TypeOK, TreeInv
<1>3. a \in AnyAddress /\ a.page = q /\ q < NbPage /\ NbPage \in Nat /\ q \in Nat
  BY <1>1, SizesType DEF AnyAddress, At
<1> HIDE DEF a
<1>4. a.page >= NbPage => Reach(a.page) >= NbPage
  BY <1>3
<1>5. \A p \in 0..NbPage - 1 : Mapped(mm, p) <=> Mapped(m, p) \/ p = q
  <2>1. a = Null \/ a # Null
    OBVIOUS
  <2>2. mm = memory_map(m, a, a, D)
    BY DEF a
  <2> QED BY <1>2, <1>3, <1>4, <2>1, <2>2, MapTree
<1>6. Frames \subseteq 0..NbPage - 1
  BY SizesType
<1> QED BY <1>1, <1>5, <1>6 DEF Pages

LEMMA NothingMapped == \A p \in Frames : ~Mapped(NewMemory, p)
<1> SUFFICES ASSUME NEW p \in Frames PROVE ~Present(NewMemory, Root, Index(p, 4))
  BY DEF Mapped
<1>1. Index(p, 4) \in 0..Width - 1 /\ Root \in Frames
  BY IndexType, MemoryAssumption DEF Levels, Frames, Root
<1>2. NewMemory.tables[Root][Index(p, 4)] = Null
  BY <1>1 DEF NewMemory
<1> QED BY <1>2, NullType DEF Present

LEMMA LoopInvInit == Init => LoopInv
BY DEF Init, LoopInv

LEMMA LoopInvNext == LInv /\ LoopInv /\ [Next]_vars => LoopInv'
<1> SUFFICES ASSUME LInv, LoopInv, [Next]_vars PROVE LoopInv'
  OBVIOUS
<1>0. TypeOK /\ StackInv
  BY DEF LInv
<1>1. /\ stack.size \in Nat /\ stack.left \in 0..2 * AddrPages - 1
      /\ stack.at \in {"top", "below", "mapped"}
      /\ StackTop \in Nat /\ AddrPages \in Nat /\ StackTop < AddrPages - 1
  <2>1. StackTop \in Nat /\ AddrPages \in Nat /\ StackTop < AddrPages - 1
    BY SizesType, StackAssumption
  <2>2. /\ stack.size \in 0..2 * AddrPages - 1 /\ stack.left \in 0..2 * AddrPages - 1
        /\ stack.at \in {"top", "below", "mapped"}
    BY <1>0, StackAssumption DEF TypeOK
  <2> QED BY <2>1, <2>2
<1>2. CASE UNCHANGED vars
  BY <1>2 DEF vars, LoopInv, StackSoFar, WholeStack, StackFrames
<1>3. CASE MapStackTop
  <2>1. /\ stack.at = "top" /\ m = NewMemory /\ stack.left = stack.size
        /\ ~m.broken /\ stack.page = StackTop
        /\ m' = memory_map(m, At(StackTop, {}), At(StackTop, {}), Overwritten)
    BY <1>0, <1>3 DEF MapStackTop, LoopInv, StackInv
  <2>2. /\ stack'.at = "below" /\ stack'.page = (stack.page - 1) % AddrPages
        /\ stack'.size = stack.size /\ stack'.left = stack.left
    BY <1>0, <1>3 DEF MapStackTop, TypeOK
  <2>3. Pages(m) = {}
    BY <2>1, NothingMapped DEF Pages
  <2>4. StackTop \in 0..StackTop \cup {AddrPages - 1}
    BY <1>1
  <2>5. ~m'.broken => Pages(m') = {StackTop}
    BY <2>1, <2>3, <2>4, StackPageAdds
  <2>6. stack'.page = IF 0 < StackTop THEN StackTop - 1 - 0 ELSE AddrPages - 1
    BY <1>1, <2>1, <2>2
  <2>7. StackTop - 0..StackTop = {StackTop}
    BY <1>1
  <2>8. ~m'.broken => StackSoFar(0)'
    BY <1>1, <2>1, <2>2, <2>5, <2>6, <2>7 DEF StackSoFar
  <2>9. 0 \in 0..StackTop
    BY <1>1
  <2> QED BY <1>3, <2>1, <2>2, <2>8, <2>9 DEF LoopInv, MapStackTop
<1>4. CASE MapStackPage
  <2>1. /\ stack.at = "below" /\ stack.left # 0 /\ ~m.broken
        /\ m' = memory_map(m, At(stack.page, {}), At(stack.page, {}), Overwritten)
    BY <1>4 DEF MapStackPage
  <2>2. /\ stack'.at = "below" /\ stack'.page = (stack.page - 1) % AddrPages
        /\ stack'.size = stack.size /\ stack'.left = (stack.left - 2) % (2 * AddrPages)
    BY <1>0, <1>4, <2>1 DEF MapStackPage, TypeOK
  <2>3. PICK k \in 0..StackTop : StackSoFar(k)
    BY <2>1 DEF LoopInv
  <2>4. ASSUME ~m'.broken PROVE k + 1 \in 0..StackTop /\ StackSoFar(k + 1)'
    <3>1. stack.page \in 0..StackTop /\ Pages(m') = Pages(m) \cup {stack.page}
      <4>1. stack.page \in 0..StackTop \cup {AddrPages - 1}
        BY <1>0, <2>1 DEF StackInv
      <4> QED BY <2>1, <2>4, <4>1, StackPageAdds
    <3>2. k < StackTop /\ stack.page = StackTop - 1 - k
      BY <1>1, <2>3, <3>1 DEF StackSoFar
    <3>3. Pages(m') = StackTop - (k + 1)..StackTop
      BY <1>1, <2>3, <3>1, <3>2 DEF StackSoFar
    <3>4. stack'.page = IF k + 1 < StackTop THEN StackTop - 1 - (k + 1) ELSE AddrPages - 1
      <4>1. CASE k + 1 < StackTop
        <5>1. stack.page - 1 \in 0..AddrPages - 1
          BY <1>1, <3>2, <4>1
        <5> QED BY <1>1, <2>2, <3>2, <4>1, <5>1
      <4>2. CASE ~(k + 1 < StackTop)
        <5>1. stack.page = 0
          BY <1>1, <3>2, <4>2
        <5>2. (0 - 1) % AddrPages = AddrPages - 1
          BY <1>1
        <5> QED BY <2>2, <4>2, <5>1, <5>2
      <4> QED BY <4>1, <4>2
    <3>5. ASSUME stack.size % 2 = 0
          PROVE  2 * (k + 1) <= stack.size /\ stack'.left = stack.size - 2 * (k + 1)
      <4>1. 2 * k <= stack.size /\ stack.left = stack.size - 2 * k
        BY <2>3, <3>5 DEF StackSoFar
      <4>2. stack.left >= 2
        BY <1>1, <2>1, <3>5, <4>1
      <4>3. stack.left - 2 \in 0..2 * AddrPages - 1
        BY <1>1, <4>2
      <4>4. (stack.left - 2) % (2 * AddrPages) = stack.left - 2
        BY <1>1, <4>3
      <4> QED BY <1>1, <2>2, <4>1, <4>2, <4>4
    <3>6. ASSUME stack.size % 2 # 0 PROVE stack'.left % 2 # 0
      <4>1. stack.left % 2 # 0
        BY <2>3, <3>6 DEF StackSoFar
      <4>2. CASE stack.left = 1
        <5>1. (1 - 2) % (2 * AddrPages) = 2 * AddrPages - 1
          BY <1>1
        <5>2. (2 * AddrPages - 1) % 2 = 1
          BY <1>1
        <5> QED BY <2>2, <4>2, <5>1, <5>2
      <4>3. CASE stack.left # 1
        <5>1. stack.left - 2 \in 0..2 * AddrPages - 1
          BY <1>1, <2>1, <4>3
        <5>2. (stack.left - 2) % (2 * AddrPages) = stack.left - 2
          BY <1>1, <5>1
        <5>3. (stack.left - 2) % 2 # 0
          BY <1>1, <4>1
        <5> QED BY <2>2, <5>2, <5>3
      <4> QED BY <4>2, <4>3
    <3> QED BY <1>1, <2>2, <3>2, <3>3, <3>4, <3>5, <3>6 DEF StackSoFar
  <2> QED BY <1>4, <2>1, <2>2, <2>4 DEF LoopInv, MapStackPage
<1>5. CASE StackMapped
  <2>1. stack.at = "below" /\ stack.left = 0 /\ ~m.broken
    BY <1>5 DEF StackMapped
  <2>2. stack'.at = "mapped" /\ stack'.size = stack.size /\ m' = m /\ at' = at
    BY <1>0, <1>5 DEF StackMapped, TypeOK
  <2>3. PICK k \in 0..StackTop : StackSoFar(k)
    BY <2>1 DEF LoopInv
  <2>4. stack.size = 2 * k
    BY <1>1, <2>1, <2>3 DEF StackSoFar
  <2>5. stack.size % 2 = 0 /\ stack.size \div 2 = k
    BY <1>1, <2>4
  <2>6. WholeStack /\ StackFrames = StackTop - k..StackTop
    BY <1>1, <2>5 DEF WholeStack, StackFrames
  <2>7. Pages(m) = StackFrames \cap Frames
    BY <2>3, <2>6 DEF StackSoFar, Pages
  <2>8. WholeStack' /\ StackFrames' = StackFrames /\ Pages(m') = Pages(m)
    BY <2>2, <2>6 DEF WholeStack, StackFrames
  <2> QED BY <2>2, <2>7, <2>8 DEF LoopInv
<1>6. ASSUME stack.at = "mapped", stack' = stack, at' # <<1, 1>> PROVE LoopInv'
  BY <1>6 DEF LoopInv, WholeStack
<1>7. CASE SkipSection
  <2>1. at' # <<1, 1>>
    BY <1>0, <1>7 DEF SkipSection, TypeOK
  <2> QED BY <1>6, <1>7, <2>1 DEF SkipSection, Loading
<1>8. CASE LoadSection
  <2>1. at' # <<1, 1>>
    BY <1>0, <1>8 DEF LoadSection, TypeOK
  <2> QED BY <1>6, <1>8, <2>1 DEF LoadSection, Loading
<1>9. CASE NextFile
  <2>1. at' # <<1, 1>>
    BY <1>0, <1>9 DEF NextFile, TypeOK
  <2> QED BY <1>6, <1>9, <2>1 DEF NextFile, Loading
<1> QED BY <1>2, <1>3, <1>4, <1>5, <1>7, <1>8, <1>9 DEF Next

LEMMA LoopInvHolds == Spec => [](LInv /\ LoopInv)
<1>1. LInv /\ LoopInv /\ [Next]_vars => (LInv /\ LoopInv)'
  BY LInvNext, LoopInvNext
<1> QED BY <1>1, LInvInit, LoopInvInit, PTL DEF Spec

(* create_stack ends only when it has mapped all of the pages it was asked *)
(* for and no other, whatever the size of the stack is: a size that is not *)
(* a whole number of pages, or that goes below address 0, never ends well. *)
THEOREM StackTheorem == Spec => []StackIsWhole
<1>1. LoopInv => StackIsWhole
  BY DEF LoopInv, StackIsWhole, Pages
<1> QED BY <1>1, LoopInvHolds, PTL

----------------------------------------------------------------------------
(* A layout like that of the lab                                           *)

(* The layout is the same in every state.                                  *)
LEMMA SameLayout ==
    ASSUME files' = files, stack'.size = stack.size
    PROVE  /\ SectionIds' = SectionIds /\ \A a : Sec(a)' = Sec(a) /\ PagesOf(a)' = PagesOf(a)
           /\ FilePages' = FilePages /\ StackFrames' = StackFrames
           /\ GuestPages' = GuestPages /\ (GoodLayout' <=> GoodLayout)
<1>1. SectionIds' = SectionIds
  BY DEF SectionIds
<1>2. \A a : Sec(a)' = Sec(a) /\ PagesOf(a)' = PagesOf(a)
  BY DEF Sec, PagesOf
<1>3. FilePages' = FilePages
  BY <1>1, <1>2 DEF FilePages
<1>4. StackFrames' = StackFrames
  BY DEF StackFrames
<1>5. GuestPages' = GuestPages
  BY <1>3, <1>4 DEF GuestPages
<1>6. GoodLayout' <=> GoodLayout
  <2>1. GoodStack' <=> GoodStack
    BY DEF GoodStack, WholeStack
  <2>2. (Ordered' <=> Ordered) /\ (Apart' <=> Apart) /\ (Started' <=> Started)
    BY <1>1, <1>2 DEF Ordered, Apart, Started
  <2>3. (InMemory' <=> InMemory) /\ (OffStack' <=> OffStack)
    BY <1>3, <1>4 DEF InMemory, OffStack
  <2>4. OffTables' <=> OffTables
    BY <1>3, <1>4 DEF OffTables, TablesEnd
  <2> QED BY <2>1, <2>2, <2>3, <2>4 DEF GoodLayout
<1> QED BY <1>1, <1>2, <1>3, <1>4, <1>5, <1>6

LEMMA LayoutRoom == GoodLayout => Room(GuestPages) /\ GuestPages \subseteq Frames
BY DEF GoodLayout, InMemory, OffTables, TablesEnd, GuestPages, Room, Groups

(* The sections that are loaded, and the pages they touch.                 *)
LEMMA SectionType ==
    ASSUME files \in Layouts, NEW a \in SectionIds
    PROVE  /\ a = <<a[1], a[2]>> /\ a[1] \in 1..Len(files) /\ a[2] \in 1..Len(files[a[1]])
           /\ Sec(a) \in Sections /\ Loaded(Sec(a))
           /\ Sec(a).addr.page \in PagesOf(a) /\ PagesOf(a) \subseteq FilePages
<1>1. files \in Seq(Seq(Sections))
  BY LayoutsAssumption
<1>2. PICK i \in DOMAIN files : \E t \in DOMAIN files[i] : a = <<i, t>> /\ Loaded(files[i][t])
  BY DEF SectionIds
<1> PICK t \in DOMAIN files[i] : a = <<i, t>> /\ Loaded(files[i][t])
  BY <1>2
<1>3. i \in 1..Len(files) /\ files[i] \in Seq(Sections)
  BY <1>1, <1>2
<1>4. t \in 1..Len(files[i]) /\ files[i][t] \in Sections
  BY <1>3
<1>5. a[1] = i /\ a[2] = t /\ Sec(a) = files[i][t]
  BY DEF Sec
<1>6. Sec(a).addr.page \in Nat /\ Sec(a).span \in Nat \ {0}
  BY <1>4, <1>5, MemoryAssumption DEF Sections, Addresses
<1>7. Sec(a).addr.page \in PagesOf(a)
  BY <1>6 DEF PagesOf
<1>8. PagesOf(a) \subseteq FilePages
  BY DEF FilePages
<1> QED BY <1>2, <1>3, <1>4, <1>5, <1>7, <1>8

(* Claiming the page of a section, when there is room for its tables.      *)
LEMMA PackedClaim ==
    ASSUME NEW mm, NEW o, NEW P, Packed(mm, o, P), Room(P), Overwritten \subseteq P,
           NEW a \in Addresses, a.page \in P
    PROVE  LET r == ClaimPage(mm, a)
           IN  /\ \E q : Packed(r, q, P)
               /\ \A p \in 0..NbPage - 1 : Mapped(r, p) <=> Mapped(mm, p) \/ p = a.page
<1> DEFINE page == At(a.page, {})
           m0   == invalidate_page(mm, a.page)
           m1   == memory_map(m0, a, a, Overwritten)
           m2   == invalidate_page(m1, a.page)
           m3   == memory_map(m2, a, page, Overwritten)
<1>1. ClaimPage(mm, a) = m3
  BY DEF ClaimPage
<1>2. page \in Addresses /\ page.page = a.page /\ P \subseteq Frames
  BY DEF At, Addresses, Room
<1> HIDE DEF page
<1>3. Packed(m0, o, P) /\ m0.tables = mm.tables
  BY <1>2, PackedMarked
<1> HIDE DEF m0
<1>4. /\ \E q : Packed(m1, q, P)
      /\ \A p \in 0..NbPage - 1 : Mapped(m1, p) <=> Mapped(m0, p) \/ p = a.page
  BY <1>3, PackedMap
<1> HIDE DEF m1
<1>5. PICK o1 : Packed(m1, o1, P)
  BY <1>4
<1>6. Packed(m2, o1, P) /\ m2.tables = m1.tables
  BY <1>2, <1>5, PackedMarked
<1> HIDE DEF m2
<1>7. /\ \E q : Packed(m3, q, P)
      /\ \A p \in 0..NbPage - 1 : Mapped(m3, p) <=> Mapped(m2, p) \/ p = a.page
  BY <1>2, <1>6, PackedMap
<1> HIDE DEF m3
<1>8. \A p \in 0..NbPage - 1 : Mapped(m3, p) <=> Mapped(mm, p) \/ p = a.page
  BY <1>3, <1>4, <1>6, <1>7, MappedTables
<1> QED BY <1>1, <1>7, <1>8

(* A page of the stack or of a section that is mapped.                     *)
LEMMA PagesAdded ==
    ASSUME NEW mm, NEW r, NEW q \in Frames,
           \A p \in 0..NbPage - 1 : Mapped(r, p) <=> Mapped(mm, p) \/ p = q
    PROVE  Pages(r) = Pages(mm) \cup {q}
BY SizesType DEF Pages

----------------------------------------------------------------------------
(* The layout invariant                                                    *)

LEMMA LayoutInvInit == Init => LayoutInv
<1> SUFFICES ASSUME Init, GoodLayout
             PROVE  MemoryGood /\ PagesGood /\ KnownGood /\ NewPageGood /\ DataGood
  BY DEF LayoutInv, LayoutParts
<1>1. m = NewMemory /\ data = [f \in Frames |-> {}] /\ known = {} /\ at = <<1, 1>>
      /\ files \in Layouts /\ stack.at = "top"
  BY DEF Init
<1>2. Passed = {}
  BY <1>1, SectionType DEF Passed
<1>3. MemoryGood
  BY <1>1, PackedNew DEF MemoryGood
<1>4. Pages(m) = {}
  BY <1>1, NothingMapped DEF Pages
<1> QED BY <1>1, <1>2, <1>3, <1>4 DEF PagesGood, KnownGood, NewPageGood, DataGood

(* A page of create_stack.                                                 *)
LEMMA LayoutInvStack ==
    ASSUME GoodLayout, MemoryGood, NEW q \in StackFrames, Overwritten = {}, q # AddrPages - 1,
           m' = memory_map(m, At(q, {}), At(q, {}), Overwritten), GuestPages' = GuestPages
    PROVE  MemoryGood' /\ Pages(m)' = Pages(m) \cup {q}
<1>1. PICK o : Packed(m, o, GuestPages)
  BY DEF MemoryGood
<1>2. q \in GuestPages /\ q \in Frames /\ Room(GuestPages)
  BY LayoutRoom DEF GuestPages
<1> DEFINE a == At(q, {})
<1>3. a \in Addresses /\ a.page = q
  BY <1>2, SizesType DEF At, Addresses
<1> HIDE DEF a
<1>4. m' = memory_map(m, a, a, Overwritten) /\ Overwritten \subseteq GuestPages
  BY DEF a
<1>5. /\ \E x : Packed(m', x, GuestPages)
      /\ \A p \in 0..NbPage - 1 : Mapped(m', p) <=> Mapped(m, p) \/ p = q
  BY <1>1, <1>2, <1>3, <1>4, PackedMap
<1>6. Pages(m') = Pages(m) \cup {q}
  BY <1>2, <1>5, PagesAdded
<1> QED BY <1>5, <1>6 DEF MemoryGood, Pages

(* Nothing moves but the place in the layout, past what is not loaded.     *)
LEMMA LayoutInvPassed ==
    ASSUME GoodLayout, LayoutParts, files' = files, UNCHANGED <<m, data, known>>,
           stack'.size = stack.size, stack'.at = "mapped" => StackFrames \subseteq Pages(m),
           Passed' = Passed, NewPageGood'
    PROVE  LayoutParts'
<1>1. /\ \A a : Sec(a)' = Sec(a) /\ PagesOf(a)' = PagesOf(a)
      /\ StackFrames' = StackFrames /\ GuestPages' = GuestPages
  BY SameLayout
<1>2. MemoryGood'
  BY <1>1 DEF LayoutParts, MemoryGood
<1>3. PagesGood'
  <2>1. Pages(m)' = Pages(m)
    BY DEF Pages
  <2> QED BY <1>1, <2>1 DEF LayoutParts, PagesGood
<1>4. KnownGood'
  BY <1>1 DEF LayoutParts, KnownGood
<1>5. DataGood'
  BY <1>1 DEF LayoutParts, DataGood
<1> QED BY <1>2, <1>3, <1>4, <1>5 DEF LayoutParts

(* Where load_file is, when the section there is loaded.                   *)
LEMMA SectionAt ==
    ASSUME LInv, Loading, at[2] <= Len(files[at[1]]), Loaded(Section)
    PROVE  at \in SectionIds /\ Sec(at) = Section
<1>1. files \in Seq(Seq(Sections)) /\ at = <<at[1], at[2]>> /\ at[1] \in Nat \ {0}
      /\ at[2] \in Nat \ {0}
  BY LayoutsAssumption DEF LInv, TypeOK
<1>2. at[1] \in DOMAIN files /\ files[at[1]] \in Seq(Sections)
  BY <1>1 DEF Loading
<1>3. at[2] \in DOMAIN files[at[1]]
  BY <1>1, <1>2
<1> QED BY <1>1, <1>2, <1>3 DEF SectionIds, Sec, Section

(* The sections that are passed: those before the place in the layout.     *)
LEMMA PassedSkip == LInv /\ SkipSection => Passed' = Passed
<1> SUFFICES ASSUME LInv, SkipSection PROVE Passed' = Passed
  OBVIOUS
<1>1. /\ ~Loaded(Section) /\ at' = <<at[1], at[2] + 1>> /\ files' = files /\ stack' = stack
  BY DEF SkipSection
<1>2. at[1] \in Nat /\ at[2] \in Nat /\ at'[1] = at[1] /\ at'[2] = at[2] + 1
  BY <1>1 DEF LInv, TypeOK
<1>3. ASSUME NEW a \in SectionIds
      PROVE  a[1] = at[1] /\ a[2] < at[2] + 1 <=> a[1] = at[1] /\ a[2] < at[2]
  <2>1. a[1] \in Nat /\ a[2] \in Nat /\ Loaded(Sec(a))
    BY SectionType DEF LInv
  <2>2. ~(a[1] = at[1] /\ a[2] = at[2])
    BY <1>1, <2>1 DEF Section, Sec
  <2> QED BY <1>2, <2>1, <2>2
<1> QED BY <1>1, <1>2, <1>3, SameLayout DEF Passed

LEMMA PassedLoad ==
    ASSUME LInv, LoadSection
    PROVE  at \in SectionIds /\ Sec(at) = Section /\ at \notin Passed /\ Passed' = Passed \cup {at}
<1>1. /\ Loading /\ at[2] <= Len(files[at[1]]) /\ Loaded(Section) /\ files \in Layouts
      /\ files' = files /\ stack' = stack /\ at' = <<at[1], at[2] + 1>>
  BY DEF LoadSection, LInv
<1>2. at \in SectionIds /\ Sec(at) = Section
  BY <1>1, SectionAt
<1>3. at = <<at[1], at[2]>> /\ at[1] \in Nat /\ at[2] \in Nat
  BY <1>1, <1>2, SectionType
<1>4. at'[1] = at[1] /\ at'[2] = at[2] + 1
  BY <1>1
<1>5. ASSUME NEW a \in SectionIds
      PROVE  a[1] < at[1] \/ (a[1] = at[1] /\ a[2] < at[2] + 1)
                <=> a[1] < at[1] \/ (a[1] = at[1] /\ a[2] < at[2]) \/ a = at
  <2>1. a = <<a[1], a[2]>> /\ a[1] \in Nat /\ a[2] \in Nat
    BY <1>1, SectionType
  <2> QED BY <1>3, <2>1
<1>6. at \notin Passed
  BY <1>3 DEF Passed
<1> QED BY <1>1, <1>2, <1>4, <1>5, <1>6, SameLayout DEF Passed

LEMMA PassedNext == LInv /\ NextFile => Passed' = Passed /\ \A a \in Passed : a[1] # at'[1]
<1> SUFFICES ASSUME LInv, NextFile PROVE Passed' = Passed /\ \A a \in Passed : a[1] # at'[1]
  OBVIOUS
<1>1. /\ at[2] > Len(files[at[1]]) /\ at' = <<at[1] + 1, 1>> /\ files' = files /\ stack' = stack
  BY DEF NextFile
<1>2. at[1] \in Nat /\ at[2] \in Nat /\ at'[1] = at[1] + 1 /\ at'[2] = 1
  BY <1>1 DEF LInv, TypeOK
<1>3. ASSUME NEW a \in SectionIds
      PROVE  a[1] < at[1] + 1 \/ (a[1] = at[1] + 1 /\ a[2] < 1)
                <=> a[1] < at[1] \/ (a[1] = at[1] /\ a[2] < at[2])
  <2>1. a[1] \in Nat /\ a[2] \in Nat /\ a[2] >= 1 /\ a[2] \in 1..Len(files[a[1]])
    BY SectionType DEF LInv
  <2>2. a[1] = at[1] => a[2] < at[2]
    BY <1>1, <1>2, <2>1
  <2> QED BY <1>2, <2>1, <2>2
<1>4. Passed' = Passed
  BY <1>1, <1>2, <1>3, SameLayout DEF Passed
<1>5. \A a \in Passed : a[1] # at'[1]
  BY <1>2, SectionType DEF Passed, LInv
<1> QED BY <1>4, <1>5

LEMMA AllPassed ==
    ASSUME LInv, Done PROVE Passed = SectionIds
<1>1. ASSUME NEW a \in SectionIds PROVE a[1] < at[1]
  <2>1. a[1] \in 1..Len(files) /\ at[1] > Len(files) /\ at[1] \in Nat
    BY SectionType DEF Done, LInv, TypeOK
  <2>2. Len(files) \in Nat
    BY LayoutsAssumption DEF LInv
  <2> QED BY <2>1, <2>2
<1> QED BY <1>1 DEF Passed

(* A section is copied to its own page: when another one started there, it *)
(* is the last section of this file that was loaded.                       *)
LEMMA OwnPage ==
    ASSUME LInv, GoodLayout, LayoutParts, at \in SectionIds, Sec(at).addr.page \in known
    PROVE  newPage = Sec(at).addr.page
<1> DEFINE p == Sec(at).addr.page
<1>1. files \in Layouts
  BY DEF LInv
<1>2. PICK b \in Passed : p = Sec(b).addr.page
  BY DEF LayoutParts, KnownGood
<1>3. b \in SectionIds /\ p \in PagesOf(b) /\ p \in PagesOf(at)
  BY <1>1, <1>2, SectionType DEF Passed
<1>4. b[1] = at[1]
  BY <1>3 DEF GoodLayout, Apart
<1>5. /\ p <= newPage
      /\ \E c \in Passed : c[1] = at[1] /\ newPage = Sec(c).addr.page
  BY <1>2, <1>4 DEF LayoutParts, NewPageGood
<1>6. PICK c \in Passed : c[1] = at[1] /\ newPage = Sec(c).addr.page
  BY <1>5
<1>7. c \in SectionIds /\ c[2] < at[2]
  BY <1>1, <1>6, SectionType DEF Passed
<1>8. Sec(c).addr.page <= p
  BY <1>6, <1>7 DEF GoodLayout, Ordered
<1>9. newPage \in Int /\ p \in Int
  <2>1. Sec(at).addr \in Addresses
    BY <1>1, SectionType DEF Sections
  <2> QED BY <2>1, MemoryAssumption DEF LInv, TypeOK, Addresses
<1> QED BY <1>5, <1>6, <1>8, <1>9

(* A section is loaded.                                                    *)
LEMMA LayoutInvLoad ==
    ASSUME LInv, LoopInv, GoodLayout, LayoutParts, LoadSection
    PROVE  LayoutParts'
<1> DEFINE p == Section.addr.page
<1>1. /\ Loading /\ at[2] <= Len(files[at[1]]) /\ Loaded(Section) /\ files \in Layouts
      /\ files' = files /\ stack' = stack /\ at' = <<at[1], at[2] + 1>> /\ known' = known \cup {p}
  BY DEF LoadSection, LInv
<1>2. at \in SectionIds /\ Sec(at) = Section
  BY <1>1, SectionAt
<1>3. /\ SectionIds' = SectionIds /\ \A a : Sec(a)' = Sec(a) /\ PagesOf(a)' = PagesOf(a)
      /\ StackFrames' = StackFrames /\ GuestPages' = GuestPages
  BY <1>1, SameLayout
<1>4. /\ at = <<at[1], at[2]>> /\ at[1] \in Nat /\ at[2] \in Nat
      /\ Section \in Sections /\ p \in PagesOf(at) /\ PagesOf(at) \subseteq FilePages
  BY <1>1, <1>2, SectionType
<1>5. Passed' = Passed \cup {at}
  BY PassedLoad
<1>6. /\ Room(GuestPages) /\ GuestPages \subseteq Frames /\ p \in GuestPages /\ p \in Frames
      /\ PagesOf(at) \subseteq Frames
  BY <1>4, LayoutRoom DEF GuestPages
<1>7. Overwritten \subseteq GuestPages
  <2> SUFFICES ASSUME NEW f \in Frames, NEW d \in data[f] PROVE f \in FilePages
    BY DEF Overwritten, GuestPages
  <2>1. d.section \in SectionIds /\ f \in PagesOf(d.section)
    BY DEF LayoutParts, DataGood, Passed
  <2> QED BY <1>1, <2>1, SectionType
<1> DEFINE fresh == p \notin known
           page  == IF fresh THEN p ELSE newPage
           m1    == IF fresh THEN ClaimPage(m, Section.addr) ELSE m
<1>8. page = p
  BY <1>2, OwnPage
<1>9. PagesOf(at) = page..page + Section.span - 1
  BY <1>2, <1>8 DEF PagesOf
<1>10. p \in Nat /\ Section.span \in Nat \ {0} /\ Section.addr \in Addresses
  BY <1>4, MemoryAssumption DEF Sections, Addresses
<1>11. ~(page + Section.span > NbFrames)
  <2>1. page + Section.span - 1 \in PagesOf(at)
    BY <1>8, <1>9, <1>10
  <2> QED BY <1>6, <1>8, <1>10, <2>1, MemoryAssumption DEF Frames
<1>12. m' = m1 /\ newPage' = page /\ data' = Copied(data, page, Section)
  BY <1>11 DEF LoadSection
<1>13. MemoryGood' /\ Pages(m)' = Pages(m) \cup {p}
  <2>1. PICK o : Packed(m, o, GuestPages)
    BY DEF LayoutParts, MemoryGood
  <2>2. CASE fresh
    <3>1. /\ \E q : Packed(m', q, GuestPages)
          /\ \A x \in 0..NbPage - 1 : Mapped(m', x) <=> Mapped(m, x) \/ x = p
      BY <1>6, <1>7, <1>10, <1>12, <2>1, <2>2, PackedClaim
    <3>2. Pages(m') = Pages(m) \cup {p}
      BY <1>6, <3>1, PagesAdded
    <3> QED BY <1>3, <3>1, <3>2 DEF MemoryGood, Pages
  <2>3. CASE ~fresh
    <3>1. m' = m /\ p \in Pages(m)
      BY <1>12, <2>3 DEF LayoutParts, PagesGood
    <3> QED BY <1>3, <2>1, <3>1 DEF MemoryGood, Pages
  <2> QED BY <2>2, <2>3
<1> HIDE DEF fresh, page, m1, p
<1>14. PagesGood'
  BY <1>1, <1>3, <1>6, <1>13 DEF LayoutParts, PagesGood
<1>15. KnownGood'
  BY <1>1, <1>2, <1>3, <1>5 DEF LayoutParts, KnownGood, p
<1>16. NewPageGood'
  <2>1. ASSUME NEW b \in Passed', b[1] = at[1] PROVE Sec(b).addr.page <= p
    <3>1. CASE b = at
      BY <1>2, <1>10, <3>1 DEF p
    <3>2. CASE b # at
      <4>1. b \in SectionIds /\ b \in Passed
        BY <1>5, <3>2 DEF Passed
      <4>2. b[2] < at[2]
        BY <1>4, <2>1, <4>1 DEF Passed
      <4> QED BY <1>2, <2>1, <4>1, <4>2 DEF GoodLayout, Ordered, p
    <3> QED BY <3>1, <3>2
  <2>2. at \in Passed' /\ newPage' = Sec(at).addr.page /\ at'[1] = at[1]
    BY <1>1, <1>2, <1>5, <1>8, <1>12 DEF p
  <2>3. p = Sec(at).addr.page
    BY <1>2 DEF p
  <2> QED BY <1>3, <2>1, <2>2, <2>3 DEF NewPageGood
<1>17. DataGood'
  <2> DEFINE new == [section |-> at, with |-> IF IsBss(Section.type) THEN "zeros" ELSE "bytes"]
  <2>1. \A f \in Frames : data'[f] = IF f \in PagesOf(at) THEN data[f] \cup {new} ELSE data[f]
    BY <1>9, <1>12 DEF Copied
  <2>2. new.section = at
    OBVIOUS
  <2> HIDE DEF new
  <2>3. ASSUME NEW a \in Passed', NEW x \in PagesOf(a) PROVE \E d \in data'[x] : d.section = a
    <3>1. CASE a = at
      BY <1>6, <2>1, <2>2, <2>3, <3>1
    <3>2. CASE a # at
      <4>1. a \in Passed /\ x \in Frames
        <5>1. a \in Passed /\ a \in SectionIds
          BY <1>5, <3>2 DEF Passed
        <5>2. x \in FilePages
          BY <1>1, <2>3, <5>1, SectionType
        <5> QED BY <1>6, <5>1, <5>2 DEF GuestPages
      <4>2. \E d \in data[x] : d.section = a
        BY <2>3, <4>1 DEF LayoutParts, DataGood
      <4> QED BY <2>1, <4>1, <4>2
    <3> QED BY <3>1, <3>2
  <2>4. ASSUME NEW f \in Frames, NEW d \in data'[f]
        PROVE  d.section \in Passed' /\ f \in PagesOf(d.section)
    <3>1. CASE d \in data[f]
      BY <1>5, <3>1 DEF LayoutParts, DataGood
    <3>2. CASE d \notin data[f]
      BY <1>5, <2>1, <2>2, <2>4, <3>2
    <3> QED BY <3>1, <3>2
  <2> QED BY <1>3, <2>3, <2>4 DEF DataGood
<1> QED BY <1>13, <1>14, <1>15, <1>16, <1>17 DEF LayoutParts

LEMMA LayoutInvNext == LInv /\ LoopInv /\ LayoutInv /\ [Next]_vars => LayoutInv'
<1> SUFFICES ASSUME LInv, LoopInv, LayoutInv, [Next]_vars, GoodLayout' PROVE LayoutParts'
  BY DEF LayoutInv
<1>0. TypeOK /\ StackInv /\ files \in Layouts
  BY DEF LInv
<1>1. files' = files /\ stack'.size = stack.size
  BY <1>0 DEF Next, vars, MapStackTop, MapStackPage, StackMapped, SkipSection, LoadSection,
              NextFile, TypeOK
<1>2. /\ GoodLayout /\ SectionIds' = SectionIds
      /\ \A a : Sec(a)' = Sec(a) /\ PagesOf(a)' = PagesOf(a)
      /\ StackFrames' = StackFrames /\ GuestPages' = GuestPages
  BY <1>1, SameLayout
<1>3. LayoutParts
  BY <1>2 DEF LayoutInv
<1>4. /\ stack.size \in Nat /\ stack.size % 2 = 0 /\ stack.size \div 2 < StackTop
      /\ StackTop \in Nat /\ StackTop < AddrPages - 1 /\ AddrPages \in Nat
  <2>1. StackTop \in Nat /\ AddrPages \in Nat /\ StackTop < AddrPages - 1
    BY StackAssumption, SizesType
  <2>3. stack.size \in 0..2 * AddrPages - 1
    BY <1>0, StackAssumption DEF TypeOK
  <2>2. stack.size % 2 = 0 /\ stack.size \div 2 <= StackTop /\ stack.size \div 2 # StackTop
    BY <1>2 DEF GoodLayout, GoodStack, WholeStack
  <2> QED BY <2>1, <2>2, <2>3
(* create_stack: nothing is copied yet, and a page of the stack is mapped. *)
<1>5. ASSUME NEW q \in StackFrames, stack.at # "mapped", stack'.at # "mapped", q < AddrPages - 1,
             UNCHANGED <<data, known, newPage, at>>,
             m' = memory_map(m, At(q, {}), At(q, {}), Overwritten)
      PROVE  LayoutParts'
  <2>1. Overwritten = {} /\ known = {}
    BY <1>5 DEF LoopInv, Overwritten
  <2>2. MemoryGood' /\ Pages(m)' = Pages(m) \cup {q}
    <3>1. q # AddrPages - 1
      BY <1>4, <1>5 DEF StackFrames
    <3> QED BY <1>2, <1>3, <1>5, <2>1, <3>1, LayoutInvStack DEF LayoutParts
  <2>3. PagesGood'
    BY <1>2, <1>3, <1>5, <2>1, <2>2 DEF LayoutParts, PagesGood, GuestPages
  <2>4. Passed' = Passed
    BY <1>2, <1>5 DEF Passed
  <2>5. KnownGood' /\ NewPageGood' /\ DataGood'
    BY <1>2, <1>3, <1>5, <2>4 DEF LayoutParts, KnownGood, NewPageGood, DataGood
  <2> QED BY <2>2, <2>3, <2>5 DEF LayoutParts
<1>6. CASE MapStackTop
  <2>1. StackTop \in StackFrames /\ StackTop < AddrPages - 1
    BY <1>4 DEF StackFrames
  <2>2. stack.at = "top" /\ stack'.at = "below"
    BY <1>0, <1>6 DEF MapStackTop, TypeOK
  <2> QED BY <1>5, <1>6, <2>1, <2>2 DEF MapStackTop
<1>7. CASE MapStackPage
  <2>1. stack.at = "below" /\ stack'.at = "below" /\ stack.left # 0 /\ ~m.broken
    BY <1>0, <1>7 DEF MapStackPage, TypeOK
  <2>2. PICK k \in 0..StackTop : StackSoFar(k)
    BY <2>1 DEF LoopInv
  <2>3. 2 * k < stack.size
    BY <1>4, <2>1, <2>2 DEF StackSoFar
  <2>4. k < stack.size \div 2
    BY <1>4, <2>3
  <2>5. stack.page = StackTop - 1 - k
    BY <1>4, <2>2, <2>4 DEF StackSoFar
  <2>6. stack.page \in StackFrames /\ stack.page < AddrPages - 1
    BY <1>4, <2>4, <2>5 DEF StackFrames
  <2> QED BY <1>5, <1>7, <2>1, <2>6 DEF MapStackPage
<1>8. CASE StackMapped
  <2>1. stack.at = "below" /\ stack.left = 0 /\ ~m.broken
    BY <1>8 DEF StackMapped
  <2>2. PICK k \in 0..StackTop : StackSoFar(k)
    BY <2>1 DEF LoopInv
  <2>3. k = stack.size \div 2
    BY <1>4, <2>1, <2>2 DEF StackSoFar
  <2>4. StackFrames \subseteq Pages(m)
    BY <2>2, <2>3 DEF StackSoFar, StackFrames
  <2>5. Passed' = Passed
    BY <1>2, <1>8 DEF Passed, StackMapped
  <2>6. NewPageGood'
    BY <1>2, <1>3, <1>8, <2>5 DEF LayoutParts, NewPageGood, StackMapped
  <2> QED BY <1>1, <1>2, <1>3, <1>8, <2>4, <2>5, <2>6, LayoutInvPassed DEF StackMapped
<1>9. CASE UNCHANGED vars
  <2>1. Passed' = Passed
    BY <1>2, <1>9 DEF Passed, vars
  <2>2. NewPageGood'
    BY <1>2, <1>3, <1>9, <2>1 DEF LayoutParts, NewPageGood, vars
  <2>3. stack'.at = "mapped" => StackFrames \subseteq Pages(m)
    BY <1>3, <1>9 DEF LayoutParts, PagesGood, vars
  <2> QED BY <1>1, <1>2, <1>3, <1>9, <2>1, <2>2, <2>3, LayoutInvPassed DEF vars
<1>10. CASE SkipSection
  <2>1. /\ stack.at = "mapped" /\ at[1] <= Len(files) /\ ~Loaded(Section)
        /\ at' = <<at[1], at[2] + 1>>
        /\ UNCHANGED <<files, m, data, known, newPage, stack>>
    BY <1>10 DEF SkipSection, Loading
  <2>2. at[1] \in Nat /\ at[2] \in Nat /\ at'[1] = at[1] /\ at'[2] = at[2] + 1
    BY <1>0, <2>1 DEF TypeOK
  <2>4. Passed' = Passed
    BY <1>10, PassedSkip
  <2>5. NewPageGood'
    BY <1>2, <1>3, <2>1, <2>2, <2>4 DEF LayoutParts, NewPageGood
  <2>6. StackFrames \subseteq Pages(m)
    BY <1>3, <2>1 DEF LayoutParts, PagesGood
  <2> QED BY <1>1, <1>2, <1>3, <2>1, <2>4, <2>5, <2>6, LayoutInvPassed
<1>11. CASE LoadSection
  BY <1>2, <1>3, <1>11, LayoutInvLoad
<1>12. CASE NextFile
  <2>1. /\ stack.at = "mapped" /\ at[1] <= Len(files) /\ at[2] > Len(files[at[1]])
        /\ at' = <<at[1] + 1, 1>> /\ UNCHANGED <<files, m, data, known, stack>>
    BY <1>12 DEF NextFile, Loading
  <2>2. at[1] \in Nat /\ at[2] \in Nat /\ at'[1] = at[1] + 1 /\ at'[2] = 1
    BY <1>0, <2>1 DEF TypeOK
  <2>4. Passed' = Passed /\ \A a \in Passed : a[1] # at'[1]
    BY <1>12, PassedNext
  <2>6. NewPageGood'
    BY <2>4 DEF NewPageGood
  <2>7. StackFrames \subseteq Pages(m)
    BY <1>3, <2>1 DEF LayoutParts, PagesGood
  <2> QED BY <1>1, <1>2, <1>3, <2>1, <2>4, <2>6, <2>7, LayoutInvPassed
<1> QED BY <1>6, <1>7, <1>8, <1>9, <1>10, <1>11, <1>12 DEF Next

LEMMA LayoutInvHolds == Spec => [](LInv /\ LoopInv /\ LayoutInv)
<1>1. LInv /\ LoopInv /\ LayoutInv /\ [Next]_vars => (LInv /\ LoopInv /\ LayoutInv)'
  BY LInvNext, LoopInvNext, LayoutInvNext
<1> QED BY <1>1, LInvInit, LoopInvInit, LayoutInvInit, PTL DEF Spec

----------------------------------------------------------------------------
(* Any layout                                                              *)

LEMMA AnySame ==
    ASSUME files' = files, stack'.size = stack.size
    PROVE  \A a : (Fresh(a)' <=> Fresh(a)) /\ (InStep(a)' <=> InStep(a))
<1>1. SectionIds' = SectionIds /\ \A a : Sec(a)' = Sec(a)
  BY SameLayout
<1>2. \A a : Earlier(a)' = Earlier(a)
  BY <1>1 DEF Earlier
<1>3. \A a : Fresh(a)' <=> Fresh(a)
  BY <1>1, <1>2 DEF Fresh
<1>4. \A a : InStep(a)' <=> InStep(a)
  BY <1>1, <1>2, <1>3 DEF InStep
<1> QED BY <1>3, <1>4

LEMMA AnyInvInit == Init => AnyInv
<1> SUFFICES ASSUME Init PROVE AnyInv
  OBVIOUS
<1>1. /\ ~m.broken /\ data = [f \in Frames |-> {}] /\ known = {} /\ at = <<1, 1>>
      /\ files \in Layouts /\ stack.at = "top" /\ newPage = 0
  BY DEF Init, NewMemory
<1>2. Passed = {}
  BY <1>1, SectionType DEF Passed
<1>3. KnownGood /\ NewPageIs /\ CopiesAre /\ PagesAre
  BY <1>1, <1>2 DEF KnownGood, NewPageIs, News, CopiesAre, PagesAre
<1> QED BY <1>1, <1>3 DEF AnyInv

(* Nothing is copied, and the sections passed are the same.                *)
LEMMA AnyInvPassed ==
    ASSUME AnyInv, ~m.broken, files' = files, UNCHANGED <<data, known>>,
           stack'.size = stack.size, Passed' = Passed, NewPageIs', PagesAre',
           m'.broken => ~Done'
    PROVE  AnyInv'
<1>1. /\ \A a : Sec(a)' = Sec(a) /\ PagesOf(a)' = PagesOf(a)
      /\ \A a : InStep(a)' <=> InStep(a)
  BY SameLayout, AnySame
<1>2. KnownGood'
  BY <1>1 DEF AnyInv, KnownGood
<1>3. CopiesAre'
  BY <1>1 DEF AnyInv, CopiesAre
<1> QED BY <1>2, <1>3 DEF AnyInv

(* A section is loaded: it is copied to its own page when it is in step,   *)
(* and to another one when it is not.                                      *)
LEMMA AnyInvLoad ==
    ASSUME LInv, AnyInv, LoadSection
    PROVE  AnyInv'
<1> DEFINE p     == Section.addr.page
           fresh == p \notin known
           page  == IF fresh THEN p ELSE newPage
           m1    == IF fresh THEN ClaimPage(m, Section.addr) ELSE m
           m2    == [m1 EXCEPT !.broken = TRUE]
           here  == page..page + Section.span - 1
           new   == [section |-> at, with |-> IF IsBss(Section.type) THEN "zeros" ELSE "bytes"]
<1>1. /\ Loading /\ at[1] <= Len(files) /\ ~m.broken /\ stack.at = "mapped"
      /\ Loaded(Section) /\ files \in Layouts /\ IsMemory(m)
      /\ files' = files /\ stack' = stack /\ at' = <<at[1], at[2] + 1>>
      /\ known' = known \cup {p} /\ newPage' = page
      /\ data' = Copied(data, page, Section)
      /\ m' = IF page + Section.span > NbFrames THEN m2 ELSE m1
  BY DEF LoadSection, Loading, LInv, TypeOK
<1>2. /\ at \in SectionIds /\ Sec(at) = Section
      /\ at \notin Passed /\ Passed' = Passed \cup {at}
  BY PassedLoad
<1>3. /\ SectionIds' = SectionIds /\ \A a : Sec(a)' = Sec(a) /\ PagesOf(a)' = PagesOf(a)
      /\ StackFrames' = StackFrames /\ \A a : (Fresh(a)' <=> Fresh(a)) /\ (InStep(a)' <=> InStep(a))
  BY <1>1, SameLayout, AnySame
<1>4. /\ at = <<at[1], at[2]>> /\ at[1] \in Nat /\ at[2] \in Nat /\ Section \in Sections
  BY <1>1, <1>2, SectionType
<1>5. /\ p \in Nat /\ p < NbPage /\ Section.span \in Nat \ {0} /\ Section.addr \in Addresses
      /\ Section.addr # Null /\ NbFrames \in Nat /\ Frames = 0..NbFrames - 1
  BY <1>1, <1>4, MemoryAssumption DEF Sections, Addresses, Frames, Loaded
<1>6. page \in Nat
  BY <1>5 DEF LInv, TypeOK
<1>7. NewPageIs /\ CopiesAre /\ PagesAre /\ KnownGood
  BY <1>1 DEF AnyInv
<1>8. fresh <=> Fresh(at)
  BY <1>2, <1>7 DEF KnownGood, Fresh, Earlier, Passed
<1>9. \A f \in Frames : data'[f] = IF f \in here THEN data[f] \cup {new} ELSE data[f]
  BY <1>1 DEF Copied
<1>10. new.section = at
  OBVIOUS
<1>11. PagesOf(at) = p..p + Section.span - 1
  BY <1>2 DEF PagesOf
<1>12. IsMemory(m1) /\ (~m1.broken /\ fresh /\ p \in Frames =>
          \A q \in 0..NbPage - 1 : Mapped(m1, q) <=> Mapped(m, q) \/ q = p)
  BY <1>1, <1>5, PageClaimed
<1>13. ~fresh => m1 = m
  OBVIOUS
<1> HIDE DEF m1
<1>14. m2.broken
  BY <1>12, BrokenType
<1>15. KnownGood'
  BY <1>1, <1>2, <1>3, <1>7 DEF KnownGood
<1>16. m'.broken => ~Done'
  BY <1>1, <1>4 DEF Done, LInv
<1>17. InStep(at) <=> page = p
  <2> DEFINE news == {b \in Earlier(at) \cup {at} : b[1] = at[1] /\ Fresh(b)}
  <2>1. InStep(at) <=> \/ news = {} /\ p = 0
                       \/ \E b \in news : Sec(b).addr.page = p /\ \A c \in news : c[2] <= b[2]
    BY <1>2 DEF InStep
  <2>2. Earlier(at) = Passed
    BY DEF Earlier, Passed
  <2>3. \A b \in Passed : b[1] = at[1] => b[2] \in Nat /\ b[2] < at[2] /\ b = <<b[1], b[2]>>
    BY <1>1, <1>4, SectionType DEF Passed
  <2>4. CASE fresh
    <3>1. at \in news /\ \A c \in news : c[2] <= at[2]
      BY <1>4, <1>8, <2>2, <2>3, <2>4
    <3> QED BY <1>2, <2>1, <2>4, <3>1
  <2>5. CASE ~fresh
    <3>1. news = News
      BY <1>8, <2>2, <2>5 DEF News
    <3>2. CASE News = {} /\ newPage = 0
      BY <2>1, <2>5, <3>1, <3>2
    <3>3. CASE \E b \in News : newPage = Sec(b).addr.page /\ \A c \in News : c[2] <= b[2]
      <4>1. PICK b \in News : newPage = Sec(b).addr.page /\ \A c \in News : c[2] <= b[2]
        BY <3>3
      <4>2. ASSUME NEW c \in News, \A d \in News : d[2] <= c[2] PROVE c = b
        <5>1. c[2] <= b[2] /\ b[2] <= c[2]
          BY <4>1, <4>2
        <5>2. c[1] = b[1] /\ c[2] \in Nat /\ b[2] \in Nat /\ c = <<c[1], c[2]>> /\ b = <<b[1], b[2]>>
          BY <2>3, <4>1, <4>2 DEF News
        <5> QED BY <5>1, <5>2
      <4> QED BY <2>1, <2>5, <3>1, <4>1, <4>2
    <3> QED BY <1>7, <3>2, <3>3 DEF NewPageIs
  <2> QED BY <2>4, <2>5
<1>18. ASSUME ~m'.broken PROVE NewPageIs'
  <2>1. at'[1] = at[1] /\ News' = News \cup (IF fresh THEN {at} ELSE {})
    <3>1. at'[1] = at[1]
      BY <1>1
    <3> QED BY <1>2, <1>3, <1>8, <3>1 DEF News
  <2>2. CASE fresh
    <3>1. \A c \in News' : c[2] <= at[2]
      BY <1>1, <1>4, <2>1, SectionType DEF News, Passed
    <3>2. at \in News' /\ newPage' = Sec(at).addr.page
      BY <1>1, <1>2, <1>3, <2>1, <2>2
    <3> QED BY <1>3, <3>1, <3>2 DEF NewPageIs
  <2>3. CASE ~fresh
    BY <1>1, <1>3, <1>7, <2>1, <2>3 DEF NewPageIs
  <2> QED BY <2>2, <2>3
<1>19. ASSUME ~m'.broken PROVE m' = m1 /\ page + Section.span <= NbFrames
  BY <1>1, <1>5, <1>6, <1>14, <1>19
<1> HIDE DEF fresh, page, m2, new, p
<1>20. ASSUME ~m'.broken PROVE CopiesAre'
  <2>1. \A f \in Frames : \A d \in data'[f] : d.section \in Passed'
    BY <1>2, <1>7, <1>9, <1>10 DEF CopiesAre
  <2>2. ASSUME NEW a \in Passed, NEW f \in Frames
        PROVE  (\E d \in data'[f] : d.section = a) <=> (\E d \in data[f] : d.section = a)
    BY <1>2, <1>9, <1>10
  <2>3. ASSUME NEW a \in Passed
        PROVE  InStep(a) <=> \A x \in PagesOf(a) : x \in Frames /\ \E d \in data'[x] : d.section = a
    BY <1>7, <2>2 DEF CopiesAre
  <2>4. \A f \in Frames : (\E d \in data'[f] : d.section = at) <=> f \in here
    BY <1>2, <1>7, <1>9, <1>10 DEF CopiesAre
  <2>5. InStep(at) <=> \A x \in PagesOf(at) : x \in Frames /\ \E d \in data'[x] : d.section = at
    <3>1. CASE page = p
      <4>1. PagesOf(at) = here /\ here \subseteq Frames
        BY <1>5, <1>6, <1>11, <1>19, <1>20, <3>1
      <4> QED BY <1>17, <2>4, <3>1, <4>1
    <3>2. CASE page < p
      <4>1. p + Section.span - 1 \in PagesOf(at) /\ p + Section.span - 1 \notin here
        BY <1>5, <1>6, <1>11, <3>2
      <4> QED BY <1>5, <1>6, <1>17, <2>4, <3>2, <4>1
    <3>3. CASE page > p
      <4>1. p \in PagesOf(at) /\ p \notin here
        BY <1>5, <1>6, <1>11, <3>3
      <4> QED BY <1>5, <1>6, <1>17, <2>4, <3>3, <4>1
    <3> QED BY <1>5, <1>6, <3>1, <3>2, <3>3
  <2> QED BY <1>2, <1>3, <2>1, <2>3, <2>5 DEF CopiesAre
<1>21. ASSUME ~m'.broken PROVE PagesAre'
  <2> DEFINE starts == {Sec(a).addr.page : a \in Passed}
  <2>1. {Sec(a).addr.page : a \in Passed}' = starts \cup {p}
    BY <1>2, <1>3 DEF p
  <2>2. Pages(m) = Frames \cap (StackFrames \cup starts) /\ known = starts
    BY <1>1, <1>7 DEF PagesAre, KnownGood
  <2> HIDE DEF starts
  <2>3. Pages(m)' = Frames \cap (StackFrames \cup starts \cup {p})
    <3>1. CASE fresh
      <4>1. p \in Frames
        BY <1>5, <1>19, <1>21, <3>1 DEF page
      <4>2. Pages(m1) = Pages(m) \cup {p}
        BY <1>12, <1>19, <1>21, <3>1, <4>1, PagesAdded
      <4> QED BY <1>19, <1>21, <2>2, <4>1, <4>2 DEF Pages
    <3>2. CASE ~fresh
      <4>1. p \in starts /\ m' = m
        BY <1>13, <1>19, <1>21, <2>2, <3>2 DEF fresh
      <4> QED BY <2>2, <4>1 DEF Pages
    <3> QED BY <3>1, <3>2
  <2> QED BY <1>3, <2>1, <2>3 DEF PagesAre
<1> QED BY <1>15, <1>16, <1>18, <1>20, <1>21 DEF AnyInv

LEMMA AnyInvNext == LInv /\ LoopInv /\ AnyInv /\ [Next]_vars => AnyInv'
<1> SUFFICES ASSUME LInv, LoopInv, AnyInv, [Next]_vars PROVE AnyInv'
  OBVIOUS
<1>0. TypeOK /\ StackInv /\ LoopInv'
  BY LoopInvNext DEF LInv
<1>1. files' = files /\ stack'.size = stack.size
  BY <1>0 DEF Next, vars, MapStackTop, MapStackPage, StackMapped, SkipSection, LoadSection,
              NextFile, TypeOK
<1>2. /\ SectionIds' = SectionIds /\ StackFrames' = StackFrames
      /\ \A a : Sec(a)' = Sec(a) /\ PagesOf(a)' = PagesOf(a)
      /\ \A a : (Fresh(a)' <=> Fresh(a)) /\ (InStep(a)' <=> InStep(a))
  BY <1>1, SameLayout, AnySame
(* create_stack: no section is passed yet.                                 *)
<1>3. ASSUME stack.at # "mapped", ~m.broken, UNCHANGED <<data, known, newPage, at>>,
             m'.broken => stack'.at # "mapped"
      PROVE  AnyInv'
  <2>1. at = <<1, 1>>
    BY <1>3 DEF LoopInv
  <2>2. Passed = {} /\ Passed' = {}
    <3>1. Passed = {}
      BY <2>1, SectionType DEF Passed, LInv
    <3> QED BY <1>2, <1>3, <3>1 DEF Passed
  <2>3. NewPageIs'
    BY <1>3, <2>2 DEF AnyInv, NewPageIs, News
  <2>4. PagesAre'
    BY <1>0, <1>2, <1>3, <2>1, <2>2 DEF LoopInv, PagesAre, Pages
  <2>5. m'.broken => ~Done'
    BY <1>3 DEF Done
  <2> QED BY <1>1, <1>3, <2>2, <2>3, <2>4, <2>5, AnyInvPassed
<1>4. CASE MapStackTop
  <2>1. stack.at = "top" /\ ~m.broken /\ stack'.at = "below"
    BY <1>0, <1>4 DEF MapStackTop, StackInv, TypeOK
  <2> QED BY <1>3, <1>4, <2>1 DEF MapStackTop
<1>5. CASE MapStackPage
  <2>1. stack.at = "below" /\ ~m.broken /\ stack'.at = "below"
    BY <1>0, <1>5 DEF MapStackPage, TypeOK
  <2> QED BY <1>3, <1>5, <2>1 DEF MapStackPage
<1>6. CASE StackMapped
  BY <1>3, <1>6 DEF StackMapped
<1>7. CASE UNCHANGED vars
  <2>1. Passed' = Passed
    BY <1>2, <1>7 DEF Passed, vars
  <2>2. (KnownGood' <=> KnownGood) /\ (CopiesAre' <=> CopiesAre) /\ (PagesAre' <=> PagesAre)
    BY <1>2, <1>7, <2>1 DEF KnownGood, CopiesAre, PagesAre, Pages, vars
  <2>3. NewPageIs' <=> NewPageIs
    BY <1>2, <1>7, <2>1 DEF NewPageIs, News, vars
  <2>4. Done' <=> Done
    BY <1>7 DEF Done, vars
  <2> QED BY <1>7, <2>2, <2>3, <2>4 DEF AnyInv, vars
<1>8. CASE SkipSection
  <2>1. /\ ~m.broken /\ m' = m /\ stack' = stack /\ at'[1] = at[1]
        /\ UNCHANGED <<data, known, newPage>> /\ Passed' = Passed
    BY <1>8, PassedSkip DEF SkipSection, Loading
  <2>2. NewPageIs'
    BY <1>2, <2>1 DEF AnyInv, NewPageIs, News
  <2>3. PagesAre'
    BY <1>2, <2>1 DEF AnyInv, PagesAre, Pages
  <2> QED BY <1>1, <2>1, <2>2, <2>3, AnyInvPassed
<1>9. CASE LoadSection
  BY <1>9, AnyInvLoad
<1>10. CASE NextFile
  <2>1. /\ ~m.broken /\ m' = m /\ stack' = stack /\ newPage' = 0 /\ UNCHANGED <<data, known>>
        /\ Passed' = Passed /\ \A a \in Passed : a[1] # at'[1]
    BY <1>10, PassedNext DEF NextFile, Loading
  <2>2. NewPageIs'
    BY <2>1 DEF NewPageIs, News
  <2>3. PagesAre'
    BY <1>2, <2>1 DEF AnyInv, PagesAre, Pages
  <2> QED BY <1>1, <2>1, <2>2, <2>3, AnyInvPassed
<1> QED BY <1>4, <1>5, <1>6, <1>7, <1>8, <1>9, <1>10 DEF Next

LEMMA AnyInvHolds == Spec => [](LInv /\ AnyInv)
<1>1. LInv /\ LoopInv /\ AnyInv /\ [Next]_vars => (LInv /\ LoopInv /\ AnyInv)'
  BY LInvNext, LoopInvNext, AnyInvNext
<1> QED BY <1>1, LInvInit, LoopInvInit, AnyInvInit, PTL DEF Spec

----------------------------------------------------------------------------
(* The theorems                                                            *)

(* The tables: in their frames, and none of these is a page of the guest.  *)
LEMMA TablesFrames ==
    ASSUME GoodLayout, LayoutParts
    PROVE  \E o : /\ Packed(m, o, GuestPages) /\ DOMAIN o \subseteq Frames \ GuestPages
                  /\ TableFrames(m) \subseteq DOMAIN o
<1>1. PICK o : Packed(m, o, GuestPages)
  BY DEF LayoutParts, MemoryGood
<1>2. DOMAIN o \subseteq Frames \ GuestPages
  BY <1>1, LayoutRoom, PackedFrames
<1>3. TableFrames(m) \subseteq DOMAIN o
  BY <1>1, <1>2, LevelsApart DEF Packed
<1> QED BY <1>1, <1>2, <1>3

LEMMA OverwrittenPages ==
    ASSUME LInv, LayoutParts
    PROVE  Overwritten \subseteq FilePages
<1> SUFFICES ASSUME NEW f \in Frames, NEW d \in data[f] PROVE f \in FilePages
  BY DEF Overwritten
<1>1. d.section \in SectionIds /\ f \in PagesOf(d.section)
  BY DEF LayoutParts, DataGood, Passed
<1> QED BY <1>1, SectionType DEF LInv

(* In a layout that leaves room for them the page tables are never         *)
(* overwritten and never outside guest memory, although the allocator knows*)
(* neither the sections still to come nor the size of the memory.          *)
THEOREM NeverBrokenTheorem == Spec => []NeverBroken
<1>1. LInv /\ LoopInv /\ LayoutInv => NeverBroken
  <2> SUFFICES ASSUME LInv, LayoutInv, GoodLayout PROVE TablesIntact
    BY DEF NeverBroken
  <2>1. LayoutParts
    BY DEF LayoutInv
  <2>2. ~m.broken
    BY <2>1 DEF LayoutParts, MemoryGood, Packed
  <2>3. TableFrames(m) \cap Overwritten = {}
    BY <2>1, TablesFrames, OverwrittenPages DEF GuestPages
  <2> QED BY <2>2, <2>3 DEF TablesIntact
<1> QED BY <1>1, LayoutInvHolds, PTL

(* The tables are a tree of frames apart from the pages of the guest: no   *)
(* frame is the table of two entries, and the guest cannot write to one.   *)
THEOREM TablesApartTheorem == Spec => []TablesApart
<1>1. LInv /\ LoopInv /\ LayoutInv => TablesApart
  <2> SUFFICES ASSUME LInv, LayoutInv, GoodLayout
               PROVE  /\ \A F \in {{Root}, Puds(m), Pmds(m)} : \A d, e \in Entries(m, F) :
                            m.tables[d[1]][d[2]].page = m.tables[e[1]][e[2]].page => d = e
                      /\ Cardinality(TableFrames(m)) =
                            1 + Cardinality(Puds(m)) + Cardinality(Pmds(m)) + Cardinality(Ptes(m))
                      /\ \A p \in Frames :
                            Mapped(m, p) => gva_to_gpa(m, At(p, {})).page \notin TableFrames(m)
    BY DEF TablesApart
  <2>1. LayoutParts
    BY DEF LayoutInv
  <2>2. PICK o : /\ Packed(m, o, GuestPages) /\ DOMAIN o \subseteq Frames \ GuestPages
                 /\ TableFrames(m) \subseteq DOMAIN o
    BY <2>1, TablesFrames
  <2>3. Tree(m, o) /\ DOMAIN o \subseteq Frames
    BY <2>2 DEF Packed
  <2>4. \A F \in {{Root}, Puds(m), Pmds(m)} : \E k \in {2, 3, 4} : F \subseteq TablesAt(o, k)
    BY <2>3, TableLevels
  <2>5. \A F \in {{Root}, Puds(m), Pmds(m)} : \A d, e \in Entries(m, F) :
           m.tables[d[1]][d[2]].page = m.tables[e[1]][e[2]].page => d = e
    BY <2>3, <2>4, EntriesApart
  <2>6. Cardinality(TableFrames(m)) =
           1 + Cardinality(Puds(m)) + Cardinality(Pmds(m)) + Cardinality(Ptes(m))
    BY <2>3, LevelsApart
  <2>7. ASSUME NEW p \in Frames, Mapped(m, p)
        PROVE  gva_to_gpa(m, At(p, {})).page \notin TableFrames(m)
    <3>1. gva_to_gpa(m, At(p, {})) = At(p, {})
      BY <2>3, <2>7, TreeIdentity, SizesType DEF IsTree
    <3>2. p \in GuestPages
      BY <2>1, <2>7 DEF LayoutParts, PagesGood, Pages
    <3> QED BY <2>2, <3>1, <3>2 DEF At
  <2> QED BY <2>5, <2>6, <2>7
<1> QED BY <1>1, LayoutInvHolds, PTL

(* When the VM is launched every section is where its file was linked, in  *)
(* mapped pages, and nowhere else; the stack is mapped and empty; and the  *)
(* guest may read and write all of it in user mode.                        *)
THEOREM LoadedTheorem == Spec => []LoadedWhereLinked
<1>1. LInv /\ LoopInv /\ LayoutInv => LoadedWhereLinked
  <2> SUFFICES ASSUME LInv, LayoutInv, GoodLayout, Done
               PROVE  /\ \A a \in SectionIds : \A p \in PagesOf(a) :
                            Mapped(m, p) /\ \E d \in data[p] : d.section = a
                      /\ \A f \in Frames : \A d \in data[f] : f \in PagesOf(d.section)
                      /\ \A p \in StackFrames : Mapped(m, p) /\ data[p] = {}
                      /\ \A p \in FilePages \cup StackFrames : Rights(m, p) = Flags
    BY DEF LoadedWhereLinked
  <2>1. LayoutParts /\ files \in Layouts /\ IsMemory(m)
    BY DEF LayoutInv, LInv, TypeOK
  <2>2. GuestPages \subseteq Frames
    BY LayoutRoom
  <2>3. Passed = SectionIds
    BY AllPassed
  <2>4. ASSUME NEW a \in SectionIds, NEW p \in PagesOf(a) PROVE Mapped(m, p)
    <3>1. PICK b \in SectionIds : Sec(b).addr.page = p
      BY DEF GoodLayout, Started
    <3>2. p \in known
      BY <2>1, <2>3, <3>1 DEF LayoutParts, KnownGood
    <3> QED BY <2>1, <3>2 DEF LayoutParts, PagesGood, Pages
  <2>5. \A p \in StackFrames : Mapped(m, p)
    BY <2>1 DEF LayoutParts, PagesGood, Pages, Done
  <2>6. \A p \in StackFrames : data[p] = {}
    <3>1. Overwritten \subseteq FilePages
      BY <2>1, OverwrittenPages
    <3>2. \A p \in StackFrames : p \in Frames /\ p \notin FilePages
      BY <2>2 DEF GuestPages, GoodLayout, OffStack
    <3> QED BY <3>1, <3>2 DEF Overwritten
  <2>7. \A p \in FilePages \cup StackFrames : Mapped(m, p)
    BY <2>4, <2>5 DEF FilePages
  <2>8. \A p \in FilePages \cup StackFrames : Rights(m, p) = Flags
    <3>1. \A p \in FilePages \cup StackFrames : p \in Nat
      BY <2>2 DEF GuestPages, Frames
    <3> QED BY <2>1, <2>7, <3>1, MappedRights
  <2>9. \A a \in SectionIds : \A p \in PagesOf(a) : \E d \in data[p] : d.section = a
    BY <2>1, <2>3 DEF LayoutParts, DataGood
  <2>10. \A f \in Frames : \A d \in data[f] : f \in PagesOf(d.section)
    BY <2>1 DEF LayoutParts, DataGood
  <2> QED BY <2>4, <2>5, <2>6, <2>8, <2>9, <2>10
<1> QED BY <1>1, LayoutInvHolds, PTL

(* In any layout a section is where its file was linked exactly when it is *)
(* in step with new_page; the others were copied to another page.          *)
THEOREM AstrayTheorem == Spec => []AstrayOutOfStep
<1>1. LInv /\ AnyInv => AstrayOutOfStep
  <2> SUFFICES ASSUME LInv, AnyInv, Done, NEW a \in SectionIds
               PROVE  InStep(a) <=>
                         \A p \in PagesOf(a) : p \in Frames /\ \E d \in data[p] : d.section = a
    BY DEF AstrayOutOfStep
  <2>1. CopiesAre /\ a \in Passed
    BY AllPassed DEF AnyInv
  <2> QED BY <2>1 DEF CopiesAre
<1> QED BY <1>1, AnyInvHolds, PTL

(* In any layout that leaves the tables alone what is mapped is the stack  *)
(* and the page in which each section passed so far starts.                *)
THEOREM StartsTheorem == Spec => []MapsOnlyStarts
<1>1. AnyInv => MapsOnlyStarts
  BY DEF AnyInv, PagesAre, Pages, Passed, MapsOnlyStarts, Earlier, TablesIntact
<1> QED BY <1>1, AnyInvHolds, PTL
=============================================================================
