---------------------------- MODULE LoaderProofs ----------------------------
(***************************************************************************)
(* Theorems about Loader, for every size of the tables and of memory, all  *)
(* layouts of the files and every stack: types, and that an address of the *)
(* guest that is mapped is its own translation.                            *)
(***************************************************************************)
EXTENDS Loader, GuestMemoryProofs

----------------------------------------------------------------------------
(* As long as the loader did not go wrong, the tables are a tree in frames *)
(* of guest memory.                                                        *)
TreeInv == ~m.broken => IsTree(m) /\ m.used \subseteq Frames

(* create_stack is at a frame, or went below address 0 to the last page,   *)
(* which no table can map.                                                 *)
StackInv == /\ stack.at = "top" => ~m.broken /\ stack.page = StackTop
            /\ stack.at = "below" /\ ~m.broken => stack.page \in 0..StackTop \cup {AddrPages - 1}

LInv == TypeOK /\ files \in Layouts /\ TreeInv /\ StackInv

LEMMA SizesType == /\ StackTop \in Frames /\ StackTop < NbPage /\ StackTop < AddrPages
                   /\ AddrPages - 1 >= NbPage /\ Reach(AddrPages - 1) >= NbPage
                   /\ AddrPages \in Nat /\ NbPage \in Nat /\ Frames \subseteq 0..NbPage - 1
BY MemoryAssumption, StackAssumption DEF Frames

LEMMA LInvInit == Init => LInv
<1> SUFFICES ASSUME Init PROVE LInv
  OBVIOUS
<1>1. PICK n \in StackSizes :
         stack = [at |-> "top", page |-> StackTop, size |-> n, left |-> n]
  BY DEF Init
<1>2. n \in 0..2 * AddrPages - 1
  BY StackAssumption
<1>3. TypeOK
  BY <1>1, <1>2, SizesType, NewMemoryTree, MemoryAssumption DEF Init, TypeOK
<1>4. TreeInv /\ StackInv
  BY <1>1, NewMemoryTree DEF Init, NewMemory, TreeInv, StackInv
<1> QED BY <1>3, <1>4 DEF Init, LInv

(* One page of create_stack.                                               *)
LEMMA StackPageMapped ==
    ASSUME LInv, ~m.broken, NEW q \in 0..StackTop \cup {AddrPages - 1}, NEW D, NEW mm,
           mm = memory_map(m, At(q, {}), At(q, {}), D)
    PROVE  /\ IsMemory(mm)
           /\ ~mm.broken => IsTree(mm) /\ mm.used \subseteq Frames /\ q \in 0..StackTop
<1> DEFINE a == At(q, {})
<1>1. IsMemory(m) /\ IsTree(m) /\ m.used \subseteq Frames
  BY DEF LInv, TypeOK, TreeInv
<1>2. q \in Nat
  BY SizesType DEF Frames
<1>3. a \in AnyAddress /\ a.page = q
  BY <1>2 DEF AnyAddress, At
<1> HIDE DEF a
<1>4. IsMemory(mm)
  BY <1>1, <1>3, MapType DEF a
<1>5. ASSUME ~mm.broken PROVE IsTree(mm) /\ mm.used \subseteq Frames /\ q \in 0..StackTop
  <2>1. a = Null \/ a # Null
    OBVIOUS
  <2>2. a.page >= NbPage => Reach(a.page) >= NbPage
    BY <1>3, SizesType DEF Frames
  <2>3. ~memory_map(m, a, a, D).broken
    BY <1>5 DEF a
  <2>4. IsTree(mm) /\ a.page < NbPage /\ mm.used \subseteq Frames \cup {a.page}
    BY <1>1, <1>3, <2>1, <2>2, <2>3, MapTree DEF a
  <2>5. q \in 0..StackTop /\ q \in Frames
    BY <1>3, <2>4, SizesType, StackAssumption, MemoryAssumption DEF Frames
  <2> QED BY <1>3, <2>4, <2>5
<1> QED BY <1>4, <1>5

LEMMA MappedTables == \A mm, r, p : mm.tables = r.tables => (Mapped(mm, p) <=> Mapped(r, p))
BY DEF Mapped, Present, Pud, Pmd, Pte, pointer_to_page

(* The page of a section: it is claimed, mapped, claimed and found mapped. *)
LEMMA PageClaimed ==
    ASSUME LInv, NEW a \in Addresses, a # Null, NEW mm, mm = ClaimPage(m, a)
    PROVE  /\ IsMemory(mm)
           /\ ~mm.broken /\ a.page \in Frames =>
                 /\ ~m.broken /\ IsTree(mm) /\ mm.used \subseteq Frames
                 /\ \A p \in 0..NbPage - 1 : Mapped(mm, p) <=> Mapped(m, p) \/ p = a.page
<1> DEFINE page == At(a.page, {})
           m0   == invalidate_page(m, a.page)
           m1   == memory_map(m0, a, a, Overwritten)
           m2   == invalidate_page(m1, a.page)
           m3   == memory_map(m2, a, page, Overwritten)
<1>1. mm = m3
  BY DEF ClaimPage
<1>2. IsMemory(m) /\ TreeInv
  BY DEF LInv, TypeOK
<1>3. a \in AnyAddress /\ page \in AnyAddress /\ a.page \in Nat /\ a.page < NbPage
  BY MemoryAssumption DEF Addresses, AnyAddress, At
<1> HIDE DEF page
<1>4. /\ IsMemory(m0) /\ m0.tables = m.tables /\ m.used \subseteq m0.used
      /\ m0.used \subseteq m.used \cup {a.page} /\ (~m0.broken => ~m.broken)
  BY <1>2, <1>3, InvalidateType
<1> HIDE DEF m0
<1>5. IsMemory(m1) /\ (~m1.broken => ~m0.broken)
  BY <1>3, <1>4, MapType
<1>6. ASSUME ~m1.broken, a.page \in Frames
      PROVE  /\ IsTree(m1) /\ m1.used \subseteq Frames /\ Mapped(m1, a.page)
             /\ \A p \in 0..NbPage - 1 : Mapped(m1, p) <=> Mapped(m, p) \/ p = a.page
  <2>1. IsTree(m) /\ m.used \subseteq Frames
    BY <1>2, <1>4, <1>5, <1>6 DEF TreeInv
  <2>2. IsTree(m0) /\ m0.used \subseteq Frames
    BY <1>4, <1>6, <2>1, TreeMarked
  <2>3. a.page >= NbPage => Reach(a.page) >= NbPage
    BY <1>3, MemoryAssumption
  <2>4. /\ IsTree(m1) /\ m1.used \subseteq Frames \cup {a.page} /\ Mapped(m1, a.page)
        /\ \A p \in 0..NbPage - 1 : Mapped(m1, p) <=> Mapped(m0, p) \/ p = a.page
    BY <1>3, <1>4, <1>6, <2>2, <2>3, MapTree
  <2> QED BY <1>4, <1>6, <2>4, MappedTables
<1> HIDE DEF m1
<1>7. /\ IsMemory(m2) /\ m2.tables = m1.tables /\ m1.used \subseteq m2.used
      /\ m2.used \subseteq m1.used \cup {a.page} /\ (~m2.broken => ~m1.broken)
  BY <1>3, <1>5, InvalidateType
<1> HIDE DEF m2
<1>8. IsMemory(m3) /\ (~m3.broken => ~m2.broken)
  BY <1>3, <1>7, MapType
<1>9. ASSUME ~m3.broken, a.page \in Frames
      PROVE  /\ IsTree(m3) /\ m3.used \subseteq Frames
             /\ \A p \in 0..NbPage - 1 : Mapped(m3, p) <=> Mapped(m, p) \/ p = a.page
  <2>1. /\ IsTree(m1) /\ m1.used \subseteq Frames /\ Mapped(m1, a.page)
        /\ \A p \in 0..NbPage - 1 : Mapped(m1, p) <=> Mapped(m, p) \/ p = a.page
    BY <1>6, <1>7, <1>8, <1>9
  <2>2. IsTree(m2) /\ m2.used \subseteq Frames
    BY <1>7, <1>9, <2>1, TreeMarked
  <2>3. Mapped(m2, a.page)
    BY <1>7, <2>1 DEF Mapped, Present, Pud, Pmd, Pte, pointer_to_page
  <2>4. m3 = m2
    BY <1>3, <1>7, <1>9, <2>3, MapMapped
  <2> QED BY <1>7, <2>1, <2>2, <2>4, MappedTables
<1> QED BY <1>1, <1>4, <1>5, <1>7, <1>8, <1>9

LEMMA LInvNext == LInv /\ [Next]_vars => LInv'
<1> SUFFICES ASSUME LInv, [Next]_vars PROVE LInv'
  OBVIOUS
<1>0. TypeOK /\ files \in Layouts /\ TreeInv /\ StackInv
  BY DEF LInv
<1>1. /\ stack.at \in {"top", "below", "mapped"} /\ stack.page \in 0..AddrPages - 1
      /\ stack.left \in 0..2 * AddrPages - 1 /\ AddrPages \in Nat \ {0}
  BY <1>0, SizesType DEF TypeOK
<1>2. /\ (stack.page - 1) % AddrPages \in 0..AddrPages - 1
      /\ (stack.left - 2) % (2 * AddrPages) \in 0..2 * AddrPages - 1
  BY <1>1
<1>3. stack.page \in 0..StackTop => (stack.page - 1) % AddrPages \in 0..StackTop \cup {AddrPages - 1}
  <2> SUFFICES ASSUME stack.page \in 0..StackTop
               PROVE  (stack.page - 1) % AddrPages \in 0..StackTop \cup {AddrPages - 1}
    OBVIOUS
  <2>1. CASE stack.page = 0
    BY <1>1, <2>1
  <2>2. CASE stack.page # 0
    <3>1. (stack.page - 1) % AddrPages = stack.page - 1
      BY <1>1, <2>2
    <3> QED BY <1>1, <2>2, <3>1, SizesType DEF Frames
  <2> QED BY <2>1, <2>2
<1>4. CASE UNCHANGED vars
  BY <1>0, <1>4 DEF vars, LInv, TypeOK, TreeInv, StackInv
<1>5. CASE MapStackTop
  <2> DEFINE mm == memory_map(m, At(StackTop, {}), At(StackTop, {}), Overwritten)
  <2>1. stack.at = "top" /\ ~m.broken /\ stack.page = StackTop /\ StackTop \in 0..StackTop
    BY <1>0, <1>5, StackAssumption DEF MapStackTop, StackInv
  <2>2. /\ m' = mm /\ UNCHANGED <<files, data, known, newPage, at>>
        /\ stack' = [stack EXCEPT !.at = "below", !.page = (stack.page - 1) % AddrPages]
    BY <1>5 DEF MapStackTop
  <2>3. IsMemory(mm) /\ (~mm.broken => IsTree(mm) /\ mm.used \subseteq Frames)
    BY <2>1, StackPageMapped
  <2> HIDE DEF mm
  <2>4. TypeOK'
    BY <1>0, <1>2, <2>2, <2>3 DEF TypeOK
  <2>5. TreeInv' /\ StackInv'
    BY <1>0, <1>3, <2>1, <2>2, <2>3 DEF TypeOK, TreeInv, StackInv
  <2> QED BY <1>0, <2>2, <2>4, <2>5 DEF LInv
<1>6. CASE MapStackPage
  <2> DEFINE mm == memory_map(m, At(stack.page, {}), At(stack.page, {}), Overwritten)
  <2>1. stack.at = "below" /\ ~m.broken
        /\ stack.page \in 0..StackTop \cup {AddrPages - 1}
    BY <1>0, <1>6 DEF MapStackPage, StackInv
  <2>2. /\ m' = mm /\ UNCHANGED <<files, data, known, newPage, at>>
        /\ stack' = [stack EXCEPT !.page = (stack.page - 1) % AddrPages,
                                  !.left = (stack.left - 2) % (2 * AddrPages)]
    BY <1>6 DEF MapStackPage
  <2>3. /\ IsMemory(mm)
        /\ ~mm.broken => IsTree(mm) /\ mm.used \subseteq Frames /\ stack.page \in 0..StackTop
    BY <2>1, StackPageMapped
  <2> HIDE DEF mm
  <2>4. TypeOK'
    BY <1>0, <1>2, <2>2, <2>3 DEF TypeOK
  <2>5. TreeInv' /\ StackInv'
    BY <1>0, <1>3, <2>1, <2>2, <2>3 DEF TypeOK, TreeInv, StackInv
  <2> QED BY <1>0, <2>2, <2>4, <2>5 DEF LInv
<1>7. CASE StackMapped
  BY <1>0, <1>7 DEF StackMapped, LInv, TypeOK, TreeInv, StackInv
<1>8. CASE SkipSection
  <2>1. at' \in (Nat \ {0}) \X (Nat \ {0})
    BY <1>0, <1>8 DEF SkipSection, TypeOK
  <2> QED BY <1>0, <1>8, <2>1 DEF SkipSection, Loading, LInv, TypeOK, TreeInv, StackInv
<1>9. CASE LoadSection
  <2> DEFINE a     == Section.addr
             fresh == a.page \notin known
             page  == IF fresh THEN a.page ELSE newPage
             m1    == IF fresh THEN ClaimPage(m, a) ELSE m
             m2    == [m1 EXCEPT !.broken = TRUE]
             last  == page + Section.span
  <2>1. /\ stack.at = "mapped" /\ ~m.broken /\ at[1] <= Len(files) /\ at[2] <= Len(files[at[1]])
        /\ at[1] \in Nat \ {0} /\ at[2] \in Nat \ {0} /\ a # Null
    BY <1>0, <1>9 DEF LoadSection, Loading, Loaded, TypeOK
  <2>2. Section \in Sections
    <3>1. files \in Seq(Seq(Sections))
      BY <1>0, LayoutsAssumption
    <3>2. files[at[1]] \in Seq(Sections)
      BY <2>1, <3>1
    <3> QED BY <2>1, <3>2 DEF Section
  <2>3. a \in Addresses /\ a.page \in 0..NbPage - 1 /\ Section.span \in Nat \ {0}
    BY <2>2 DEF Sections, Addresses
  <2>4. /\ known' = known \cup {a.page} /\ newPage' = page
        /\ data' = Copied(data, page, Section)
        /\ m' = IF last > NbFrames THEN m2 ELSE m1
        /\ at' = <<at[1], at[2] + 1>> /\ UNCHANGED <<files, stack>>
    BY <1>9 DEF LoadSection
  <2>5. page \in 0..NbPage - 1
    BY <1>0, <2>3 DEF TypeOK
  <2>6. /\ IsMemory(m1)
        /\ ~m1.broken /\ a.page \in Frames => IsTree(m1) /\ m1.used \subseteq Frames
        /\ ~fresh => m1 = m
    <3>1. CASE fresh
      BY <2>1, <2>3, <3>1, PageClaimed
    <3>2. CASE ~fresh
      BY <1>0, <2>1, <3>2 DEF TypeOK, TreeInv
    <3> QED BY <3>1, <3>2
  <2>7. fresh /\ ~(last > NbFrames) => a.page \in Frames
    BY <2>3, MemoryAssumption DEF Frames
  <2>8. IsTree(m) /\ m.used \subseteq Frames
    BY <1>0, <2>1 DEF TreeInv
  <2> HIDE DEF a, fresh, page, m1, last
  <2>9. IsMemory(m2) /\ m2.broken
    BY <2>6, BrokenType
  <2>10. DOMAIN data' = Frames
    BY <2>4 DEF Copied
  <2> HIDE DEF m2
  <2>11. TypeOK'
    <3>1. IsMemory(m)'
      BY <2>4, <2>6, <2>9
    <3>2. known' \subseteq 0..NbPage - 1 /\ newPage' \in 0..NbPage - 1
      BY <1>0, <2>3, <2>4, <2>5 DEF TypeOK
    <3>3. at' \in (Nat \ {0}) \X (Nat \ {0})
      BY <2>1, <2>4
    <3> QED BY <1>0, <2>4, <2>10, <3>1, <3>2, <3>3 DEF TypeOK
  <2>12. TreeInv'
    BY <2>4, <2>6, <2>7, <2>8, <2>9 DEF TreeInv
  <2> QED BY <1>0, <2>1, <2>4, <2>11, <2>12 DEF LInv, StackInv
<1>10. CASE NextFile
  <2>1. at' \in (Nat \ {0}) \X (Nat \ {0}) /\ newPage' \in 0..NbPage - 1
    BY <1>0, <1>10, MemoryAssumption DEF NextFile, TypeOK
  <2> QED BY <1>0, <1>10, <2>1 DEF NextFile, Loading, LInv, TypeOK, TreeInv, StackInv
<1> QED BY <1>4, <1>5, <1>6, <1>7, <1>8, <1>9, <1>10 DEF Next

LEMMA LInvHolds == Spec => []LInv
BY LInvInit, LInvNext, PTL DEF Spec

(* The loader's data is what the code's types say, for every layout.       *)
THEOREM LoaderTypes == Spec => []TypeOK
<1>1. LInv => TypeOK
  BY DEF LInv
<1> QED BY <1>1, LInvHolds, PTL

(* An address of the guest that is mapped is its own translation, which    *)
(* syscall_handler relies on, whatever the layouts of the files are, the   *)
(* size of the stack, and the sizes of the tables and of memory.           *)
THEOREM IdentityTheorem == Spec => []IdentityMapped
<1>1. LInv => IdentityMapped
  <2> SUFFICES ASSUME LInv, TablesIntact, NEW p \in Frames,
                      NEW low \in {{}, {0}, {3}, Bits}, Mapped(m, p)
               PROVE  gva_to_gpa(m, At(p, low)) = At(p, low)
    BY DEF IdentityMapped
  <2>1. IsMemory(m) /\ IsTree(m)
    BY DEF LInv, TypeOK, TreeInv, TablesIntact
  <2>2. p \in 0..NbPage - 1
    BY SizesType
  <2> QED BY <2>1, <2>2, TreeIdentity
<1> QED BY <1>1, LInvHolds, PTL
=============================================================================
