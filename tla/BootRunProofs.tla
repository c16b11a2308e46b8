--------------------------- MODULE BootRunProofs ---------------------------
(***************************************************************************)
(* Theorems about BootCode that need what Loader has put into memory: a    *)
(* guest that a good layout started never faults until it is restored, and *)
(* the steps of loader, boot code and calls are steps of Migration.        *)
(***************************************************************************)
EXTENDS BootCodeProofs

(* The loader in this module's variables, with what was proved about it.   *)
(* Its operators come three times, from BootCode's instance of Loader, from*)
(* this one and from GuestMemory, and are the same.                        *)
LP == INSTANCE LoaderLayoutProofs

LEMMA SameFrames == LP!Frames = L!Frames /\ L!Frames = Frames
BY DEF LP!Frames, L!Frames, Frames

LEMMA SameAt == \A p, w : LP!At(p, w) = L!At(p, w) /\ L!At(p, w) = At(p, w)
BY DEF LP!At, L!At, At

LEMMA SameFlags == /\ LP!Null = L!Null /\ L!Null = Null
                   /\ LP!Flags = L!Flags /\ L!Flags = Flags
                   /\ LP!Root = L!Root /\ L!Root = Root
BY SameAt DEF LP!Null, L!Null, Null, LP!Flags, L!Flags, Flags, LP!Root, L!Root, Root

LEMMA SameIndex == \A p, k : LP!Index(p, k) = L!Index(p, k) /\ L!Index(p, k) = Index(p, k)
BY DEF LP!Index, L!Index, Index

LEMMA SamePresent ==
    \A mm, f, i : /\ LP!Present(mm, f, i) <=> L!Present(mm, f, i)
                  /\ L!Present(mm, f, i) <=> Present(mm, f, i)
BY DEF LP!Present, L!Present, Present

LEMMA SameSetEntry == \A mm, f, i, to : LP!SetEntry(mm, f, i, to) = L!SetEntry(mm, f, i, to)
BY SameAt, SameFlags DEF LP!SetEntry, L!SetEntry

LEMMA SameAllocate == \A mm : LP!allocate_page(mm) = L!allocate_page(mm)
BY DEF LP!allocate_page, L!allocate_page, LP!Full, L!Full

LEMMA SameAllocated == \A mm : LP!Allocated(mm) = L!Allocated(mm)
BY SameAllocate DEF LP!Allocated, L!Allocated

LEMMA SameSound == \A f, D : LP!Sound(f, D) <=> L!Sound(f, D)
BY SameFrames DEF LP!Sound, L!Sound

LEMMA SameBelow == \A mm, f, i, D : LP!Below(mm, f, i, D) = L!Below(mm, f, i, D)
BY SameAt, SamePresent, SameSetEntry, SameAllocate, SameAllocated, SameSound
   DEF LP!Below, L!Below

LEMMA SameInvalidate == \A mm, p : LP!invalidate_page(mm, p) = L!invalidate_page(mm, p)
BY DEF LP!invalidate_page, L!invalidate_page

LEMMA SameLeaf == \A mm, f, i, a, to, D : LP!Leaf(mm, f, i, a, to, D) = L!Leaf(mm, f, i, a, to, D)
BY SameAt, SameFlags, SamePresent, SameSetEntry, SameAllocate, SameAllocated,
   SameSound, SameInvalidate DEF LP!Leaf, L!Leaf

LEMMA SamePointer ==
    \A mm, f, i : /\ LP!pointer_to_page(mm, f, i) = L!pointer_to_page(mm, f, i)
                  /\ L!pointer_to_page(mm, f, i) = pointer_to_page(mm, f, i)
BY SameFrames DEF LP!pointer_to_page, L!pointer_to_page, pointer_to_page

LEMMA SameMap == \A mm, a, to, D : LP!memory_map(mm, a, to, D) = L!memory_map(mm, a, to, D)
BY SameFlags, SameIndex, SameBelow, SameLeaf, SamePointer DEF LP!memory_map,
   L!memory_map

LEMMA SameMapped ==
    \A mm, p : /\ LP!Mapped(mm, p) <=> L!Mapped(mm, p)
               /\ L!Mapped(mm, p) <=> Mapped(mm, p)
BY SameFrames, SameFlags, SameIndex, SamePresent, SamePointer DEF LP!Mapped, L!Mapped,
   Mapped, LP!Pud, LP!Pmd, LP!Pte, L!Pud, L!Pmd, L!Pte, Pud, Pmd, Pte

LEMMA SameClaim == \A mm, a : LP!ClaimPage(mm, a) = L!ClaimPage(mm, a)
BY SameFrames, SameAt, SameInvalidate, SameMap DEF LP!ClaimPage, L!ClaimPage,
   LP!Overwritten, L!Overwritten

LEMMA SameBss == \A t : LP!IsBss(t) <=> L!IsBss(t)
BY DEF LP!IsBss, L!IsBss

LEMMA SameCopied == \A d, p, s : LP!Copied(d, p, s) = L!Copied(d, p, s)
BY SameFrames, SameBss DEF LP!Copied, L!Copied

LEMMA SameInit == L!Init <=> LP!Init
BY SameFrames, SameAt, SameFlags DEF L!Init, LP!Init, L!NewMemory, LP!NewMemory

LEMMA SameSection == /\ L!Loading <=> LP!Loading
                     /\ L!Section = LP!Section
                     /\ \A s : L!Loaded(s) <=> LP!Loaded(s)
BY SameFlags DEF L!Loading, LP!Loading, L!Section, LP!Section, L!Loaded, LP!Loaded

LEMMA SameOverwritten == L!Overwritten = LP!Overwritten
BY SameFrames DEF L!Overwritten, LP!Overwritten

(* So a step of the loader here is a step of the loader there.             *)
LEMMA SameNext == L!Next <=> LP!Next
<1>1. L!MapStackTop <=> LP!MapStackTop
  BY SameAt, SameMap, SameOverwritten DEF L!MapStackTop, LP!MapStackTop
<1>2. L!MapStackPage <=> LP!MapStackPage
  BY SameAt, SameMap, SameOverwritten DEF L!MapStackPage, LP!MapStackPage
<1>3. L!StackMapped <=> LP!StackMapped
  BY DEF L!StackMapped, LP!StackMapped
<1>4. L!SkipSection <=> LP!SkipSection
  BY SameSection DEF L!SkipSection, LP!SkipSection
<1>5. L!LoadSection <=> LP!LoadSection
  BY SameClaim, SameCopied, SameSection DEF L!LoadSection, LP!LoadSection
<1>6. L!NextFile <=> LP!NextFile
  BY SameSection DEF L!NextFile, LP!NextFile
<1> QED BY <1>1, <1>2, <1>3, <1>4, <1>5, <1>6 DEF L!Next, LP!Next

LEMMA SameSec == /\ L!Done <=> LP!Done
                 /\ \A id : L!Sec(id) = LP!Sec(id) /\ L!PagesOf(id) = LP!PagesOf(id)
BY DEF L!Done, LP!Done, L!Sec, LP!Sec, L!PagesOf, LP!PagesOf

LEMMA SameIds == L!SectionIds = LP!SectionIds
BY SameSection DEF L!SectionIds, LP!SectionIds

LEMMA SamePages == L!StackFrames = LP!StackFrames /\ L!FilePages = LP!FilePages
BY SameSec, SameIds DEF L!StackFrames, LP!StackFrames, L!FilePages, LP!FilePages

LEMMA SameGood == L!GoodLayout <=> LP!GoodLayout
<1>1. L!GoodStack <=> LP!GoodStack
  BY DEF L!GoodStack, LP!GoodStack, L!WholeStack, LP!WholeStack
<1>2. (L!Ordered <=> LP!Ordered) /\ (L!Apart <=> LP!Apart) /\ (L!Started <=> LP!Started)
  BY SameSec, SameIds DEF L!Ordered, LP!Ordered, L!Apart, LP!Apart, L!Started,
     LP!Started
<1>3. (L!InMemory <=> LP!InMemory) /\ (L!OffStack <=> LP!OffStack)
  BY SameFrames, SamePages DEF L!InMemory, LP!InMemory, L!OffStack, LP!OffStack
<1>4. L!OffTables <=> LP!OffTables
  <2>1. {p \div Width : p \in L!FilePages \cup L!StackFrames}
           = {p \div Width : p \in LP!FilePages \cup LP!StackFrames}
    BY SamePages, Zenon
  <2>2. L!TablesEnd = LP!TablesEnd
    <3>1. \A S : L!Cardinality(S) = LP!Cardinality(S)
      BY DEF L!Cardinality, LP!Cardinality
    <3> QED BY SameFlags, <2>1, <3>1 DEF L!TablesEnd, LP!TablesEnd
  <2> QED BY <2>2, SamePages DEF L!OffTables, LP!OffTables
<1> QED BY <1>1, <1>2, <1>3, <1>4 DEF L!GoodLayout, LP!GoodLayout

LEMMA SameRights == \A mm, p : LP!Rights(mm, p) = Rights(mm, p)
BY SameFlags, SameIndex, SamePointer DEF LP!Rights, Rights, LP!Pud, LP!Pmd, LP!Pte,
   Pud, Pmd, Pte

LEMMA SameTranslation == \A mm, a : LP!gva_to_gpa(mm, a) = gva_to_gpa(mm, a)
BY SameAt, SameFlags, SameIndex, SamePointer, SameMapped DEF LP!gva_to_gpa,
   gva_to_gpa, LP!Pud, LP!Pmd, LP!Pte, Pud, Pmd, Pte


(* The assumptions of the loader's proofs are those of BootCode.           *)
LEMMA LPAssumptions ==
    /\ Layouts \subseteq Seq(Seq(LP!Sections))
    /\ LP!Reach(AddrPages - 1) >= NbPage
<1>1. LP!Sections = L!Sections
  BY DEF LP!Sections, L!Sections, LP!Addresses, L!Addresses, LP!Bits, L!Bits
<1>2. \A p : LP!Reach(p) = Reach(p)
  BY DEF LP!Reach, Reach, LP!Index, Index
<1> QED BY <1>1, <1>2, LoadAssumption

----------------------------------------------------------------------------
(* What the vCPU finds in memory when a good layout has been loaded: every *)
(* section in its pages, and the pages of files and stack mapped to        *)
(* themselves with all rights.                                             *)
LoadedWell ==
    /\ files \in Layouts /\ stack.size \in Nat /\ at[1] \in Nat \ {0}
    /\ DOMAIN stack = {"at", "page", "size", "left"}
    /\ stack.at # "mapped" => at = <<1, 1>>
    /\ L!GoodLayout /\ L!Done =>
          /\ \A a \in L!SectionIds : \A p \in L!PagesOf(a) : \E d \in data[p] : d.section = a
          /\ \A p \in L!FilePages \cup L!StackFrames :
                Mapped(m, p) /\ gva_to_gpa(m, At(p, {})) = At(p, {}) /\ Rights(m, p) = Flags

(* It is what the theorems about the loader say.                           *)
LEMMA LoadedWellHolds == Spec => []LoadedWell
<1>1. Init => LP!Init
  BY SameInit DEF Init
<1>2. [Next]_vars => [LP!Next]_(LP!vars)
  <2>1. Load => LP!Next
    BY SameNext DEF Load
  <2>2. UNCHANGED loaded => UNCHANGED LP!vars
    BY DEF loaded, LP!vars
  <2>3. Launch \/ Boot \/ Run \/ Restore => UNCHANGED loaded
    BY DEF Launch, Boot, Run, Restore, LoadGdt32, LoadGdt, ProtectOn, Jump32, PaeOn, LongOn,
       SetCr3, PagingOn, LoadGdt64, Jump64, FarJump, SetStack, SseOn, SceOn, SetLstar,
       SetStar, Vmcall, BootSysret, Exec,
       Syscall, Hlt, Sysret, Lost, Serve, Stop, Handled
  <2> QED BY <2>1, <2>2, <2>3 DEF Next, vars
<1>3. Spec => LP!Spec
  BY <1>1, <1>2, PTL DEF Spec, LP!Spec
<1>4. LP!Spec => [](/\ LP!NeverBroken /\ LP!LoadedWhereLinked /\ LP!IdentityMapped
                    /\ LP!LInv /\ LP!LoopInv)
  <2>1. LP!Spec => []LP!NeverBroken
    BY LP!NeverBrokenTheorem, LPAssumptions, MemoryAssumption, LoadAssumption
  <2>2. LP!Spec => []LP!LoadedWhereLinked
    BY LP!LoadedTheorem, LPAssumptions, MemoryAssumption, LoadAssumption
  <2>3. LP!Spec => []LP!IdentityMapped
    BY LP!IdentityTheorem, LPAssumptions, MemoryAssumption, LoadAssumption
  <2>4. LP!Spec => [](LP!LInv /\ LP!LoopInv)
    BY LP!LoopInvHolds, LPAssumptions, MemoryAssumption, LoadAssumption
  <2> QED BY <2>1, <2>2, <2>3, <2>4, PTL
<1>5. LP!NeverBroken /\ LP!LoadedWhereLinked /\ LP!IdentityMapped /\ LP!LInv /\ LP!LoopInv
         => LoadedWell
  <2> SUFFICES ASSUME LP!NeverBroken, LP!LoadedWhereLinked, LP!IdentityMapped, LP!LInv,
                      LP!LoopInv
               PROVE  LoadedWell
    OBVIOUS
  <2>2. files \in Layouts /\ LP!TypeOK
    BY DEF LP!LInv
  <2>3. stack.size \in Nat /\ at[1] \in Nat \ {0} /\ DOMAIN stack = {"at", "page", "size", "left"}
    <3>1. /\ stack.size \in StackSizes /\ at[1] \in Nat \ {0}
          /\ DOMAIN stack = {"at", "page", "size", "left"}
      BY <2>2 DEF LP!TypeOK
    <3>2. AddrPages \in Nat /\ StackSizes \subseteq 0..2 * AddrPages - 1
      BY LoadAssumption
    <3>3. stack.size \in 0..2 * AddrPages - 1
      BY <3>1, <3>2, Zenon
    <3> QED BY <3>1, <3>2, <3>3
  <2> SUFFICES ASSUME L!GoodLayout, L!Done
               PROVE  /\ \A a \in L!SectionIds : \A p \in L!PagesOf(a) : \E d \in data[p] : d.section = a
                      /\ \A p \in L!FilePages \cup L!StackFrames :
                            Mapped(m, p) /\ gva_to_gpa(m, At(p, {})) = At(p, {}) /\ Rights(m, p) = Flags
    BY <2>2, <2>3 DEF LoadedWell, LP!LoopInv
  <2>1. LP!GoodLayout /\ LP!Done
    BY SameSec, SameGood
  <2>4. LP!TablesIntact
    BY <2>1 DEF LP!NeverBroken
  <2>5. \A p \in LP!Frames : LP!Mapped(m, p) => LP!gva_to_gpa(m, LP!At(p, {})) = LP!At(p, {})
    BY <2>4 DEF LP!IdentityMapped
  <2>6. /\ \A a \in LP!SectionIds : \A p \in LP!PagesOf(a) :
             LP!Mapped(m, p) /\ \E d \in data[p] : d.section = a
        /\ \A p \in LP!StackFrames : LP!Mapped(m, p)
        /\ \A p \in LP!FilePages \cup LP!StackFrames : LP!Rights(m, p) = LP!Flags
    BY <2>1 DEF LP!LoadedWhereLinked
  <2>7. \A p \in LP!FilePages \cup LP!StackFrames : p \in LP!Frames /\ LP!Mapped(m, p)
    BY <2>1, <2>6 DEF LP!GoodLayout, LP!InMemory, LP!FilePages
  <2>8. \A p \in L!FilePages \cup L!StackFrames :
          Mapped(m, p) /\ gva_to_gpa(m, At(p, {})) = At(p, {}) /\ Rights(m, p) = Flags
    BY <2>5, <2>6, <2>7, SameAt, SameFlags, SameMapped, SamePages, SameRights,
       SameTranslation
  <2>9. \A a \in L!SectionIds : \A p \in L!PagesOf(a) : \E d \in data[p] : d.section = a
    BY <2>6, SameSec, SameIds
  <2> QED BY <2>8, <2>9
<1> QED BY <1>3, <1>4, <1>5, PTL

----------------------------------------------------------------------------
(* The registers at the places of the boot code: what the instructions     *)
(* before a place have set up, until a restored vCPU has lost it.          *)
LongPlaces   == {"main64", "sse", "sce", "lstar", "star", "vmcall", "enter",
                 "user", "syscall_handler", "sysret", "inside", "zero"}
StackPlaces  == LongPlaces \ {"main64"}
ScePlaces    == LongPlaces \ {"main64", "sse", "sce"}
LstarPlaces  == ScePlaces \ {"lstar", "zero"}
StarPlaces   == LstarPlaces \ {"star"}
BootStar     == [sysret |-> 24, syscall |-> 8]

Registers ==
    /\ vcpu.pc \in {"protect", "jump32"} => vcpu.gdt = "gdt32"
    /\ vcpu.pc = "jump64" => vcpu.gdt = "gdt64"
    /\ vcpu.pc \notin {"reset", "_start", "protect"} => "PE" \in vcpu.cr0
    /\ vcpu.pc \in {"long", "cr3", "paging"} => "PAE" \in vcpu.cr4
    /\ vcpu.pc \in {"gdt64", "jump64"} => "LME" \in vcpu.efer /\ Paging
    /\ vcpu.pc \in {"cr3", "paging"} => "LME" \in vcpu.efer
    /\ vcpu.pc = "paging" \/ Paging => vcpu.cr3 = Root
    /\ vcpu.pc \in LongPlaces => vcpu.cs.bits = 64
    /\ vcpu.pc \in StackPlaces => vcpu.sp = StackTop
    /\ vcpu.pc \in ScePlaces => "SCE" \in vcpu.efer
    /\ vcpu.pc \in LstarPlaces => vcpu.lstar = "syscall_handler" \/ vcpu.bin = "restore"
    /\ vcpu.pc \in StarPlaces => vcpu.star = BootStar \/ vcpu.bin = "restore"
    /\ vcpu.bin = "restore" => /\ vcpu.lstar = "zero" /\ vcpu.star = NoMsrs
                               /\ KvmSkipsHlt => vcpu.pc = "inside"
    /\ vcpu.pc = "inside" => KvmSkipsHlt
    /\ vcpu.pc = "zero" => vcpu.bin = "restore"
    /\ vcpu.pc = "reset" => vcpu.exit = "none" /\ vcpu.lstar = "zero"
    /\ vcpu.pc \in {"reset"} \cup BootPlaces => vcpu.bin = "save"
    /\ vcpu.pc \in {"reset", "_start", "protect", "jump32"} => vcpu.cs.bits = 16
    /\ vcpu.pc \in {"main32", "long", "cr3", "paging", "gdt64", "jump64"} => vcpu.cs.bits = 32

LEMMA RegistersInit == Init => Registers
BY DEF Init, ResetCpu, Registers, LongPlaces, StackPlaces, ScePlaces, LstarPlaces,
   StarPlaces, BootPlaces, Paging, Code

LEMMA RegistersNext == BInv /\ Registers /\ [Next]_vars => Registers'
<1> SUFFICES ASSUME BInv, Registers, [Next]_vars PROVE Registers'
  OBVIOUS
<1> USE DEF LongPlaces, StackPlaces, ScePlaces, LstarPlaces,
       StarPlaces, BootPlaces, Paging, BootStar, NoMsrs
<1>0. vcpu \in Vcpus
  BY DEF BInv, TypeOK
<1>1. CASE UNCHANGED vcpu
  BY <1>1 DEF Registers
<1>2. CASE Launch
  BY <1>0, <1>2 DEF Launch, Registers, Vcpus
<1>3. ASSUME vcpu' = [vcpu EXCEPT !.exit = "shutdown"], vcpu.pc # "reset" PROVE Registers'
  <2>1. \A f \in {"pc", "gdt", "cr0", "cr4", "efer", "cr3", "cs", "sp", "lstar",
                  "star", "bin"} :
           vcpu'[f] = vcpu[f]
    BY <1>0, <1>3 DEF Vcpus
  <2> QED BY <1>3, <2>1 DEF Registers
<1>4. CASE LoadGdt32
  BY <1>0, <1>3, <1>4 DEF LoadGdt32, LoadGdt, Exec, Registers, Vcpus
<1>5. CASE ProtectOn
  BY <1>0, <1>3, <1>5 DEF ProtectOn, Exec, Registers, Vcpus
<1>6. CASE Jump32
  BY <1>0, <1>3, <1>6 DEF Jump32, FarJump, Exec, Registers, Vcpus
<1>8. CASE PaeOn
  BY <1>0, <1>3, <1>8 DEF PaeOn, Exec, Registers, Vcpus
<1>9. CASE LongOn
  BY <1>0, <1>3, <1>9 DEF LongOn, Exec, Registers, Vcpus
<1>10. CASE SetCr3
  BY <1>0, <1>3, <1>10 DEF SetCr3, Exec, Registers, Vcpus
<1>11. CASE PagingOn
  BY <1>0, <1>3, <1>11 DEF PagingOn, Exec, Registers, Vcpus
<1>12. CASE LoadGdt64
  BY <1>0, <1>3, <1>12 DEF LoadGdt64, LoadGdt, Exec, Registers, Vcpus
<1>7. CASE Jump64
  BY <1>0, <1>3, <1>7 DEF Jump64, FarJump, Exec, Registers, Vcpus
<1>13. CASE SetStack
  BY <1>0, <1>3, <1>13 DEF SetStack, Exec, Registers, Vcpus
<1>14. CASE SseOn
  BY <1>0, <1>3, <1>14 DEF SseOn, Exec, Registers, Vcpus
<1>15. CASE SceOn
  BY <1>0, <1>3, <1>15 DEF SceOn, Exec, Registers, Vcpus
<1>16. CASE SetLstar
  BY <1>0, <1>3, <1>16 DEF SetLstar, Exec, Registers, Vcpus
<1>17. CASE SetStar
  BY <1>0, <1>3, <1>17 DEF SetStar, Exec, Registers, Vcpus
<1>18. CASE Vmcall
  BY <1>0, <1>3, <1>18 DEF Vmcall, Exec, Registers, Vcpus
<1>20. CASE BootSysret
  BY <1>0, <1>3, <1>20 DEF BootSysret, Exec, Registers, Vcpus, UserCs, Code
<1>21. CASE Sysret
  BY <1>0, <1>3, <1>21 DEF Sysret, Exec, Registers, Vcpus, UserCs, Code
<1>22. CASE Syscall
  BY <1>0, <1>3, <1>22 DEF Syscall, Exec, Registers, Vcpus, Code
<1>23. CASE Exec("zero", "zero", FALSE, vcpu)
  BY <1>0, <1>3, <1>23 DEF Exec, Registers, Vcpus
<1>24. CASE Hlt
  BY <1>0, <1>3, <1>24 DEF Hlt, Exec, Registers, Vcpus
<1>25. ASSUME NEW r, NEW exit, vcpu.exit = "hlt", Handled(r, exit) PROVE Registers'
  <2>1. vcpu.pc = AfterHlt
    BY <1>25 DEF BInv, ExitAtCall
  <2>2. /\ vcpu'.pc = Advance(AfterHlt)
        /\ \A f \in {"gdt", "cr0", "cr4", "efer", "cr3", "cs", "sp", "lstar", "star", "bin"} :
             vcpu'[f] = vcpu[f]
    BY <1>0, <1>25, <2>1 DEF Handled, Vcpus
  <2>3. \/ KvmSkipsHlt /\ AfterHlt = "sysret" /\ Advance(AfterHlt) = "inside"
        \/ ~KvmSkipsHlt /\ AfterHlt = "syscall_handler" /\ Advance(AfterHlt) = "sysret"
    BY DEF AfterHlt, Advance
  <2> QED BY <2>1, <2>2, <2>3 DEF Registers
<1>26. CASE Serve \/ Stop
  BY <1>25, <1>26 DEF Serve, Stop
<1>27. CASE Restore
  <2>1. vcpu.pc = Advance(AfterHlt)
    BY <1>27 DEF Restore, BInv, ExitAtCall
  <2>2. /\ vcpu'.lstar = "zero" /\ vcpu'.star = NoMsrs /\ vcpu'.bin = "restore"
        /\ \A f \in {"pc", "gdt", "cr0", "cr4", "efer", "cr3", "cs", "sp"} : vcpu'[f] = vcpu[f]
    BY <1>0, <1>27 DEF Restore, ResetCpu, Vcpus
  <2>3. \/ KvmSkipsHlt /\ Advance(AfterHlt) = "inside"
        \/ ~KvmSkipsHlt /\ Advance(AfterHlt) = "sysret"
    BY DEF AfterHlt, Advance
  <2> QED BY <2>1, <2>2, <2>3 DEF Registers
<1>28. CASE Exec("inside", "inside", FALSE, vcpu)
  BY <1>0, <1>3, <1>28 DEF Exec, Registers, Vcpus
<1> QED BY <1>1, <1>2, <1>4, <1>5, <1>6, <1>7, <1>8, <1>9, <1>10, <1>11, <1>12, <1>13,
           <1>14,
           <1>15, <1>16, <1>17, <1>18, <1>20, <1>21, <1>22, <1>23, <1>24, <1>26, <1>27,
           <1>28
        DEF Next, Boot, Run, Lost, Load, vars

----------------------------------------------------------------------------
(* What is read and fetched on a good layout                               *)

(* A set of numbers that has a bound has a largest one.                    *)
LEMMA LargestNumber ==
    ASSUME NEW n \in Nat, NEW S \in SUBSET (1..n), S # {}
    PROVE  Max(S) \in S
<1> DEFINE T == {n - x : x \in S}
<1>0. \A x \in S : x \in Nat /\ n - x \in Nat
  OBVIOUS
<1>1. T \in SUBSET Nat /\ T # {}
  BY <1>0
<1> HIDE DEF T
<1>2. PICK t \in T : \A k \in T : t <= k
  BY <1>1, LP!LeastNat, LPAssumptions, MemoryAssumption, LoadAssumption
<1>3. PICK x \in S : t = n - x
  BY <1>2 DEF T
<1>4. ASSUME NEW y \in S PROVE x >= y
  <2>1. n - x <= n - y
    BY <1>2, <1>3 DEF T
  <2> QED BY <1>0, <2>1
<1> QED BY <1>3, <1>4 DEF Max

(* Entry point, descriptor tables and program are in pages of sections.    *)
LEMMA EntryPages ==
    ASSUME files \in Layouts
    PROVE  /\ \E a \in L!SectionIds : a[1] = 1 /\ BootPage \in L!PagesOf(a)
           /\ \E a \in L!SectionIds : a[1] = 1 /\ GdtPage \in L!PagesOf(a)
           /\ \A p \in PagesIn(2) : \E a \in L!SectionIds : a[1] = 2 /\ p \in L!PagesOf(a)
<1>1. /\ Len(files) = 2 /\ files[1] # <<>> /\ L!Loaded(files[1][1])
      /\ files \in Seq(Seq(L!Sections))
  BY EntriesAssumption, LoadAssumption
<1>2. DOMAIN files = {1, 2} /\ files[1] \in Seq(L!Sections)
  BY <1>1
<1>3. \A i \in {1, 2} : \A s \in LoadedIn(i) :
         <<i, s>> \in L!SectionIds /\ L!Sec(<<i, s>>) = files[i][s]
  BY <1>2 DEF L!SectionIds, LoadedIn, L!Sec
<1>4. \A a \in L!SectionIds : L!Sec(a).addr.page \in L!PagesOf(a)
  BY LP!SectionType, LPAssumptions, MemoryAssumption, LoadAssumption, SameSec, SameIds
<1>5. 1 \in LoadedIn(1) /\ LoadedIn(1) \subseteq 1..Len(files[1]) /\ Len(files[1]) \in Nat
  BY <1>1, <1>2 DEF LoadedIn
<1>6. Max(LoadedIn(1)) \in LoadedIn(1)
  BY <1>5, LargestNumber
<1>7. \A s \in LoadedIn(1) : \E a \in L!SectionIds : a[1] = 1 /\ files[1][s].addr.page \in L!PagesOf(a)
  <2> SUFFICES ASSUME NEW s \in LoadedIn(1)
               PROVE  <<1, s>> \in L!SectionIds /\ files[1][s].addr.page \in L!PagesOf(<<1, s>>)
    OBVIOUS
  <2> QED BY <1>3, <1>4
<1>8. \A p \in PagesIn(2) : \E a \in L!SectionIds : a[1] = 2 /\ p \in L!PagesOf(a)
  <2> SUFFICES ASSUME NEW s \in LoadedIn(2), NEW p \in L!PagesOf(<<2, s>>)
               PROVE  \E a \in L!SectionIds : a[1] = 2 /\ p \in L!PagesOf(a)
    BY DEF PagesIn
  <2> QED BY <1>3
<1> QED BY <1>5, <1>6, <1>7, <1>8 DEF BootPage, GdtPage

(* A page of a section can be read from every ring, and has the section.   *)
LEMMA GoodReads ==
    ASSUME LoadedWell, L!GoodLayout, L!Done, Registers,
           NEW a \in L!SectionIds, NEW p \in L!PagesOf(a), NEW r \in {0, 3}
    PROVE  Reads(p, r, a[1])
<1>1. p \in L!FilePages
  BY DEF L!FilePages
<1>2. Mapped(m, p) /\ gva_to_gpa(m, At(p, {})).page = p /\ Rights(m, p) = Flags
  BY <1>1 DEF LoadedWell, At
<1>3. Translated(p) = p
  BY <1>2 DEF Translated
<1>4. \E d \in data[p] : d.section = a
  BY DEF LoadedWell
<1>5. \E d \in data[Translated(p)] : d.section[1] = a[1]
  BY <1>3, <1>4
<1>6. Reaches(p, IF r = 3 THEN {0, 2} ELSE {0})
  BY <1>2 DEF Reaches, Flags, Registers
<1> QED BY <1>5, <1>6 DEF Reads

(* The program can push to its stack.                                      *)
LEMMA GoodStackReach ==
    ASSUME LoadedWell, Bootable, L!Done, Registers
    PROVE  StackTop # 0 /\ Reaches(StackTop - 1, Flags)
<1>1. stack.size \in Nat /\ stack.size > 0 /\ stack.size % 2 = 0 /\ stack.size \div 2 <= StackTop
  BY DEF LoadedWell, Bootable, L!GoodLayout, L!GoodStack, L!WholeStack
<1>2. StackTop \in Nat
  BY LoadAssumption
<1>3. stack.size \div 2 >= 1 /\ StackTop # 0 /\ stack.size \div 2 \in Nat
  BY <1>1, <1>2
<1>4. StackTop - 1 \in L!StackFrames
  BY <1>2, <1>3 DEF L!StackFrames
<1>5. Mapped(m, StackTop - 1) /\ Rights(m, StackTop - 1) = Flags
  BY <1>4 DEF LoadedWell, Bootable
<1> QED BY <1>3, <1>5 DEF Reaches, Registers

(* The next instruction of a vCPU that a good layout started can be fetched.*)
LEMMA GoodFetch ==
    ASSUME LoadedWell, Bootable, L!Done, Registers, BInv, vcpu.exit = "none",
           vcpu.pc \notin {"reset", "zero"}
    PROVE  Fetches
<1>1. files \in Layouts /\ L!GoodLayout
  BY DEF LoadedWell, Bootable
<1>2. CASE vcpu.pc = "user"
  <2>1. \A p \in PagesIn(2) : Reads(p, 3, 2)
    BY <1>1, EntryPages, GoodReads
  <2> QED BY <1>2, <2>1 DEF Fetches
<1>3. CASE vcpu.pc # "user"
  <2>1. vcpu.cs.ring \in {0, 3}
    BY DEF BInv, TypeOK, Vcpus, Segments
  <2>2. Reads(BootPage, vcpu.cs.ring, 1)
    BY <1>1, <2>1, EntryPages, GoodReads
  <2> QED BY <1>3, <2>2 DEF Fetches
<1> QED BY <1>2, <1>3

----------------------------------------------------------------------------
(* No fault.  The vCPU is started when all is loaded.                      *)
NoFault == /\ vcpu.pc # "reset" => L!Done
           /\ FaultsOnlyWhenLost

LEMMA NoFaultInit == Init => NoFault
BY DEF Init, ResetCpu, NoFault, FaultsOnlyWhenLost

(* The vCPU changes nothing of what was loaded.                            *)
LEMMA StillGood == loaded' = loaded => (Bootable' <=> Bootable) /\ (L!Done' <=> L!Done)
<1> SUFFICES ASSUME loaded' = loaded PROVE (Bootable' <=> Bootable) /\ (L!Done' <=> L!Done)
  OBVIOUS
<1>1. LP!GoodLayout' <=> LP!GoodLayout
  BY LP!SameLayout, LPAssumptions, MemoryAssumption, LoadAssumption DEF loaded
<1>2. L!GoodLayout' <=> LP!GoodLayout'
  BY SameGood, PTL
<1> QED BY <1>1, <1>2, SameGood DEF loaded, Bootable, L!Done

(* There is nothing left to load when the vCPU has been started.           *)
LEMMA LoadFirst ==
    ASSUME NoFault, LoadedWell, Load
    PROVE  vcpu.pc = "reset"
<1> SUFFICES ASSUME L!Done, L!Next PROVE FALSE
  BY DEF NoFault, Load
<1>1. stack.at = "mapped" /\ at[1] > Len(files)
  BY DEF L!Done
<1>2. L!Loading
  BY <1>1 DEF L!Next, L!MapStackTop, L!MapStackPage, L!StackMapped, L!SkipSection,
              L!LoadSection, L!NextFile
<1>3. at[1] <= Len(files)
  BY <1>2 DEF L!Loading
<1>4. at[1] \in Nat /\ Len(files) = 2
  BY EntriesAssumption DEF LoadedWell
<1> QED BY <1>1, <1>3, <1>4

LEMMA NoFaultNext ==
    BInv /\ Registers /\ LoadedWell /\ NoFault /\ [Next]_vars => NoFault'
<1> SUFFICES ASSUME BInv, Registers, LoadedWell, NoFault, [Next]_vars PROVE NoFault'
  OBVIOUS
<1>0. vcpu \in Vcpus
  BY DEF BInv, TypeOK
<1>1. CASE UNCHANGED vars
  <2>1. loaded' = loaded /\ vcpu' = vcpu
    BY <1>1 DEF vars
  <2> QED BY <2>1, StillGood DEF NoFault, FaultsOnlyWhenLost
<1>2. CASE Launch
  <2>1. L!Done /\ vcpu'.pc = "_start" /\ vcpu'.exit = "none" /\ loaded' = loaded
    BY <1>0, <1>2 DEF Launch, Registers, Vcpus
  <2> QED BY <2>1, StillGood DEF NoFault, FaultsOnlyWhenLost
(* An instruction that is allowed on a good layout.                        *)
<1>3. ASSUME vcpu.pc \notin {"reset", "zero"}, vcpu.exit = "none", loaded' = loaded,
             Bootable /\ Fetches => vcpu'.exit # "shutdown"
      PROVE  NoFault'
  <2>1. L!Done /\ L!Done'
    BY <1>3, StillGood DEF NoFault
  <2>2. Bootable' => Bootable /\ Fetches
    BY <1>3, <2>1, StillGood, GoodFetch
  <2> QED BY <1>3, <2>1, <2>2 DEF NoFault, FaultsOnlyWhenLost
(* The descriptor tables are in a page of the boot code.                   *)
<1>17. ASSUME Bootable, vcpu.pc # "reset" PROVE Reads(GdtPage, 0, 1)
  <2>1. L!Done /\ files \in Layouts /\ L!GoodLayout
    BY <1>17 DEF NoFault, LoadedWell, Bootable
  <2> QED BY <2>1, EntryPages, GoodReads
<1>4. CASE LoadGdt32
  BY <1>0, <1>3, <1>4, <1>17 DEF LoadGdt32, LoadGdt, Exec, Vcpus
<1>5. CASE ProtectOn
  BY <1>0, <1>3, <1>5 DEF ProtectOn, Exec, Vcpus
<1>6. CASE PaeOn
  BY <1>0, <1>3, <1>6 DEF PaeOn, Exec, Vcpus
<1>7. CASE LongOn
  BY <1>0, <1>3, <1>7 DEF LongOn, Exec, Vcpus
<1>8. CASE SetCr3
  BY <1>0, <1>3, <1>8 DEF SetCr3, Exec, Vcpus
<1>9. CASE LoadGdt64
  BY <1>0, <1>3, <1>9, <1>17 DEF LoadGdt64, LoadGdt, Exec, Vcpus
<1>10. CASE SseOn
  BY <1>0, <1>3, <1>10 DEF SseOn, Exec, Vcpus
<1>11. CASE SceOn
  BY <1>0, <1>3, <1>11 DEF SceOn, Exec, Vcpus
<1>12. CASE SetLstar
  BY <1>0, <1>3, <1>12 DEF SetLstar, Exec, Vcpus
<1>13. CASE SetStar
  BY <1>0, <1>3, <1>13 DEF SetStar, Exec, Vcpus
<1>14. CASE Vmcall
  BY <1>0, <1>3, <1>14 DEF Vmcall, Exec, Vcpus
<1>15. CASE PagingOn
  <2>1. vcpu.pc = "paging" /\ vcpu.exit = "none"
    BY <1>15, ExecSteps DEF PagingOn
  <2>2. "PE" \in vcpu.cr0 /\ "PAE" \in vcpu.cr4
    BY <2>1 DEF Registers
  <2> QED BY <1>0, <1>3, <1>15, <2>1, <2>2 DEF PagingOn, Exec, Vcpus
<1>16. CASE SetStack
  <2>1. vcpu.pc = "main64" /\ vcpu.exit = "none"
    BY <1>16, ExecSteps DEF SetStack
  <2>2. vcpu.cs.bits = 64
    BY <2>1 DEF Registers, LongPlaces
  <2> QED BY <1>0, <1>3, <1>16, <2>1, <2>2 DEF SetStack, Exec, Vcpus
<1>18. CASE Jump32
  <2>1. vcpu.pc = "jump32" /\ vcpu.exit = "none"
    BY <1>18, ExecSteps DEF Jump32, FarJump
  <2>2. "PE" \in vcpu.cr0 /\ Segment(vcpu.gdt, 8).bits = 32
    BY <2>1 DEF Registers, Segment, Code
  <2> QED BY <1>0, <1>3, <1>17, <1>18, <2>1, <2>2 DEF Jump32, FarJump, Exec, Vcpus
<1>19. CASE Jump64
  <2>1. vcpu.pc = "jump64" /\ vcpu.exit = "none"
    BY <1>19, ExecSteps DEF Jump64, FarJump
  <2>2. "PE" \in vcpu.cr0 /\ Segment(vcpu.gdt, 8).bits = 64 /\ "LME" \in vcpu.efer /\ Paging
    BY <2>1 DEF Registers, Segment, Code
  <2> QED BY <1>0, <1>3, <1>17, <1>19, <2>1, <2>2 DEF Jump64, FarJump, Exec, Vcpus
<1>20. CASE BootSysret
  <2>1. vcpu.pc = "enter" /\ vcpu.exit = "none"
    BY <1>20, ExecSteps DEF BootSysret
  <2>2. vcpu.cs.ring = 0
    BY <1>0, <2>1 DEF BInv, RingsApart, Vcpus, Segments
  <2>3. Returns
    BY <2>1, <2>2 DEF Returns, Registers, LongPlaces, ScePlaces
  <2> QED BY <1>0, <1>3, <1>20, <2>1, <2>3 DEF BootSysret, Exec, Vcpus
<1>21. CASE Sysret
  <2>1. vcpu.pc = "sysret" /\ vcpu.exit = "none"
    BY <1>21, ExecSteps DEF Sysret
  <2>2. vcpu.cs.ring = 0
    BY <1>0, <2>1 DEF BInv, RingsApart, Vcpus, Segments
  <2>3. Returns
    BY <2>1, <2>2 DEF Returns, Registers, LongPlaces, ScePlaces
  <2> QED BY <1>0, <1>3, <1>21, <2>1, <2>3 DEF Sysret, Exec, Vcpus
<1>22. CASE Syscall
  <2>1. vcpu.pc = "user" /\ vcpu.exit = "none"
    BY <1>22, ExecSteps DEF Syscall
  <2>2. "SCE" \in vcpu.efer /\ vcpu.sp = StackTop
    BY <2>1 DEF Registers, LongPlaces, StackPlaces, ScePlaces
  <2>3. Bootable => vcpu.sp # 0 /\ Reaches(vcpu.sp - 1, Flags)
    BY <2>1, <2>2, GoodStackReach DEF NoFault
  <2> QED BY <1>0, <1>3, <1>22, <2>1, <2>2, <2>3 DEF Syscall, Exec, Vcpus
<1>23. CASE Hlt
  <2>1. vcpu.pc = "syscall_handler" /\ vcpu.exit = "none"
    BY <1>23, ExecSteps DEF Hlt
  <2>2. vcpu.cs.ring = 0
    BY <1>0, <2>1 DEF BInv, RingsApart, Vcpus, Segments
  <2> QED BY <1>0, <1>3, <1>23, <2>1, <2>2 DEF Hlt, Exec, Vcpus
(* At address 0 only a restored vCPU is, and no vCPU of a KVM that skips   *)
(* the HLT; inside the SYSRET only one of these.                           *)
<1>24. CASE Exec("zero", "zero", FALSE, vcpu)
  <2>1. vcpu.pc = "zero" /\ loaded' = loaded /\ vcpu.bin = "restore" /\ ~KvmSkipsHlt
    BY <1>24 DEF Exec, Registers
  <2>2. vcpu' = [vcpu EXCEPT !.pc = "zero"] \/ vcpu' = [vcpu EXCEPT !.exit = "shutdown"]
    BY <1>24 DEF Exec
  <2>3. vcpu'.pc = "zero" /\ vcpu'.bin = "restore"
    BY <1>0, <2>1, <2>2 DEF Vcpus
  <2> QED BY <2>1, <2>3, StillGood DEF NoFault, FaultsOnlyWhenLost
<1>27. CASE Exec("inside", "inside", FALSE, vcpu)
  <2>1. vcpu.pc = "inside" /\ loaded' = loaded /\ KvmSkipsHlt
    BY <1>27 DEF Exec, Registers
  <2>2. vcpu' = [vcpu EXCEPT !.pc = "inside"] \/ vcpu' = [vcpu EXCEPT !.exit = "shutdown"]
    BY <1>27 DEF Exec
  <2>3. vcpu'.pc = "inside"
    BY <1>0, <2>1, <2>2 DEF Vcpus
  <2> QED BY <2>1, <2>3, StillGood DEF NoFault, FaultsOnlyWhenLost
<1>25. CASE Serve \/ Stop \/ Restore
  <2>1. vcpu.pc # "reset" /\ loaded' = loaded /\ vcpu'.exit # "shutdown"
    BY <1>0, <1>25 DEF Serve, Stop, Restore, Handled, BInv, ExitAtCall, Vcpus, AfterHlt, Advance
  <2> QED BY <2>1, StillGood DEF NoFault, FaultsOnlyWhenLost
<1>26. CASE Load
  <2>1. vcpu' = vcpu
    BY <1>26 DEF Load
  <2>2. vcpu.pc = "reset"
    BY <1>26, LoadFirst
  <2> QED BY <2>1, <2>2 DEF NoFault, FaultsOnlyWhenLost, Registers
<1> QED BY <1>1, <1>2, <1>4, <1>5, <1>6, <1>7, <1>8, <1>9, <1>10, <1>11, <1>12, <1>13,
           <1>14, <1>15, <1>16, <1>18, <1>19, <1>20, <1>21, <1>22, <1>23, <1>24,
           <1>25, <1>26, <1>27
        DEF Next, Boot, Run, Lost

LEMMA NoFaultHolds == Spec => [](BInv /\ Registers /\ LoadedWell /\ NoFault)
BY BInvInit, BInvNext, RegistersInit, RegistersNext, LoadedWellHolds, NoFaultInit,
   NoFaultNext, PTL DEF Spec

(* With any good layout, a stack of at least a page and any program, the   *)
(* guest runs from launch_vm on without a fault, through all changes of    *)
(* mode and every call; it faults only where the VMM has lost it, which is *)
(* at address 0 when it was restored without LSTAR, or, with a KVM that    *)
(* skips the HLT, inside the SYSRET (boot.asm:6-88,                        *)
(* syscall_handler.c:75-76).                                               *)
THEOREM FaultsTheorem == Spec => []FaultsOnlyWhenLost
<1>1. NoFault => FaultsOnlyWhenLost
  BY DEF NoFault
<1> QED BY <1>1, NoFaultHolds, PTL

----------------------------------------------------------------------------
(* The steps as those of Migration                                         *)


(* What Migration has in memory while the guest runs.                      *)
FullMem == [tables |-> TRUE, boot |-> TRUE, app |-> TRUE, fd |-> -1]

LEMMA RunningAbs ==
    ASSUME vcpu.pc # "reset"
    PROVE  /\ AbsStage = IF vcpu.exit = "stopped" THEN "saving" ELSE "run"
           /\ AbsMem = FullMem
<1>1. AbsStage = IF vcpu.exit = "stopped" THEN "saving" ELSE "run"
  BY DEF AbsStage
<1> QED BY <1>1 DEF AbsMem, FullMem

LEMMA SameFds == AbsMem' = AbsMem /\ vcpu'.bin = vcpu.bin => AbsFds' = AbsFds
BY DEF AbsFds, FdsWith

(* What a step of the guest leaves as it is in Migration.                  *)
LEMMA GuestStep ==
    ASSUME vcpu.pc # "reset", vcpu'.pc # "reset", vcpu.exit # "stopped",
           vcpu'.exit # "stopped", program' = program, vcpu'.bin = vcpu.bin
    PROVE  /\ AbsStage = "run" /\ AbsStage' = "run" /\ AbsMem = FullMem
           /\ AbsMem' = AbsMem /\ AbsFds' = AbsFds /\ Calls' = Calls
           /\ AbsTrap = vcpu.exit /\ AbsTrap' = vcpu'.exit
<1>1. AbsStage = "run" /\ AbsMem = FullMem
  BY RunningAbs
<1>2. AbsStage' = "run" /\ AbsMem' = FullMem
  <2>1. AbsStage' = "run"
    BY DEF AbsStage
  <2> QED BY <2>1 DEF AbsMem, FullMem
<1>3. AbsFds' = AbsFds
  BY <1>1, <1>2, SameFds
<1> QED BY <1>1, <1>2, <1>3 DEF AbsTrap, Calls

(* Inside the boot code a step is one of Migration only when it changes    *)
(* the mode of the processor.                                              *)
LEMMA InsideBoot ==
    ASSUME vcpu.pc \in BootPlaces, vcpu'.pc \in BootPlaces, vcpu.exit = "none",
           vcpu'.exit = "none", program' = program, vcpu'.bin = vcpu.bin,
           vcpu'.next = vcpu.next, vcpu'.rax = vcpu.rax
    PROVE  /\ vcpu'.cs.bits = vcpu.cs.bits => M!vars' = M!vars
           /\ vcpu.cs.bits = 16 /\ vcpu'.cs.bits = 32 => M!BootProtected
           /\ vcpu.cs.bits = 32 /\ vcpu'.cs.bits = 64 => M!BootLong
<1>1. vcpu.pc # "reset" /\ vcpu'.pc # "reset"
  BY DEF BootPlaces
<1>2. /\ AbsStage = "run" /\ AbsStage' = AbsStage /\ AbsMem' = AbsMem /\ AbsFds' = AbsFds
      /\ AbsTrap = "none" /\ AbsTrap' = AbsTrap /\ Calls' = Calls
      /\ AbsMem.tables
  BY <1>1, GuestStep DEF FullMem
<1>3. AbsRegs' = AbsRegs /\ AbsRegs.rip = "boot"
  <2>1. AbsRip = "boot" /\ AbsRip' = "boot"
    BY DEF AbsRip, BootPlaces
  <2> QED BY <2>1 DEF AbsRegs
<1>4. AbsMsrs' = AbsMsrs
  BY DEF AbsMsrs
<1>5. ASSUME vcpu'.cs.bits = vcpu.cs.bits PROVE M!vars' = M!vars
  <2>1. AbsSregs' = AbsSregs
    BY <1>5 DEF AbsSregs
  <2> QED BY <1>2, <1>3, <1>4, <2>1 DEF M!vars, Calls
<1>6. ASSUME vcpu.cs.bits = 16, vcpu'.cs.bits = 32 PROVE M!BootProtected
  <2>1. AbsSregs = "real" /\ AbsSregs' = "protected"
    BY <1>6 DEF AbsSregs
  <2> QED BY <1>2, <1>3, <1>4, <2>1 DEF M!BootProtected, M!Running, Calls
<1>7. ASSUME vcpu.cs.bits = 32, vcpu'.cs.bits = 64 PROVE M!BootLong
  <2>1. AbsSregs = "protected" /\ AbsSregs' = "long"
    BY <1>7 DEF AbsSregs
  <2> QED BY <1>2, <1>3, <1>4, <2>1 DEF M!BootLong, M!Running, Calls
<1> QED BY <1>5, <1>6, <1>7

(* An instruction of a guest that does not fault.                          *)
LEMMA Executed ==
    ASSUME BInv, NoFault', Bootable
    PROVE  \A from, to, allowed, new : Exec(from, to, allowed, new) /\ from # "zero" /\ from # "inside" =>
              /\ vcpu.exit = "none" /\ vcpu.pc = from /\ program' = program
              /\ vcpu' = [new EXCEPT !.pc = to]
<1>1. vcpu \in Vcpus
  BY DEF BInv, TypeOK
<1>2. ASSUME loaded' = loaded, vcpu' = [vcpu EXCEPT !.exit = "shutdown"]
      PROVE  vcpu.pc \in {"zero", "inside"}
  <2>1. vcpu'.exit = "shutdown" /\ vcpu'.pc = vcpu.pc
    BY <1>1, <1>2 DEF Vcpus
  <2>2. Bootable'
    BY <1>2, StillGood
  <2> QED BY <2>1, <2>2 DEF NoFault, FaultsOnlyWhenLost
<1> QED BY <1>2 DEF Exec

LEMMA BootStep ==
    ASSUME BInv, Registers, NoFault', Bootable, Boot
    PROVE  M!vars' = M!vars \/ M!BootProtected \/ M!BootLong \/ M!BootUser
<1>0. vcpu \in Vcpus
  BY DEF BInv, TypeOK
(* An instruction at one place of the boot code that goes on to another.   *)
<1>1. ASSUME NEW to \in BootPlaces, NEW new \in Vcpus, vcpu.exit = "none",
             vcpu.pc \in BootPlaces, program' = program, vcpu' = [new EXCEPT !.pc = to],
             new.bin = vcpu.bin, new.next = vcpu.next, new.rax = vcpu.rax,
             new.exit = vcpu.exit
      PROVE  /\ new.cs.bits = vcpu.cs.bits => M!vars' = M!vars
             /\ vcpu.cs.bits = 16 /\ new.cs.bits = 32 => M!BootProtected
             /\ vcpu.cs.bits = 32 /\ new.cs.bits = 64 => M!BootLong
  <2>1. /\ vcpu'.pc = to /\ vcpu'.bin = vcpu.bin /\ vcpu'.next = vcpu.next
        /\ vcpu'.rax = vcpu.rax /\ vcpu'.exit = "none" /\ vcpu'.cs = new.cs
    BY <1>1 DEF Vcpus
  <2> QED BY <1>1, <2>1, InsideBoot
<1>2. CASE LoadGdt32
  <2> DEFINE new == [vcpu EXCEPT !.gdt = "gdt32"]
  <2>1. /\ new \in Vcpus /\ new.bin = vcpu.bin /\ new.next = vcpu.next
        /\ new.rax = vcpu.rax /\ new.exit = vcpu.exit /\ new.cs = vcpu.cs
    BY <1>0 DEF Vcpus
  <2> HIDE DEF new
  <2>2. /\ vcpu.exit = "none" /\ vcpu.pc = "_start" /\ program' = program
        /\ vcpu' = [new EXCEPT !.pc = "protect"]
    BY <1>2, Executed DEF LoadGdt32, LoadGdt, new
  <2> QED BY <1>1, <2>1, <2>2 DEF BootPlaces
<1>3. CASE ProtectOn
  <2> DEFINE new == [vcpu EXCEPT !.cr0 = @ \cup {"PE"}]
  <2>1. /\ new \in Vcpus /\ new.bin = vcpu.bin /\ new.next = vcpu.next
        /\ new.rax = vcpu.rax /\ new.exit = vcpu.exit /\ new.cs = vcpu.cs
    BY <1>0 DEF Vcpus
  <2> HIDE DEF new
  <2>2. /\ vcpu.exit = "none" /\ vcpu.pc = "protect" /\ program' = program
        /\ vcpu' = [new EXCEPT !.pc = "jump32"]
    BY <1>3, Executed DEF ProtectOn, new
  <2> QED BY <1>1, <2>1, <2>2 DEF BootPlaces
<1>4. CASE PaeOn
  <2> DEFINE new == [vcpu EXCEPT !.cr4 = @ \cup {"PAE"}]
  <2>1. /\ new \in Vcpus /\ new.bin = vcpu.bin /\ new.next = vcpu.next
        /\ new.rax = vcpu.rax /\ new.exit = vcpu.exit /\ new.cs = vcpu.cs
    BY <1>0 DEF Vcpus
  <2> HIDE DEF new
  <2>2. /\ vcpu.exit = "none" /\ vcpu.pc = "main32" /\ program' = program
        /\ vcpu' = [new EXCEPT !.pc = "long"]
    BY <1>4, Executed DEF PaeOn, new
  <2> QED BY <1>1, <2>1, <2>2 DEF BootPlaces
<1>5. CASE LongOn
  <2> DEFINE new == [vcpu EXCEPT !.efer = @ \cup {"LME", "NXE"}]
  <2>1. /\ new \in Vcpus /\ new.bin = vcpu.bin /\ new.next = vcpu.next
        /\ new.rax = vcpu.rax /\ new.exit = vcpu.exit /\ new.cs = vcpu.cs
    BY <1>0 DEF Vcpus
  <2> HIDE DEF new
  <2>2. /\ vcpu.exit = "none" /\ vcpu.pc = "long" /\ program' = program
        /\ vcpu' = [new EXCEPT !.pc = "cr3"]
    BY <1>5, Executed DEF LongOn, new
  <2> QED BY <1>1, <2>1, <2>2 DEF BootPlaces
<1>6. CASE SetCr3
  <2> DEFINE new == [vcpu EXCEPT !.cr3 = Root]
  <2>1. /\ new \in Vcpus /\ new.bin = vcpu.bin /\ new.next = vcpu.next
        /\ new.rax = vcpu.rax /\ new.exit = vcpu.exit /\ new.cs = vcpu.cs
    BY <1>0 DEF Vcpus
  <2> HIDE DEF new
  <2>2. /\ vcpu.exit = "none" /\ vcpu.pc = "cr3" /\ program' = program
        /\ vcpu' = [new EXCEPT !.pc = "paging"]
    BY <1>6, Executed DEF SetCr3, new
  <2> QED BY <1>1, <2>1, <2>2 DEF BootPlaces
<1>7. CASE PagingOn
  <2> DEFINE new == [vcpu EXCEPT !.cr0 = @ \cup {"PG"}]
  <2>1. /\ new \in Vcpus /\ new.bin = vcpu.bin /\ new.next = vcpu.next
        /\ new.rax = vcpu.rax /\ new.exit = vcpu.exit /\ new.cs = vcpu.cs
    BY <1>0 DEF Vcpus
  <2> HIDE DEF new
  <2>2. /\ vcpu.exit = "none" /\ vcpu.pc = "paging" /\ program' = program
        /\ vcpu' = [new EXCEPT !.pc = "gdt64"]
    BY <1>7, Executed DEF PagingOn, new
  <2> QED BY <1>1, <2>1, <2>2 DEF BootPlaces
<1>8. CASE LoadGdt64
  <2> DEFINE new == [vcpu EXCEPT !.gdt = "gdt64"]
  <2>1. /\ new \in Vcpus /\ new.bin = vcpu.bin /\ new.next = vcpu.next
        /\ new.rax = vcpu.rax /\ new.exit = vcpu.exit /\ new.cs = vcpu.cs
    BY <1>0 DEF Vcpus
  <2> HIDE DEF new
  <2>2. /\ vcpu.exit = "none" /\ vcpu.pc = "gdt64" /\ program' = program
        /\ vcpu' = [new EXCEPT !.pc = "jump64"]
    BY <1>8, Executed DEF LoadGdt64, LoadGdt, new
  <2> QED BY <1>1, <2>1, <2>2 DEF BootPlaces
<1>9. CASE SetStack
  <2> DEFINE new == [vcpu EXCEPT !.sp = StackTop]
  <2>1. /\ new \in Vcpus /\ new.bin = vcpu.bin /\ new.next = vcpu.next
        /\ new.rax = vcpu.rax /\ new.exit = vcpu.exit /\ new.cs = vcpu.cs
    BY <1>0 DEF Vcpus
  <2> HIDE DEF new
  <2>2. /\ vcpu.exit = "none" /\ vcpu.pc = "main64" /\ program' = program
        /\ vcpu' = [new EXCEPT !.pc = "sse"]
    BY <1>9, Executed DEF SetStack, new
  <2> QED BY <1>1, <2>1, <2>2 DEF BootPlaces
<1>10. CASE SseOn
  <2> DEFINE new == [vcpu EXCEPT !.cr4 = @ \cup {"SSE"}]
  <2>1. /\ new \in Vcpus /\ new.bin = vcpu.bin /\ new.next = vcpu.next
        /\ new.rax = vcpu.rax /\ new.exit = vcpu.exit /\ new.cs = vcpu.cs
    BY <1>0 DEF Vcpus
  <2> HIDE DEF new
  <2>2. /\ vcpu.exit = "none" /\ vcpu.pc = "sse" /\ program' = program
        /\ vcpu' = [new EXCEPT !.pc = "sce"]
    BY <1>10, Executed DEF SseOn, new
  <2> QED BY <1>1, <2>1, <2>2 DEF BootPlaces
<1>11. CASE SceOn
  <2> DEFINE new == [vcpu EXCEPT !.efer = @ \cup {"SCE"}]
  <2>1. /\ new \in Vcpus /\ new.bin = vcpu.bin /\ new.next = vcpu.next
        /\ new.rax = vcpu.rax /\ new.exit = vcpu.exit /\ new.cs = vcpu.cs
    BY <1>0 DEF Vcpus
  <2> HIDE DEF new
  <2>2. /\ vcpu.exit = "none" /\ vcpu.pc = "sce" /\ program' = program
        /\ vcpu' = [new EXCEPT !.pc = "lstar"]
    BY <1>11, Executed DEF SceOn, new
  <2> QED BY <1>1, <2>1, <2>2 DEF BootPlaces
<1>12. CASE SetLstar
  <2> DEFINE new == [vcpu EXCEPT !.lstar = "syscall_handler"]
  <2>1. /\ new \in Vcpus /\ new.bin = vcpu.bin /\ new.next = vcpu.next
        /\ new.rax = vcpu.rax /\ new.exit = vcpu.exit /\ new.cs = vcpu.cs
    BY <1>0 DEF Vcpus
  <2> HIDE DEF new
  <2>2. /\ vcpu.exit = "none" /\ vcpu.pc = "lstar" /\ program' = program
        /\ vcpu' = [new EXCEPT !.pc = "star"]
    BY <1>12, Executed DEF SetLstar, new
  <2> QED BY <1>1, <2>1, <2>2 DEF BootPlaces
<1>13. CASE SetStar
  <2> DEFINE new == [vcpu EXCEPT !.star = [sysret |-> 24, syscall |-> 8]]
  <2>1. /\ new \in Vcpus /\ new.bin = vcpu.bin /\ new.next = vcpu.next
        /\ new.rax = vcpu.rax /\ new.exit = vcpu.exit /\ new.cs = vcpu.cs
    BY <1>0 DEF Vcpus
  <2> HIDE DEF new
  <2>2. /\ vcpu.exit = "none" /\ vcpu.pc = "star" /\ program' = program
        /\ vcpu' = [new EXCEPT !.pc = "vmcall"]
    BY <1>13, Executed DEF SetStar, new
  <2> QED BY <1>1, <2>1, <2>2 DEF BootPlaces
<1>14. CASE Vmcall
  <2>1. /\ vcpu.exit = "none" /\ vcpu.pc = "vmcall" /\ program' = program
        /\ vcpu' = [vcpu EXCEPT !.pc = "enter"]
    BY <1>14, Executed DEF Vmcall
  <2> QED BY <1>0, <1>1, <2>1 DEF BootPlaces
(* The far jumps change the mode.                                          *)
<1>15. CASE Jump32
  <2> DEFINE new == [vcpu EXCEPT !.cs = Segment(vcpu.gdt, 8)]
  <2>1. /\ vcpu.exit = "none" /\ vcpu.pc = "jump32" /\ program' = program
        /\ vcpu' = [new EXCEPT !.pc = "main32"]
    BY <1>15, Executed DEF Jump32, FarJump
  <2>2. vcpu.gdt = "gdt32" /\ vcpu.cs.bits = 16
    BY <2>1 DEF Registers
  <2>3. Segment(vcpu.gdt, 8) = Code(8, 32, 0)
    BY <2>2 DEF Segment
  <2>4. /\ new \in Vcpus /\ new.bin = vcpu.bin /\ new.next = vcpu.next
        /\ new.rax = vcpu.rax /\ new.exit = vcpu.exit /\ new.cs.bits = 32
    BY <1>0, <2>3 DEF Vcpus, Segments, Code
  <2> HIDE DEF new
  <2> QED BY <1>1, <2>1, <2>2, <2>4 DEF BootPlaces
<1>16. CASE Jump64
  <2> DEFINE new == [vcpu EXCEPT !.cs = Segment(vcpu.gdt, 8)]
  <2>1. /\ vcpu.exit = "none" /\ vcpu.pc = "jump64" /\ program' = program
        /\ vcpu' = [new EXCEPT !.pc = "main64"]
    BY <1>16, Executed DEF Jump64, FarJump
  <2>2. vcpu.gdt = "gdt64" /\ vcpu.cs.bits = 32
    BY <2>1 DEF Registers
  <2>3. Segment(vcpu.gdt, 8) = Code(8, 64, 0)
    BY <2>2 DEF Segment
  <2>4. /\ new \in Vcpus /\ new.bin = vcpu.bin /\ new.next = vcpu.next
        /\ new.rax = vcpu.rax /\ new.exit = vcpu.exit /\ new.cs.bits = 64
    BY <1>0, <2>3 DEF Vcpus, Segments, Code
  <2> HIDE DEF new
  <2> QED BY <1>1, <2>1, <2>2, <2>4 DEF BootPlaces
(* SYSRET into the program; before the first restore LSTAR is set.         *)
<1>17. CASE BootSysret
  <2> DEFINE new == [vcpu EXCEPT !.cs = UserCs]
  <2>1. /\ vcpu.exit = "none" /\ vcpu.pc = "enter" /\ program' = program
        /\ vcpu' = [new EXCEPT !.pc = "user"]
    BY <1>17, Executed DEF BootSysret
  <2>2. /\ vcpu.cs.bits = 64 /\ vcpu.lstar = "syscall_handler" /\ vcpu.star = BootStar
        /\ vcpu.pc \in BootPlaces
    BY <2>1 DEF Registers, LongPlaces, ScePlaces, LstarPlaces, StarPlaces, BootPlaces
  <2>3. /\ vcpu'.pc = "user" /\ vcpu'.bin = vcpu.bin /\ vcpu'.next = vcpu.next
        /\ vcpu'.rax = vcpu.rax /\ vcpu'.exit = "none" /\ vcpu'.cs = UserCs
        /\ vcpu'.lstar = "syscall_handler" /\ vcpu'.star = BootStar
    BY <1>0, <2>1, <2>2 DEF Vcpus
  <2>4. /\ AbsStage = "run" /\ AbsStage' = AbsStage /\ AbsMem' = AbsMem
        /\ AbsFds' = AbsFds /\ AbsTrap = "none" /\ AbsTrap' = AbsTrap
        /\ Calls' = Calls
    BY <2>1, <2>3, GuestStep
  <2>5. AbsRip = "boot" /\ AbsRip' = "user"
    BY <2>2, <2>3 DEF AbsRip, BootPlaces
  <2>6. AbsRegs.rip = "boot" /\ AbsRegs' = [AbsRegs EXCEPT !.rip = "user"]
    BY <2>3, <2>5 DEF AbsRegs
  <2>7. AbsSregs = "long" /\ AbsSregs' = "long"
    BY <2>2, <2>3 DEF AbsSregs, UserCs, Code
  <2>8. AbsMsrs' = "set"
    BY <2>3 DEF AbsMsrs, MsrsSet, BootPlaces, BootStar, Segment
  <2> QED BY <2>3, <2>4, <2>6, <2>7, <2>8 DEF M!BootUser, M!Running, Calls
<1> QED BY <1>2, <1>3, <1>4, <1>5, <1>6, <1>7, <1>8, <1>9, <1>10,
           <1>11, <1>12, <1>13, <1>14, <1>15, <1>16, <1>17 DEF Boot

(* The program and its calls, at the exits the VMM handles.                *)
LEMMA RunStep ==
    ASSUME BInv, Registers, NoFault', Bootable, Run
    PROVE  M!GuestSyscall \/ M!GuestFault \/ M!GuestHlt \/ M!GuestSysret
              \/ M!SysUnserved \/ M!SysSave \/ M!SysExit
<1>0. vcpu \in Vcpus /\ vcpu.next \in DOMAIN program /\ program \in Seq({"unserved", "save", "exit"})
  BY ProgramLength, ProgramsAssumption DEF BInv, TypeOK, Vcpus
<1>1. Len(Calls) = Len(program) /\ Calls[vcpu.next].call = program[vcpu.next]
  BY <1>0 DEF Calls
(* The vCPU does not leave the program and syscall_handler.                *)
<1>2. ASSUME vcpu.pc \notin {"reset"} \cup BootPlaces, vcpu'.pc \notin {"reset"} \cup BootPlaces,
             vcpu.exit # "stopped", vcpu'.exit # "stopped", program' = program,
             vcpu'.bin = vcpu.bin, vcpu'.cs.bits = 64, vcpu.cs.bits = 64,
             vcpu'.lstar = vcpu.lstar, vcpu'.star = vcpu.star
      PROVE  /\ AbsStage = "run" /\ AbsStage' = AbsStage /\ AbsMem = FullMem /\ AbsMem' = AbsMem
             /\ AbsFds' = AbsFds /\ AbsTrap = vcpu.exit /\ AbsTrap' = vcpu'.exit
             /\ Calls' = Calls
             /\ AbsSregs' = AbsSregs /\ AbsMsrs' = AbsMsrs
  BY <1>2, GuestStep DEF AbsSregs, AbsMsrs, MsrsSet
<1>3. CASE Syscall
  <2> DEFINE cs  == Code(vcpu.star.syscall, 64, 0)
             new == [vcpu EXCEPT !.cs = cs]
  <2>1. /\ vcpu.exit = "none" /\ vcpu.pc = "user" /\ program' = program
        /\ vcpu' = [new EXCEPT !.pc = vcpu.lstar]
    BY <1>3, Executed DEF Syscall
  <2>2. cs.bits = 64 /\ vcpu.cs.bits = 64
    BY <2>1 DEF Code, Registers, LongPlaces
  <2> HIDE DEF cs
  <2>3. /\ vcpu'.pc = vcpu.lstar /\ vcpu'.bin = vcpu.bin /\ vcpu'.next = vcpu.next
        /\ vcpu'.rax = vcpu.rax /\ vcpu'.exit = "none" /\ vcpu'.cs = cs
        /\ vcpu'.lstar = vcpu.lstar /\ vcpu'.star = vcpu.star
    BY <1>0, <2>1 DEF Vcpus
  <2>4. vcpu.lstar \in {"zero", "syscall_handler"}
    BY <1>0 DEF Vcpus
  <2>5. /\ AbsStage = "run" /\ AbsStage' = AbsStage /\ AbsMem' = AbsMem
        /\ AbsFds' = AbsFds /\ AbsTrap = "none" /\ AbsTrap' = AbsTrap
        /\ Calls' = Calls /\ AbsSregs' = AbsSregs /\ AbsMsrs' = AbsMsrs
    BY <1>2, <2>1, <2>2, <2>3, <2>4 DEF BootPlaces
  <2>6. AbsRip = "user" /\ AbsRip' = IF vcpu.lstar = "zero" THEN "zero" ELSE "hlt"
    BY <2>1, <2>3, <2>4 DEF AbsRip, BootPlaces
  <2>7. AbsMsrs = IF vcpu.lstar = "zero" THEN "reset" ELSE "set"
    <3>1. \/ vcpu.lstar = "zero" /\ vcpu.star = NoMsrs
          \/ vcpu.lstar = "syscall_handler" /\ vcpu.star = BootStar
      BY <2>1 DEF Registers, LongPlaces, ScePlaces, LstarPlaces, StarPlaces
    <3>2. CASE vcpu.lstar = "zero" /\ vcpu.star = NoMsrs
      BY <2>1, <3>2 DEF AbsMsrs, MsrsSet, BootPlaces
    <3>3. CASE vcpu.lstar = "syscall_handler" /\ vcpu.star = BootStar
      BY <2>1, <3>3 DEF AbsMsrs, MsrsSet, BootPlaces, BootStar, Segment
    <3> QED BY <3>1, <3>2, <3>3
  <2>8. /\ AbsRegs.rip = "user"
        /\ AbsRegs' = [AbsRegs EXCEPT !.rip = IF AbsMsrs = "set" THEN "hlt" ELSE "zero"]
    BY <2>3, <2>6, <2>7 DEF AbsRegs
  <2>9. M!GuestSyscall
    BY <2>3, <2>5, <2>8 DEF M!GuestSyscall, M!Running, Calls
  <2> QED BY <2>9
(* At address 0 the fault is Migration's.                                  *)
<1>4. CASE Exec("zero", "zero", FALSE, vcpu)
  <2>1. vcpu.exit = "none" /\ vcpu.pc = "zero" /\ program' = program /\ vcpu.cs.bits = 64
    BY <1>4 DEF Exec, Registers, LongPlaces
  <2>2. vcpu' = [vcpu EXCEPT !.exit = "shutdown"]
    BY <1>4 DEF Exec
  <2>3. /\ vcpu'.pc = "zero" /\ vcpu'.bin = vcpu.bin /\ vcpu'.next = vcpu.next
        /\ vcpu'.rax = vcpu.rax /\ vcpu'.exit = "shutdown" /\ vcpu'.cs = vcpu.cs
        /\ vcpu'.lstar = vcpu.lstar /\ vcpu'.star = vcpu.star
    BY <1>0, <2>1, <2>2 DEF Vcpus
  <2>4. /\ AbsStage = "run" /\ AbsStage' = AbsStage /\ AbsMem' = AbsMem
        /\ AbsFds' = AbsFds /\ AbsTrap = "none" /\ AbsTrap' = "shutdown"
        /\ Calls' = Calls /\ AbsSregs' = AbsSregs /\ AbsMsrs' = AbsMsrs
    BY <1>2, <2>1, <2>3 DEF BootPlaces
  <2>5. AbsRip = "zero" /\ AbsRip' = "zero"
    BY <2>1, <2>3 DEF AbsRip, BootPlaces
  <2>6. AbsRegs.rip = "zero" /\ AbsRegs' = AbsRegs
    BY <2>3, <2>5 DEF AbsRegs
  <2>7. M!GuestFault
    BY <2>3, <2>4, <2>6 DEF M!GuestFault, M!Running, M!cpu, Calls
  <2> QED BY <2>7
(* And so is the one inside the SYSRET.                                    *)
<1>10. CASE Exec("inside", "inside", FALSE, vcpu)
  <2>1. vcpu.exit = "none" /\ vcpu.pc = "inside" /\ program' = program /\ vcpu.cs.bits = 64
    BY <1>10 DEF Exec, Registers, LongPlaces
  <2>2. vcpu' = [vcpu EXCEPT !.exit = "shutdown"]
    BY <1>10 DEF Exec
  <2>3. /\ vcpu'.pc = "inside" /\ vcpu'.bin = vcpu.bin /\ vcpu'.next = vcpu.next
        /\ vcpu'.rax = vcpu.rax /\ vcpu'.exit = "shutdown" /\ vcpu'.cs = vcpu.cs
        /\ vcpu'.lstar = vcpu.lstar /\ vcpu'.star = vcpu.star
    BY <1>0, <2>1, <2>2 DEF Vcpus
  <2>4. /\ AbsStage = "run" /\ AbsStage' = AbsStage /\ AbsMem' = AbsMem
        /\ AbsFds' = AbsFds /\ AbsTrap = "none" /\ AbsTrap' = "shutdown"
        /\ Calls' = Calls /\ AbsSregs' = AbsSregs /\ AbsMsrs' = AbsMsrs
    BY <1>2, <2>1, <2>3 DEF BootPlaces
  <2>5. AbsRip = "inside" /\ AbsRip' = "inside"
    BY <2>1, <2>3 DEF AbsRip, BootPlaces
  <2>6. AbsRegs.rip = "inside" /\ AbsRegs' = AbsRegs
    BY <2>3, <2>5 DEF AbsRegs
  <2>7. M!GuestFault
    BY <2>3, <2>4, <2>6 DEF M!GuestFault, M!Running, M!cpu, Calls
  <2> QED BY <2>7
<1>5. CASE Hlt
  <2> DEFINE new == [vcpu EXCEPT !.exit = "hlt"]
  <2>1. /\ vcpu.exit = "none" /\ vcpu.pc = "syscall_handler" /\ program' = program
        /\ vcpu' = [new EXCEPT !.pc = AfterHlt]
    <3>1. Exec("syscall_handler", AfterHlt, vcpu.cs.ring = 0, new)
      BY <1>5 DEF Hlt, AfterHlt
    <3> HIDE DEF new
    <3> QED BY <3>1, Executed
  <2>2. vcpu.cs.bits = 64
    BY <2>1 DEF Registers, LongPlaces
  <2>3. /\ vcpu'.pc = AfterHlt /\ vcpu'.bin = vcpu.bin /\ vcpu'.next = vcpu.next
        /\ vcpu'.rax = vcpu.rax /\ vcpu'.exit = "hlt" /\ vcpu'.cs = vcpu.cs
        /\ vcpu'.lstar = vcpu.lstar /\ vcpu'.star = vcpu.star
    BY <1>0, <2>1 DEF Vcpus
  <2>4. /\ AbsStage = "run" /\ AbsStage' = AbsStage /\ AbsMem' = AbsMem
        /\ AbsFds' = AbsFds /\ AbsTrap = "none" /\ AbsTrap' = "hlt"
        /\ Calls' = Calls /\ AbsSregs' = AbsSregs /\ AbsMsrs' = AbsMsrs
    BY <1>2, <2>1, <2>2, <2>3 DEF BootPlaces, AfterHlt
  <2>5. AbsRip = "hlt" /\ AbsRip' = IF KvmSkipsHlt THEN "sysret" ELSE "hlt"
    BY <2>1, <2>3 DEF AbsRip, BootPlaces, AfterHlt
  <2>6. /\ AbsRegs.rip = "hlt"
        /\ AbsRegs' = [AbsRegs EXCEPT !.rip = IF KvmSkipsHlt THEN "sysret" ELSE "hlt"]
    BY <2>3, <2>5 DEF AbsRegs
  <2>7. M!GuestHlt
    BY <2>3, <2>4, <2>6 DEF M!GuestHlt, M!Running, Calls
  <2> QED BY <2>7
<1>6. CASE Sysret
  <2> DEFINE k   == IF vcpu.next = Len(program) THEN vcpu.next ELSE vcpu.next + 1
             new == [vcpu EXCEPT !.cs = UserCs, !.next = k]
  <2>1. /\ vcpu.exit = "none" /\ vcpu.pc = "sysret" /\ program' = program
        /\ vcpu' = [new EXCEPT !.pc = "user"]
    <3>1. Exec("sysret", "user", Returns, new)
      BY <1>6 DEF Sysret
    <3> HIDE DEF k, new
    <3> QED BY <3>1, Executed
  <2>2. vcpu.cs.bits = 64 /\ UserCs.bits = 64
    BY <2>1 DEF Registers, LongPlaces, UserCs, Code
  <2> HIDE DEF k
  <2>3. /\ vcpu'.pc = "user" /\ vcpu'.bin = vcpu.bin /\ vcpu'.next = k
        /\ vcpu'.rax = vcpu.rax /\ vcpu'.exit = "none" /\ vcpu'.cs = UserCs
        /\ vcpu'.lstar = vcpu.lstar /\ vcpu'.star = vcpu.star
    BY <1>0, <2>1 DEF Vcpus
  <2>4. /\ AbsStage = "run" /\ AbsStage' = AbsStage /\ AbsMem' = AbsMem
        /\ AbsFds' = AbsFds /\ AbsTrap = "none" /\ AbsTrap' = AbsTrap
        /\ Calls' = Calls /\ AbsSregs' = AbsSregs /\ AbsMsrs' = AbsMsrs
    BY <1>2, <2>1, <2>2, <2>3 DEF BootPlaces
  <2>5. AbsRip = "sysret" /\ AbsRip' = "user"
    BY <2>1, <2>3 DEF AbsRip, BootPlaces
  <2>6. /\ AbsRegs.rip = "sysret" /\ AbsRegs.next = vcpu.next
        /\ AbsRegs' = [AbsRegs EXCEPT !.rip = "user",
                                      !.next = IF @ = Len(Calls) THEN @ ELSE @ + 1]
    <3>1. /\ AbsRegs = [rip |-> "sysret", next |-> vcpu.next, rax |-> vcpu.rax]
          /\ AbsRegs' = [rip |-> "user", next |-> k, rax |-> vcpu.rax]
      BY <2>3, <2>5 DEF AbsRegs
    <3>2. k = IF vcpu.next = Len(Calls) THEN vcpu.next ELSE vcpu.next + 1
      BY <1>1 DEF k
    <3>3. k = IF AbsRegs.next = Len(Calls) THEN AbsRegs.next ELSE AbsRegs.next + 1
      BY <3>1, <3>2
    <3> DEFINE r == [AbsRegs EXCEPT !.rip = "user"]
    <3>4. r = [rip |-> "user", next |-> vcpu.next, rax |-> vcpu.rax]
      BY <3>1
    <3>5. [AbsRegs EXCEPT !.rip = "user", !.next = k] = [r EXCEPT !.next = k]
      BY <3>1
    <3> HIDE DEF r
    <3>6. AbsRegs' = [r EXCEPT !.next = k]
      BY <3>1, <3>4
    <3> QED BY <3>1, <3>3, <3>5, <3>6
  <2>7. Calls[AbsRegs.next].call # "open"
    BY <1>0, <1>1, <2>6
  <2>8. M!GuestSysret
    BY <2>3, <2>4, <2>6, <2>7 DEF M!GuestSysret, M!Running, Calls
  <2> QED BY <2>8
(* The VMM completes a call.                                               *)
<1>7. ASSUME vcpu.exit = "hlt", NEW r \in {0, 1}, NEW exit \in {"none", "stopped"}, Handled(r, exit)
      PROVE  /\ AbsStage = "run" /\ AbsTrap = "hlt" /\ AbsTrap' = "none"
             /\ AbsStage' = IF exit = "stopped" THEN "saving" ELSE "run"
             /\ AbsMem' = AbsMem /\ AbsFds' = AbsFds /\ Calls' = Calls
             /\ AbsSregs' = AbsSregs /\ AbsMsrs' = AbsMsrs /\ vcpu'.bin = vcpu.bin
             /\ AbsRegs.next = vcpu.next /\ M!Complete(r)
  <2>1. vcpu.pc = AfterHlt /\ vcpu.cs.bits = 64
    BY <1>7 DEF BInv, ExitAtCall, Registers, LongPlaces, AfterHlt
  <2>2. /\ vcpu'.pc = Advance(AfterHlt) /\ vcpu'.bin = vcpu.bin /\ vcpu'.next = vcpu.next
        /\ vcpu'.rax = r /\ vcpu'.exit = exit /\ vcpu'.cs = vcpu.cs
        /\ vcpu'.lstar = vcpu.lstar /\ vcpu'.star = vcpu.star /\ program' = program
    BY <1>0, <1>7, <2>1 DEF Vcpus, Handled
  <2>3. /\ AbsStage = "run" /\ AbsMem = FullMem
        /\ AbsStage' = (IF exit = "stopped" THEN "saving" ELSE "run") /\ AbsMem' = FullMem
    <3>1. AbsStage = "run" /\ AbsMem = FullMem
      BY <1>7, <2>1, RunningAbs DEF AfterHlt
    <3>2. AbsStage' = IF exit = "stopped" THEN "saving" ELSE "run"
      BY <1>7, <2>2 DEF AbsStage, AfterHlt, Advance
    <3> QED BY <3>1, <3>2 DEF AbsMem, FullMem
  <2>4. AbsFds' = AbsFds
    BY <2>2, <2>3, SameFds
  <2>5. AbsSregs' = AbsSregs /\ Calls' = Calls
    BY <2>2 DEF AbsSregs, Calls
  <2>6. AbsMsrs' = AbsMsrs
    BY <2>1, <2>2 DEF AbsMsrs, MsrsSet, BootPlaces, AfterHlt, Advance
  <2>7. AbsTrap = "hlt" /\ AbsTrap' = "none"
    BY <1>7, <2>2 DEF AbsTrap
  <2> DEFINE from == IF KvmSkipsHlt THEN "sysret" ELSE "hlt"
             to   == IF KvmSkipsHlt THEN "inside" ELSE "sysret"
  <2>8. AbsRip = from /\ AbsRip' = to /\ M!Advance(from) = to
    BY <2>1, <2>2 DEF AbsRip, BootPlaces, AfterHlt, Advance, M!Advance
  <2> HIDE DEF from, to
  <2>9. /\ AbsRegs = [rip |-> from, next |-> vcpu.next, rax |-> vcpu.rax]
        /\ AbsRegs' = [rip |-> to, next |-> vcpu.next, rax |-> r]
    BY <2>2, <2>8 DEF AbsRegs
  <2>10. AbsRegs.next = vcpu.next /\ M!Complete(r)
    <3> DEFINE q == [AbsRegs EXCEPT !.rax = r]
    <3>1. AbsRegs' = [AbsRegs EXCEPT !.rax = r, !.rip = to]
      <4>1. q = [rip |-> from, next |-> vcpu.next, rax |-> r]
        BY <2>9
      <4>2. [AbsRegs EXCEPT !.rax = r, !.rip = to] = [q EXCEPT !.rip = to]
        BY <2>9
      <4> HIDE DEF q
      <4> QED BY <2>9, <4>1, <4>2
    <3>2. M!Advance(AbsRegs.rip) = to
      BY <2>8, <2>9
    <3> QED BY <2>9, <3>1, <3>2 DEF M!Complete
  <2> QED BY <2>2, <2>3, <2>4, <2>5, <2>6, <2>7, <2>10
<1>8. CASE Serve
  <2>1. /\ AbsStage = "run" /\ AbsTrap = "hlt" /\ AbsTrap' = "none" /\ AbsStage' = "run"
        /\ AbsMem' = AbsMem /\ AbsFds' = AbsFds /\ Calls' = Calls
        /\ AbsSregs' = AbsSregs /\ AbsMsrs' = AbsMsrs /\ vcpu'.bin = vcpu.bin
        /\ AbsRegs.next = vcpu.next /\ M!Complete(1)
    BY <1>7, <1>8 DEF Serve
  <2>2. Calls[AbsRegs.next].call = "unserved"
    BY <1>1, <1>8, <2>1 DEF Serve
  <2>3. M!SysUnserved
    BY <2>1, <2>2 DEF M!SysUnserved, M!Serving, M!Resume, Calls
  <2> QED BY <2>3
<1>9. CASE Stop
  <2>1. /\ AbsStage = "run" /\ AbsTrap = "hlt" /\ AbsTrap' = "none" /\ AbsStage' = "saving"
        /\ AbsMem' = AbsMem /\ AbsFds' = AbsFds /\ Calls' = Calls
        /\ AbsSregs' = AbsSregs /\ AbsMsrs' = AbsMsrs /\ vcpu'.bin = vcpu.bin
        /\ AbsRegs.next = vcpu.next /\ M!Complete(0)
    BY <1>7, <1>9 DEF Stop
  <2>2. Calls[AbsRegs.next].call \in {"save", "exit"}
    BY <1>0, <1>1, <1>9, <2>1 DEF Stop
  <2>3. M!StopVm
    BY <2>1 DEF M!StopVm, Calls
  <2>4. M!SysSave \/ M!SysExit
    BY <2>1, <2>2, <2>3 DEF M!SysSave, M!SysExit, M!Serving, Calls
  <2> QED BY <2>4
<1> QED BY <1>3, <1>4, <1>5, <1>6, <1>8, <1>9, <1>10 DEF Run, Lost

(* Descriptors: 3 to 5 are in use when loading begins, each file takes one.*)
LEMMA LoadFds ==
    ASSUME vcpu.pc = "reset", vcpu.exit = "none", vcpu.bin = "save"
    PROVE  /\ AbsStage = "stack" => M!NewFd = 6
           /\ AbsStage = "boot"  => M!NewFd = 7
<1>1. \A n \in 3..9 : AbsFds[n].kind =
         CASE n = 3 -> "kvm" [] n = 4 -> "vm" [] n = 5 -> "vcpu"
           [] n = 6 /\ AbsMem.boot -> "elf" [] n = 7 /\ AbsMem.app  -> "elf" [] OTHER -> "free"
  BY DEF AbsFds, FdsWith
<1>2. ASSUME NEW k \in 3..9, M!LowestFree = {k} PROVE M!NewFd = k
  BY <1>2 DEF M!NewFd
<1>3. ASSUME NEW k \in {6, 7}, \A n \in 3..9 : AbsFds[n].kind = "free" <=> n >= k
      PROVE  M!LowestFree = {k}
  BY <1>3 DEF M!LowestFree, M!Fds
<1>4. ASSUME AbsStage = "stack" PROVE M!NewFd = 6
  <2>1. ~AbsMem.boot /\ ~AbsMem.app
    BY <1>4 DEF AbsMem
  <2>2. \A n \in 3..9 : AbsFds[n].kind = "free" <=> n >= 6
    BY <1>1, <2>1
  <2> QED BY <1>2, <1>3, <2>2
<1>5. ASSUME AbsStage = "boot" PROVE M!NewFd = 7
  <2>1. AbsMem.boot /\ ~AbsMem.app
    BY <1>5 DEF AbsMem
  <2>2. \A n \in 3..9 : AbsFds[n].kind = "free" <=> n >= 7
    BY <1>1, <2>1
  <2> QED BY <1>2, <1>3, <2>2
<1> QED BY <1>4, <1>5

(* Two memories that differ in one part.                                   *)
MemParts == {"tables", "boot", "app", "fd"}

LEMMA OnePart ==
    ASSUME NEW k \in MemParts, AbsMem'[k] = TRUE,
           \A i \in MemParts \ {k} : AbsMem'[i] = AbsMem[i]
    PROVE  AbsMem' = [AbsMem EXCEPT ![k] = TRUE]
<1>1. /\ AbsMem = [i \in MemParts |-> AbsMem[i]]
      /\ AbsMem' = [i \in MemParts |-> AbsMem'[i]]
  BY DEF AbsMem, MemParts
<1> QED BY <1>1

(* create_stack and the two calls of load_file.                            *)
LEMMA LoadStep ==
    ASSUME Registers, LoadedWell, NoFault, Load
    PROVE  M!vars' = M!vars \/ M!CreateStack \/ M!LoadBoot \/ M!LoadApp
<1>1. /\ vcpu.pc = "reset" /\ vcpu.exit = "none" /\ vcpu.bin = "save"
      /\ vcpu' = vcpu /\ program' = program
  BY LoadFirst DEF Load, Registers
<1>2. /\ AbsRegs' = AbsRegs /\ AbsSregs' = AbsSregs /\ AbsMsrs' = AbsMsrs
      /\ AbsTrap' = AbsTrap /\ Calls' = Calls
  <2>1. AbsRip' = AbsRip
    BY <1>1 DEF AbsRip
  <2> QED BY <1>1, <2>1 DEF AbsRegs, AbsSregs, AbsMsrs, AbsTrap, Calls
<1>3. /\ AbsStage = IF stack.at # "mapped" THEN "memory"
                    ELSE IF at[1] = 1 THEN "stack" ELSE IF at[1] = 2 THEN "boot" ELSE "app"
      /\ AbsStage' = IF stack'.at # "mapped" THEN "memory"
                    ELSE IF at'[1] = 1 THEN "stack" ELSE IF at'[1] = 2 THEN "boot" ELSE "app"
  BY <1>1 DEF AbsStage
<1>4. ASSUME AbsStage' = AbsStage PROVE M!vars' = M!vars
  <2>1. AbsMem' = AbsMem
    BY <1>4 DEF AbsMem
  <2> QED BY <1>1, <1>2, <1>4, <2>1, SameFds DEF M!vars, Calls
<1>5. /\ DOMAIN stack = {"at", "page", "size", "left"}
      /\ at[1] \in Nat \ {0} /\ Len(files) = 2 /\ (stack.at # "mapped" => at = <<1, 1>>)
  BY EntriesAssumption DEF LoadedWell
<1>6. CASE L!MapStackTop \/ L!MapStackPage
  BY <1>3, <1>4, <1>5, <1>6 DEF L!MapStackTop, L!MapStackPage
<1>7. CASE L!SkipSection \/ L!LoadSection
  BY <1>3, <1>4, <1>7 DEF L!SkipSection, L!LoadSection
<1>8. CASE L!StackMapped
  <2>1. AbsStage = "memory" /\ AbsStage' = "stack"
    BY <1>3, <1>5, <1>8 DEF L!StackMapped
  <2>2. AbsMem' = [AbsMem EXCEPT !.tables = TRUE]
    <3>1. /\ AbsMem = [tables |-> FALSE, boot |-> FALSE, app |-> FALSE, fd |-> -1]
          /\ AbsMem' = [tables |-> TRUE, boot |-> FALSE, app |-> FALSE, fd |-> -1]
      BY <2>1 DEF AbsMem
    <3>2. /\ AbsMem'.tables = TRUE /\ AbsMem'.boot = AbsMem.boot
          /\ AbsMem'.app = AbsMem.app /\ AbsMem'.fd = AbsMem.fd
      BY <3>1
    <3>3. \A i \in MemParts \ {"tables"} : AbsMem'[i] = AbsMem[i]
      BY <3>2 DEF MemParts
    <3> QED BY <3>2, <3>3, OnePart DEF MemParts
  <2>3. AbsFds' = AbsFds
    BY <1>1, <2>1 DEF AbsFds, FdsWith, AbsMem
  <2>4. M!CreateStack
    BY <1>1, <1>2, <2>1, <2>2, <2>3 DEF M!CreateStack, M!cpu, Calls
  <2> QED BY <2>4
<1>9. CASE L!NextFile
  <2>1. at[1] \in {1, 2} /\ stack.at = "mapped" /\ stack' = stack /\ at'[1] = at[1] + 1
    BY <1>5, <1>9 DEF L!NextFile, L!Loading
  <2>2. CASE at[1] = 1
    <3>1. AbsStage = "stack" /\ AbsStage' = "boot"
      BY <1>3, <2>1, <2>2
    <3>2. /\ AbsMem = [tables |-> TRUE, boot |-> FALSE, app |-> FALSE, fd |-> -1]
          /\ AbsMem' = [tables |-> TRUE, boot |-> TRUE, app |-> FALSE, fd |-> -1]
      BY <3>1 DEF AbsMem
    <3>3. AbsFds' = [AbsFds EXCEPT ![6] = [kind |-> "elf", pos |-> 0]]
      <4>1. ~AbsMem.boot /\ ~AbsMem.app /\ AbsMem'.boot /\ ~AbsMem'.app
        BY <3>2
      <4>2. \A i \in 3..9 \ {6} : AbsFds'[i] = AbsFds[i]
        BY <1>1, <4>1 DEF AbsFds, FdsWith
      <4>3. AbsFds'[6] = [kind |-> "elf", pos |-> 0]
        BY <1>1, <4>1 DEF AbsFds, FdsWith
      <4>4. AbsFds = [i \in 3..9 |-> AbsFds[i]] /\ AbsFds' = [i \in 3..9 |-> AbsFds'[i]]
        BY DEF AbsFds, FdsWith
      <4> QED BY <4>2, <4>3, <4>4
    <3>5. AbsMem' = [AbsMem EXCEPT !.boot = TRUE]
      <4>1. /\ AbsMem'.boot = TRUE /\ AbsMem'.tables = AbsMem.tables
            /\ AbsMem'.app = AbsMem.app /\ AbsMem'.fd = AbsMem.fd
        BY <3>2
      <4>2. \A i \in MemParts \ {"boot"} : AbsMem'[i] = AbsMem[i]
        BY <4>1 DEF MemParts
      <4> QED BY <4>1, <4>2, OnePart DEF MemParts
    <3>4. M!LoadBoot
      BY <1>1, <1>2, <3>1, <3>3, <3>5, LoadFds DEF M!LoadBoot, M!Install, M!Opened,
         M!cpu, Calls
    <3> QED BY <3>4
  <2>3. CASE at[1] = 2
    <3>1. AbsStage = "boot" /\ AbsStage' = "app"
      BY <1>3, <2>1, <2>3
    <3>2. /\ AbsMem = [tables |-> TRUE, boot |-> TRUE, app |-> FALSE, fd |-> -1]
          /\ AbsMem' = [tables |-> TRUE, boot |-> TRUE, app |-> TRUE, fd |-> -1]
      BY <3>1 DEF AbsMem
    <3>3. AbsFds' = [AbsFds EXCEPT ![7] = [kind |-> "elf", pos |-> 0]]
      <4>1. AbsMem.boot /\ ~AbsMem.app /\ AbsMem'.boot /\ AbsMem'.app
        BY <3>2
      <4>2. \A i \in 3..9 \ {7} : AbsFds'[i] = AbsFds[i]
        BY <1>1, <4>1 DEF AbsFds, FdsWith
      <4>3. AbsFds'[7] = [kind |-> "elf", pos |-> 0]
        BY <1>1, <4>1 DEF AbsFds, FdsWith
      <4>4. AbsFds = [i \in 3..9 |-> AbsFds[i]] /\ AbsFds' = [i \in 3..9 |-> AbsFds'[i]]
        BY DEF AbsFds, FdsWith
      <4> QED BY <4>2, <4>3, <4>4
    <3>5. AbsMem' = [AbsMem EXCEPT !.app = TRUE]
      <4>1. /\ AbsMem'.app = TRUE /\ AbsMem'.tables = AbsMem.tables
            /\ AbsMem'.boot = AbsMem.boot /\ AbsMem'.fd = AbsMem.fd
        BY <3>2
      <4>2. \A i \in MemParts \ {"app"} : AbsMem'[i] = AbsMem[i]
        BY <4>1 DEF MemParts
      <4> QED BY <4>1, <4>2, OnePart DEF MemParts
    <3>4. M!LoadApp
      BY <1>1, <1>2, <3>1, <3>3, <3>5, LoadFds DEF M!LoadApp, M!Install, M!Opened,
         M!cpu, Calls
    <3> QED BY <3>4
  <2> QED BY <2>1, <2>2, <2>3
<1> QED BY <1>6, <1>7, <1>8, <1>9 DEF Load, L!Next

LEMMA LaunchStep ==
    ASSUME BInv, Registers, LoadedWell, Launch
    PROVE  M!Launch
<1>1. /\ vcpu \in Vcpus /\ vcpu.pc = "reset" /\ vcpu.exit = "none" /\ stack.at = "mapped"
      /\ at[1] > 2 /\ at[1] \in Nat
  BY EntriesAssumption DEF Launch, BInv, TypeOK, Registers, L!Done, LoadedWell
<1>2. /\ vcpu'.pc = "_start" /\ vcpu'.exit = "none" /\ vcpu'.bin = vcpu.bin /\ vcpu'.next = vcpu.next
      /\ vcpu'.rax = vcpu.rax /\ vcpu'.cs = vcpu.cs /\ vcpu'.lstar = vcpu.lstar
      /\ program' = program
  BY <1>1 DEF Launch, Vcpus
<1>3. AbsStage = "app" /\ AbsStage' = "run"
  BY <1>1, <1>2 DEF AbsStage
<1>4. AbsMem' = AbsMem /\ AbsTrap' = AbsTrap
  BY <1>1, <1>2, <1>3 DEF AbsMem, AbsTrap
<1>5. AbsFds' = AbsFds /\ AbsSregs' = AbsSregs /\ Calls' = Calls
  BY <1>2, <1>4, SameFds DEF AbsSregs, Calls
<1>6. AbsRip' = "boot" /\ AbsRegs' = [AbsRegs EXCEPT !.rip = "boot"]
  <2>1. AbsRip' = "boot"
    BY <1>2 DEF AbsRip, BootPlaces
  <2> QED BY <1>2, <2>1 DEF AbsRegs
<1>7. AbsMsrs' = AbsMsrs
  BY <1>1, <1>2 DEF Registers, AbsMsrs, BootPlaces
<1> QED BY <1>2, <1>3, <1>4, <1>5, <1>6, <1>7 DEF M!Launch, Calls

(* A restore: what the VMM gives to its new VM is the image.               *)
LEMMA RestoreStep ==
    ASSUME BInv, Registers, Restore
    PROVE  R!Restore
<1>0. vcpu \in Vcpus /\ vcpu.exit = "stopped" /\ vcpu.pc = Advance(AfterHlt)
  BY DEF BInv, TypeOK, ExitAtCall, Restore
<1>1. /\ vcpu'.exit = "none" /\ vcpu'.bin = "restore" /\ program' = program
      /\ vcpu'.lstar = "zero" /\ vcpu'.star = NoMsrs
      /\ vcpu'.pc = vcpu.pc /\ vcpu'.next = vcpu.next /\ vcpu'.rax = vcpu.rax
      /\ vcpu'.cs = vcpu.cs
  BY <1>0 DEF Restore, ResetCpu, Vcpus
<1>2. vcpu.pc \notin {"reset"} \cup BootPlaces
  BY <1>0 DEF Advance, AfterHlt, BootPlaces
<1>3. AbsStage = "saving" /\ AbsStage' = "run" /\ AbsMem = FullMem /\ AbsMem' = FullMem
  <2>1. AbsStage = "saving" /\ AbsStage' = "run"
    BY <1>0, <1>1, <1>2 DEF AbsStage
  <2> QED BY <2>1 DEF AbsMem, FullMem
<1>4. AbsRegs' = AbsRegs /\ AbsSregs' = AbsSregs
  <2>1. AbsRip' = AbsRip
    BY <1>1 DEF AbsRip
  <2> QED BY <1>1, <2>1 DEF AbsRegs, AbsSregs
<1>5. AbsMsrs' = "reset" /\ AbsTrap = "none" /\ AbsTrap' = "none" /\ Calls' = Calls
  BY <1>0, <1>1, <1>2 DEF AbsMsrs, MsrsSet, AbsTrap, Calls
<1>6. AbsFds' = FdsWith(FALSE, FALSE)
  BY <1>1 DEF AbsFds, FdsWith
<1>7. Saved' = Saved /\ Saved.regs = AbsRegs /\ Saved.sregs = AbsSregs /\ Saved.mem = AbsMem
  BY <1>3, <1>4 DEF Saved
<1>8. Saved # NoImage
  <2>1. DOMAIN Saved = {"regs", "sregs", "mem"} /\ DOMAIN NoImage = {"none"}
    BY DEF Saved, NoImage
  <2> QED BY <2>1
(* There is a descriptor left for the stream of the image.                 *)
<1>9. R!NewFd # -1
  <2> DEFINE fd == FdsWith(FALSE, FALSE)
  <2>1. \A n \in 3..9 : fd[n].kind = "free" <=> n >= 6
    BY DEF FdsWith
  <2> HIDE DEF fd
  <2>2. R!LowestFree = {n \in 3..9 : fd[n].kind = "free" /\ \A k \in 3..n - 1 : fd[k].kind # "free"}
    BY <1>0 DEF R!LowestFree, R!Fds, fd
  <2>3. 6 \in R!LowestFree /\ R!LowestFree \subseteq 3..9
    BY <2>1, <2>2
  <2> QED BY <2>3 DEF R!NewFd
<1> QED BY <1>0, <1>1, <1>3, <1>4, <1>5, <1>6, <1>7, <1>8, <1>9 DEF R!Restore

LEMMA StepIsMigration ==
    BInv /\ Registers /\ LoadedWell /\ NoFault /\ NoFault' /\ [Next]_vars
        => [Bootable => M!Setup \/ M!Guest \/ M!Serve \/ R!Restore]_(M!vars)
<1> SUFFICES ASSUME BInv, Registers, LoadedWell, NoFault, NoFault', [Next]_vars, Bootable
             PROVE  M!vars' = M!vars \/ M!Setup \/ M!Guest \/ M!Serve \/ R!Restore
  OBVIOUS
<1>1. CASE Load
  BY <1>1, LoadStep DEF M!Setup
<1>2. CASE Launch
  BY <1>2, LaunchStep DEF M!Setup
<1>3. CASE Boot
  BY <1>3, BootStep DEF M!Guest
<1>4. CASE Run
  BY <1>4, RunStep DEF M!Guest, M!Serve
<1>5. CASE UNCHANGED vars
  <2>1. vcpu' = vcpu /\ program' = program /\ stack' = stack /\ at' = at
    BY <1>5 DEF vars, loaded
  <2>2. AbsStage' = AbsStage
    BY <2>1 DEF AbsStage
  <2>3. AbsMem' = AbsMem /\ AbsTrap' = AbsTrap
    BY <2>1, <2>2 DEF AbsMem, AbsTrap
  <2>4. AbsRip' = AbsRip
    BY <2>1 DEF AbsRip
  <2>5. AbsRegs' = AbsRegs /\ AbsSregs' = AbsSregs /\ AbsMsrs' = AbsMsrs /\ Calls' = Calls
    BY <2>1, <2>4 DEF AbsRegs, AbsSregs, AbsMsrs, MsrsSet, Calls
  <2> QED BY <2>1, <2>2, <2>3, <2>5, SameFds DEF M!vars, Calls
<1>6. CASE Restore
  BY <1>6, RestoreStep
<1> QED BY <1>1, <1>2, <1>3, <1>4, <1>5, <1>6 DEF Next

(* Loader and boot code are what Migration takes them for: with any good   *)
(* layout and any program each of their steps is a step of Migration's     *)
(* set-up, guest or VMM, or none; a restore is one of its Restore, from the*)
(* image that the stopped vCPU makes, into a new VM (save.c:18-26,         *)
(* boot.asm:6-88, syscall_handler.c:66-76, restore.c:14-19).               *)
THEOREM StepsTheorem == Spec => StepsAsMigration
BY NoFaultHolds, StepIsMigration, PTL DEF Spec, StepsAsMigration
=============================================================================
