------------------------------- MODULE Loader -------------------------------
(***************************************************************************)
(* What main of lab_3/vm_src/src/save.c puts into guest memory before it   *)
(* launches the VM: the page tables of the stack (create_stack), then the  *)
(* sections of bin/boot and bin/app_img (load_file of loader.c), which     *)
(* claims pages and adds page tables as it goes.  Nothing tells the page   *)
(* allocator where later sections will be, and nothing checks where they   *)
(* are: what the loader needs from a layout is the predicate GoodLayout.   *)
(***************************************************************************)
EXTENDS GuestMemory, Sequences

CONSTANTS Layouts,    \* the layouts considered: sequences of files
          StackTop,   \* page of the stack pointer (0xE)
          StackSizes, \* sizes of the stack below it, in half pages (6)
          AddrPages   \* pages of the address space, 2^52, where addresses wrap

(* A file is the sequence of its sections; a section has an address, the   *)
(* number of pages it touches, whether it is loaded (SHF_ALLOC), and its   *)
(* ELF type.                                                               *)
Sections == [addr : Addresses, span : Nat \ {0}, alloc : BOOLEAN, type : Nat]
NoBits   == 8

ASSUME LayoutsAssumption == Layouts \subseteq Seq(Seq(Sections))

(* The last page of the address space, where the stack wraps to, is not    *)
(* one of those that the tables and the allocator tell apart.              *)
ASSUME StackAssumption == /\ StackTop \in Nat /\ NbFrames > StackTop
                          /\ AddrPages \in Nat /\ Reach(AddrPages - 1) >= NbPage
                          /\ AddrPages > NbPage /\ StackSizes \subseteq 0..2 * AddrPages - 1

VARIABLES files,     \* the layout: bin/boot and bin/app_img
          m,         \* page tables and allocator
          data,      \* data[f]: the sections copied to frame f, with how
          known,     \* page_dico: pages that a section started in
          newPage,   \* new_page of load_file
          at,        \* the next section: <<file, section>>
          stack      \* create_stack: its size, the page it maps next, what is left

vars == <<files, m, data, known, newPage, at, stack>>

TypeOK == /\ IsMemory(m)
          /\ DOMAIN data = Frames
          /\ known \subseteq 0..NbPage - 1
          /\ newPage \in 0..NbPage - 1
          /\ at \in (Nat \ {0}) \X (Nat \ {0})
          /\ stack \in [at : {"top", "below", "mapped"}, page : 0..AddrPages - 1,
                        size : StackSizes, left : 0..2 * AddrPages - 1]

Init == /\ files \in Layouts
        /\ m = NewMemory
        /\ data = [f \in Frames |-> {}]
        /\ known = {} /\ newPage = 0
        /\ at = <<1, 1>>
        /\ stack \in {[at |-> "top", page |-> StackTop, size |-> n, left |-> n] :
                          n \in StackSizes}

(* The frames that do not hold zeros or a table any more.                  *)
Overwritten == {f \in Frames : data[f] # {}}

----------------------------------------------------------------------------
(* The page at the stack pointer.                                          *)
MapStackTop == /\ stack.at = "top"
               /\ m' = memory_map(m, At(StackTop, {}), At(StackTop, {}), Overwritten)
               /\ stack' = [stack EXCEPT !.at = "below", !.page = (@ - 1) % AddrPages]
               /\ UNCHANGED <<files, data, known, newPage, at>>

(* The loop: one page, down from the stack pointer, as long as size is not *)
(* 0.  Both counters are unsigned and wrap.                                *)
MapStackPage ==
    /\ stack.at = "below" /\ stack.left # 0 /\ ~m.broken
    /\ m' = memory_map(m, At(stack.page, {}), At(stack.page, {}), Overwritten)
    /\ stack' = [stack EXCEPT !.page = (@ - 1) % AddrPages,
                              !.left = (@ - 2) % (2 * AddrPages)]
    /\ UNCHANGED <<files, data, known, newPage, at>>

(* Mutant: the loop ends when less than a page is left.                    *)
StackMappedRounded == /\ stack.at = "below" /\ stack.left < 2 /\ ~m.broken
                      /\ stack' = [stack EXCEPT !.at = "mapped"]
                      /\ UNCHANGED <<files, m, data, known, newPage, at>>

StackMapped == /\ stack.at = "below" /\ stack.left = 0 /\ ~m.broken
               /\ stack' = [stack EXCEPT !.at = "mapped"]
               /\ UNCHANGED <<files, m, data, known, newPage, at>>

Loading == stack.at = "mapped" /\ ~m.broken /\ at[1] <= Len(files)
Section == files[at[1]][at[2]]

(* The test at the head of the loop of load_file.                          *)
Loaded(s) == s.alloc /\ s.addr # Null

(* The type test of load_file: it means SHT_NOBITS, the type of bss.       *)
IsBss(type) == (type \div 8) % 2 = 1

(* memcpy of a section of so many pages to the page new_page.              *)
Copied(d, page, s) ==
    [f \in Frames |-> IF f \in page..page + s.span - 1
                      THEN d[f] \cup {[section |-> at,
                                      with |-> IF IsBss(s.type) THEN "zeros" ELSE "bytes"]}
                      ELSE d[f]]

(* A section that is not loaded.                                           *)
SkipSection == /\ Loading /\ at[2] <= Len(files[at[1]])
               /\ ~Loaded(Section)
               /\ at' = <<at[1], at[2] + 1>>
               /\ UNCHANGED <<files, m, data, known, newPage, stack>>

(* The page of a section that no section started in before: claimed, then  *)
(* mapped for the address of the section, then claimed and mapped again    *)
(* for the page alone.                                                     *)
ClaimPage(mm, a) ==
    LET page == At(a.page, {})
        m1   == memory_map(invalidate_page(mm, a.page), a, a, Overwritten)
    IN  memory_map(invalidate_page(m1, a.page), a, page, Overwritten)

(* Mutant: new_page is not set.                                            *)
LoadForgetsPage ==
    /\ Loading /\ at[2] <= Len(files[at[1]])
    /\ Loaded(Section)
    /\ LET fresh == Section.addr.page \notin known
           page  == IF fresh THEN Section.addr.page ELSE newPage
       IN  /\ known' = known \cup {Section.addr.page}
           /\ data' = Copied(data, page, Section)
           /\ m' = IF fresh THEN ClaimPage(m, Section.addr) ELSE m
    /\ at' = <<at[1], at[2] + 1>>
    /\ UNCHANGED <<files, newPage, stack>>

(* Mutant: page_dico is marked for every page the section touches.         *)
LoadMarksAll ==
    /\ Loading /\ at[2] <= Len(files[at[1]])
    /\ Loaded(Section)
    /\ LET first == Section.addr.page
           fresh == first \notin known
           page  == IF fresh THEN first ELSE newPage
       IN  /\ known' = known \cup first..first + Section.span - 1
           /\ newPage' = page
           /\ data' = Copied(data, page, Section)
           /\ m' = IF fresh THEN ClaimPage(m, Section.addr) ELSE m
    /\ at' = <<at[1], at[2] + 1>>
    /\ UNCHANGED <<files, stack>>

(* A section that is loaded: its page is claimed and mapped when no section*)
(* started in it before, and the section is copied to new_page.            *)
LoadSection ==
    /\ Loading /\ at[2] <= Len(files[at[1]])
    /\ Loaded(Section)
    /\ LET fresh == Section.addr.page \notin known
           page  == IF fresh THEN Section.addr.page ELSE newPage
           m1    == IF fresh THEN ClaimPage(m, Section.addr) ELSE m
       IN  /\ known' = known \cup {Section.addr.page}
           /\ newPage' = page
           /\ data' = Copied(data, page, Section)
           /\ m' = IF page + Section.span > NbFrames THEN [m1 EXCEPT !.broken = TRUE] ELSE m1
    /\ at' = <<at[1], at[2] + 1>>
    /\ UNCHANGED <<files, stack>>

(* Mutant: new_page is not reset between the files.                        *)
NextFileKeepsPage == /\ Loading /\ at[2] > Len(files[at[1]])
                     /\ at' = <<at[1] + 1, 1>>
                     /\ UNCHANGED <<files, m, data, known, newPage, stack>>

(* load_file returns; the next file starts with a new_page of its own.     *)
NextFile == /\ Loading /\ at[2] > Len(files[at[1]])
            /\ at' = <<at[1] + 1, 1>>
            /\ newPage' = 0
            /\ UNCHANGED <<files, m, data, known, stack>>

Next == MapStackTop \/ MapStackPage \/ StackMapped \/ SkipSection \/ LoadSection \/ NextFile

Spec == Init /\ [][Next]_vars

----------------------------------------------------------------------------
(* What a layout must be for the loader to load it                         *)

SectionIds == UNION {{<<i, s>> : s \in {t \in DOMAIN files[i] : Loaded(files[i][t])}} :
                        i \in DOMAIN files}
Sec(id)    == files[id[1]][id[2]]
PagesOf(id) == Sec(id).addr.page..Sec(id).addr.page + Sec(id).span - 1
FilePages   == UNION {PagesOf(a) : a \in SectionIds}
StackFrames == StackTop - stack.size \div 2..StackTop

(* The linker scripts put the two files at 0x8000 and 0x9000, sections in  *)
(* the order of their addresses, and a section starts in every page.       *)
Ordered   == \A a, b \in SectionIds : a[1] = b[1] /\ a[2] < b[2] => Sec(a).addr.page <= Sec(b).addr.page
Apart     == \A a, b \in SectionIds : a[1] # b[1] => PagesOf(a) \cap PagesOf(b) = {}
Started   == \A a \in SectionIds : \A p \in PagesOf(a) :
                \E b \in SectionIds : a[1] = b[1] /\ Sec(b).addr.page = p
InMemory  == FilePages \cup StackFrames \subseteq Frames
OffStack  == FilePages \cap StackFrames = {}

(* Everything is above the frames the allocator can reach: from 2 on, three*)
(* tables for every group of pages with a page table of its own.           *)
TablesEnd == Root + 3 * Cardinality({p \div Width : p \in FilePages \cup StackFrames})
OffTables == \A p \in FilePages \cup StackFrames : p > TablesEnd

(* A stack of whole pages, from page 0 on at the lowest; above page 0.     *)
WholeStack == stack.size % 2 = 0 /\ stack.size \div 2 <= StackTop
GoodStack  == WholeStack /\ stack.size \div 2 # StackTop

GoodLayout == GoodStack /\ Ordered /\ Apart /\ Started /\ InMemory /\ OffStack /\ OffTables

----------------------------------------------------------------------------
(* Properties                                                              *)

Done == stack.at = "mapped" /\ at[1] > Len(files)

(* The page tables are never overwritten, and never outside guest memory,  *)
(* although the allocator knows neither the sections that are still to     *)
(* come nor the size of the memory (memory.c:32-45).                       *)
TablesIntact == ~m.broken /\ TableFrames(m) \cap Overwritten = {}
NeverBroken == GoodLayout => TablesIntact

(* What syscall_handler relies on when it takes mem + GVA for the host     *)
(* address: an address that is mapped is its own translation, whatever     *)
(* offset its page was mapped with, in any layout that leaves the tables   *)
(* alone (syscall_handler.c:20-23, loader.c:68).                           *)
IdentityMapped == TablesIntact =>
    \A p \in Frames, low \in {{}, {0}, {3}, Bits} :
        Mapped(m, p) => gva_to_gpa(m, At(p, low)) = At(p, low)

(* create_stack ends only when it has mapped all of the pages it was asked *)
(* for and no other: a size that is not a whole number of pages, or that   *)
(* goes below address 0, never ends well (memory.c:154-158).               *)
StackIsWhole == stack.at = "mapped" =>
    /\ WholeStack
    /\ (at = <<1, 1>> => {p \in Frames : Mapped(m, p)} = StackFrames \cap Frames)

(* The tables are a tree: no frame is the table of two entries, and none   *)
(* is a page of the guest, so the guest cannot write to a table.           *)
TablesApart == GoodLayout =>
    /\ \A F \in {{Root}, Puds(m), Pmds(m)} : \A d, e \in Entries(m, F) :
          m.tables[d[1]][d[2]].page = m.tables[e[1]][e[2]].page => d = e
    /\ Cardinality(TableFrames(m)) =
          1 + Cardinality(Puds(m)) + Cardinality(Pmds(m)) + Cardinality(Ptes(m))
    /\ \A p \in Frames : Mapped(m, p) => gva_to_gpa(m, At(p, {})).page \notin TableFrames(m)

(* When the VM is launched every section is where its file was linked, in  *)
(* mapped pages, and nowhere else; the stack is mapped and empty; and the  *)
(* guest may read and write all of it in user mode.                        *)
LoadedWhereLinked == GoodLayout /\ Done =>
    /\ \A a \in SectionIds : \A p \in PagesOf(a) :
          Mapped(m, p) /\ \E d \in data[p] : d.section = a
    /\ \A f \in Frames : \A d \in data[f] : f \in PagesOf(d.section)
    /\ \A p \in StackFrames : Mapped(m, p) /\ data[p] = {}
    /\ \A p \in FilePages \cup StackFrames : Rights(m, p) = Flags

(* The page of a section is new when no section before it, in either file, *)
(* starts in it.  A section is in step when its page is the last new one   *)
(* of its file, or page 0 when the file has none so far.                   *)
Earlier(a) == {b \in SectionIds : b[1] < a[1] \/ (b[1] = a[1] /\ b[2] < a[2])}
Fresh(a)   == \A b \in Earlier(a) : Sec(b).addr.page # Sec(a).addr.page
InStep(a)  ==
    LET news == {b \in Earlier(a) \cup {a} : b[1] = a[1] /\ Fresh(b)}
    IN  \/ news = {} /\ Sec(a).addr.page = 0
        \/ \E b \in news : /\ Sec(b).addr.page = Sec(a).addr.page
                           /\ \A c \in news : c[2] <= b[2]

(* Whatever the layout, a section is where its file was linked exactly when*)
(* it is in step: page_dico and new_page send one that starts in an older  *)
(* page, or in a page of the other file, to a page that is not its own, of *)
(* other sections or 0 (loader.c:60-77).                                   *)
AstrayOutOfStep == Done => \A a \in SectionIds :
    InStep(a) <=> \A p \in PagesOf(a) : p \in Frames /\ \E d \in data[p] : d.section = a

(* Whatever the layout, what is mapped is the stack and the page in which  *)
(* each section passed so far starts: a page that a section only reaches is*)
(* mapped by another one or not at all (loader.c:60-72).                   *)
MapsOnlyStarts == stack.at = "mapped" /\ TablesIntact =>
    {p \in Frames : Mapped(m, p)} =
        Frames \cap (StackFrames \cup {Sec(a).addr.page : a \in Earlier(at)})

(* A section that has data in its file is loaded with it (loader.c:79      *)
(* "check if section has data (bss)").                                     *)
SectionsHaveTheirData ==
    \A f \in Frames : \A d \in data[f] : d.with = "zeros" => Sec(d.section).type = NoBits
=============================================================================
