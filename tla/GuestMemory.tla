----------------------------- MODULE GuestMemory -----------------------------
(***************************************************************************)
(* The guest page tables as lab_3/memory_manager/memory.c builds and walks *)
(* them: allocate_page, memory_map and gva_to_gpa as operators on a memory *)
(* state.  An address is a page and the bits set in its offset, an entry   *)
(* of a table a frame and its flag bits: what an offset that is or-ed into *)
(* an entry does to the flags can be seen.                                 *)
(***************************************************************************)
EXTENDS Integers, FiniteSets

CONSTANTS Width,     \* entries of a table (512 in the code)
          NbFrames,  \* frames of guest memory (15 in the code, 0xF000 bytes)
          NbPage     \* pages that the allocator knows (NB_PAGE, 0x10000)

ASSUME MemoryAssumption == /\ Width \in Nat /\ Width > 1
                           /\ NbFrames \in Nat /\ NbFrames > 2
                           /\ NbPage \in Nat /\ NbPage > NbFrames
                           /\ NbPage <= Width * Width * Width * Width

Root   == 1                          \* CR3 is 0x1000
Frames == 0..NbFrames - 1
Levels == 1..4                       \* 1 pte, 2 pmd, 3 pud, 4 pgd

(* An address or an entry: a page or frame, and the bits set below it.     *)
Bits       == 0..11
At(p, low) == [page |-> p, low |-> low]
Null       == At(0, {})
Flags      == {0, 1, 2}              \* PRESENT, RW, USER

(* pgd_index, pud_index, pmd_index and pte_index of memory.h.              *)
Index(p, level) == CASE level = 1 -> p % Width
                     [] level = 2 -> (p \div Width) % Width
                     [] level = 3 -> (p \div (Width * Width)) % Width
                     [] level = 4 -> (p \div (Width * Width * Width)) % Width

(* The page that the four indices name.                                    *)
Reach(p) == ((Index(p, 4) * Width + Index(p, 3)) * Width + Index(p, 2)) * Width + Index(p, 1)

(* A memory: the pages the allocator gave away or was told of, and the     *)
(* entries in each frame.  broken: the code read or wrote a table that is  *)
(* outside guest memory or is not a table, and anything can follow.        *)
NewMemory == [used |-> {}, tables |-> [f \in Frames |-> [i \in 0..Width - 1 |-> Null]],
              broken |-> FALSE]

Addresses   == [page: 0..NbPage - 1, low: SUBSET Bits]
Memories    == [used : SUBSET (0..NbPage - 1), broken : BOOLEAN,
                tables : [Frames -> [0..Width - 1 -> Addresses]]]
IsMemory(m) == /\ m \in Memories
               /\ \A f \in Frames, i \in 0..Width - 1 :
                     m.tables[f][i] = Null \/ Flags \subseteq m.tables[f][i].low

----------------------------------------------------------------------------
(* Mutants: the last free page is given; a page is named by its address.   *)
LastPage(m) == IF (2..NbPage - 1) \ m.used = {} THEN 0
               ELSE CHOOSE i \in (2..NbPage - 1) \ m.used :
                       \A j \in (2..NbPage - 1) \ m.used : i >= j
InvalidateAddress(m, p) == [m EXCEPT !.used = @ \cup {4096 * p}]

(* allocate_page: the first page from 2 that is not used, or 0.            *)
Full(m)          == 2..NbPage - 1 \subseteq m.used
allocate_page(m) == IF Full(m) THEN 0
                    ELSE CHOOSE i \in 2..NbPage - 1 : i \notin m.used /\ 2..i - 1 \subseteq m.used

(* invalidate_page writes behind its array when the page is not in it.     *)
invalidate_page(m, p) == IF p < NbPage THEN [m EXCEPT !.used = @ \cup {p}]
                         ELSE [m EXCEPT !.broken = TRUE]

(* A page is allocated: what allocate_page leaves behind.                  *)
Allocated(m) == [m EXCEPT !.used = @ \cup ({allocate_page(m)} \ {0})]

(* not_present, negated; and an entry that is set, with the flags.         *)
Present(m, f, i)      == 0 \in m.tables[f][i].low
SetEntry(m, f, i, to) == [m EXCEPT !.tables[f][i] = At(to.page, to.low \cup Flags)]

(* A table in frame f can be used when it is in guest memory and nothing   *)
(* else was copied over it (Data: the frames with the bytes of a file).    *)
Sound(f, Data) == f \in Frames \ Data

(* Mutant: the page of a new table is not marked.                          *)
BelowUnmarked(m, f, i, Data) ==
    IF ~Sound(f, Data) THEN [m EXCEPT !.broken = TRUE]
    ELSE IF Present(m, f, i) THEN m
    ELSE SetEntry(m, f, i, At(allocate_page(m), {}))

(* One level of memory_map on the way down: the entry is there, or a page  *)
(* is allocated for the table below.                                       *)
Below(m, f, i, Data) ==
    IF ~Sound(f, Data) THEN [m EXCEPT !.broken = TRUE]
    ELSE IF Present(m, f, i) THEN m
    ELSE SetEntry(Allocated(m), f, i, At(allocate_page(m), {}))

(* The leaf: address 0 maps to 0, any other to the address asked for as it *)
(* stands, offset included, or to a new page when none is asked for.       *)
Leaf(m, f, i, a, to, Data) ==
    IF ~Sound(f, Data) THEN [m EXCEPT !.broken = TRUE]
    ELSE IF Present(m, f, i) THEN m
    ELSE IF a = Null THEN SetEntry(m, f, i, Null)
    ELSE IF to = Null THEN SetEntry(Allocated(m), f, i, At(allocate_page(m), {}))
    ELSE LET told == invalidate_page(m, to.page)
         IN  IF told.broken THEN told ELSE SetEntry(told, f, i, to)

(* Mutant: a bit of the offset is taken for a part of the address.         *)
PointerWithFlags(m, f, i) ==
    IF f \in Frames THEN m.tables[f][i].page + Cardinality(m.tables[f][i].low \cap {3}) ELSE 0

(* pointer_to_page: the frame that entry i of table f of m points to.      *)
pointer_to_page(m, f, i) == IF f \in Frames THEN m.tables[f][i].page ELSE 0

memory_map(m, a, to, Data) ==
    LET p  == a.page
        m4 == Below(m, Root, Index(p, 4), Data)
        f3 == pointer_to_page(m4, Root, Index(p, 4))
        m3 == Below(m4, f3, Index(p, 3), Data)
        f2 == pointer_to_page(m3, f3, Index(p, 3))
        m2 == Below(m3, f2, Index(p, 2), Data)
        f1 == pointer_to_page(m2, f2, Index(p, 2))
    IN  Leaf(m2, f1, Index(p, 1), a, to, Data)

(* gva_to_gpa: the tables a walk for page p goes through, each of the last *)
(* three reached through the entry of the one before.                      *)
Pud(m, p)   == pointer_to_page(m, Root, Index(p, 4))
Pmd(m, p)   == pointer_to_page(m, Pud(m, p), Index(p, 3))
Pte(m, p)   == pointer_to_page(m, Pmd(m, p), Index(p, 2))

Mapped(m, p) == /\ Present(m, Root, Index(p, 4))
                /\ Pud(m, p) \in Frames /\ Present(m, Pud(m, p), Index(p, 3))
                /\ Pmd(m, p) \in Frames /\ Present(m, Pmd(m, p), Index(p, 2))
                /\ Pte(m, p) \in Frames /\ Present(m, Pte(m, p), Index(p, 1))

gva_to_gpa(m, a) == IF Mapped(m, a.page)
                    THEN At(pointer_to_page(m, Pte(m, a.page), Index(a.page, 1)), a.low)
                    ELSE Null

(* What the processor allows at the end of a walk for page p: the flags    *)
(* that all of the four entries have.                                      *)
Rights(m, p) == {b \in Flags : /\ b \in m.tables[Root][Index(p, 4)].low
                               /\ b \in m.tables[Pud(m, p)][Index(p, 3)].low
                               /\ b \in m.tables[Pmd(m, p)][Index(p, 2)].low
                               /\ b \in m.tables[Pte(m, p)][Index(p, 1)].low}

(* The entries of every table of a level, as <<table, entry>>.             *)
Entries(m, F)  == {e \in (F \cap Frames) \X (0..Width - 1) : Present(m, e[1], e[2])}
Children(m, F) == {m.tables[e[1]][e[2]].page : e \in Entries(m, F)}

Puds(m) == Children(m, {Root})
Pmds(m) == Children(m, Puds(m))
Ptes(m) == Children(m, Pmds(m))

(* The frames that hold tables.                                            *)
TableFrames(m) == {Root} \cup Puds(m) \cup Pmds(m) \cup Ptes(m)
=============================================================================
