------------------------- MODULE GuestMemoryProofs -------------------------
(***************************************************************************)
(* What the operators of GuestMemory return, preserve and bound, for every *)
(* width of a table and every size of guest memory: types, and that the    *)
(* tables stay a tree in which a walk for a page ends at that page.        *)
(***************************************************************************)
EXTENDS GuestMemory, FiniteSetTheorems, TLAPS

----------------------------------------------------------------------------
(* The allocator                                                           *)

(* Of the intervals from 0 that end in S one is in all the others.         *)
LEMMA LeastNat == ASSUME NEW S \in SUBSET Nat, S # {}
                  PROVE  \E n \in S : \A k \in S : n <= k
<1> DEFINE T == {0..n : n \in S}
<1>1. T \subseteq FiniteSubsetsOf(Nat) /\ T # {}
  <2>1. \A n \in S : 0..n \subseteq Nat /\ IsFiniteSet(0..n)
    BY FS_Interval
  <2> QED BY <2>1 DEF FiniteSubsetsOf
<1>2. IsWellFoundedOn(StrictSubsetOrdering(Nat), FiniteSubsetsOf(Nat))
  BY FS_StrictSubsetOrderingWellFounded
<1> HIDE DEF T
<1>3. PICK x \in T : \A y \in T : ~(<<y, x>> \in StrictSubsetOrdering(Nat))
  BY <1>1, <1>2, WFMin
<1>4. PICK n \in S : x = 0..n
  BY <1>3 DEF T
<1>5. ASSUME NEW k \in S, k < n PROVE FALSE
  <2>1. 0..k \in T
    BY DEF T
  <2>2. 0..k \subseteq 0..n /\ 0..k # 0..n /\ 0..k \in SUBSET Nat /\ 0..n \in SUBSET Nat
    BY <1>5
  <2> QED BY <1>3, <1>4, <2>1, <2>2 DEF StrictSubsetOrdering
<1> QED BY <1>5

(* allocate_page gives a page that was not used, or 0 when there is none.  *)
LEMMA AllocateType ==
    ASSUME NEW mm
    PROVE  /\ allocate_page(mm) \in 0..NbPage - 1
           /\ ~Full(mm) => allocate_page(mm) >= 2 /\ allocate_page(mm) \notin mm.used
<1>1. CASE Full(mm)
  BY <1>1, MemoryAssumption DEF allocate_page
<1>2. CASE ~Full(mm)
  <2> DEFINE S == (2..NbPage - 1) \ mm.used
  <2>1. S \in SUBSET Nat /\ S # {}
    BY <1>2, MemoryAssumption DEF Full
  <2>2. PICK n \in S : \A k \in S : n <= k
    BY <2>1, LeastNat
  <2>3. n \in 2..NbPage - 1 /\ n \notin mm.used /\ 2..n - 1 \subseteq mm.used
    BY <2>2, MemoryAssumption
  <2>4. allocate_page(mm) \in 2..NbPage - 1 /\ allocate_page(mm) \notin mm.used
    BY <1>2, <2>3 DEF allocate_page
  <2> QED BY <2>4, MemoryAssumption
<1> QED BY <1>1, <1>2

----------------------------------------------------------------------------
(* Division by the width of a table                                        *)

LEMMA Division ==
    ASSUME NEW p \in Nat, NEW d \in Nat \ {0}
    PROVE  p \div d \in Nat /\ p % d \in 0..d - 1 /\ p - (p \div d) * d = p % d
OBVIOUS

LEMMA DivisionUnique ==
    ASSUME NEW d \in Nat \ {0}, NEW q \in Nat, NEW r \in 0..d - 1
    PROVE  (d * q + r) \div d = q
OBVIOUS

(* Dividing twice is dividing by the product.                              *)
LEMMA DivisionTwice ==
    ASSUME NEW p \in Nat, NEW d \in Nat \ {0}, NEW e \in Nat \ {0}
    PROVE  p \div (d * e) = (p \div d) \div e
<1> DEFINE q == p \div d
           r == p % d
           s == q \div e
           t == q % e
<1>1. q \in Nat /\ r \in 0..d - 1 /\ p - q * d = r
  BY Division
<1>2. s \in Nat /\ t \in 0..e - 1 /\ q - s * e = t
  BY <1>1, Division
<1> HIDE DEF q, r, s, t
<1>3. q = s * e + t /\ p = q * d + r
  BY <1>1, <1>2
<1>4. t * d \in Int /\ s * e * d \in Int /\ p = s * e * d + t * d + r
  BY <1>1, <1>2, <1>3
<1>5. t * d >= 0 /\ t * d <= (e - 1) * d /\ (e - 1) * d = d * e - d
  BY <1>2
<1>6. t * d + r \in 0..(d * e) - 1
  BY <1>1, <1>2, <1>4, <1>5
<1>7. p = (d * e) * s + (t * d + r) /\ d * e \in Nat \ {0}
  BY <1>1, <1>2, <1>4
<1>8. ((d * e) * s + (t * d + r)) \div (d * e) = s
  <2> DEFINE m == d * e
             k == t * d + r
  <2>1. m \in Nat \ {0} /\ k \in 0..m - 1
    BY <1>6, <1>7
  <2> HIDE DEF m, k
  <2>2. (m * s + k) \div m = s
    BY <1>2, <2>1, DivisionUnique
  <2> QED BY <2>2 DEF m, k
<1>9. p \div (d * e) = s
  BY <1>7, <1>8
<1> QED BY <1>9 DEF q, s

(* An index is one of a table.                                             *)
LEMMA IndexType == ASSUME NEW p \in Nat, NEW k \in Levels
                   PROVE  Index(p, k) \in 0..Width - 1
<1>1. Width \in Nat \ {0} /\ Width * Width \in Nat \ {0} /\ Width * Width * Width \in Nat \ {0}
  BY MemoryAssumption
<1>2. /\ p \div Width \in Nat /\ p \div (Width * Width) \in Nat
      /\ p \div (Width * Width * Width) \in Nat
  BY <1>1, Division
<1>3. \A q \in Nat : q % Width \in 0..Width - 1
  BY <1>1, Division
<1>4. \/ Index(p, k) = p % Width
      \/ Index(p, k) = (p \div Width) % Width
      \/ Index(p, k) = (p \div (Width * Width)) % Width
      \/ Index(p, k) = (p \div (Width * Width * Width)) % Width
  BY DEF Index, Levels
<1> HIDE DEF Index
<1> QED BY <1>2, <1>3, <1>4

(* What the upper indices of a page name: one, two and three divisions of  *)
(* it by the width; and the page itself with the last index.               *)
LEMMA IndexBases ==
    ASSUME NEW p \in 0..NbPage - 1
    PROVE  /\ Index(p, 4) = ((p \div Width) \div Width) \div Width
           /\ Index(p, 4) * Width + Index(p, 3) = (p \div Width) \div Width
           /\ ((p \div Width) \div Width) * Width + Index(p, 2) = p \div Width
           /\ (p \div Width) * Width + Index(p, 1) = p
<1> DEFINE W  == Width
           q1 == p \div W
           q2 == q1 \div W
           q3 == q2 \div W
<1>1. W \in Nat \ {0} /\ W > 1 /\ W * W \in Nat \ {0} /\ p \in Nat /\ p < W * W * W * W
  BY MemoryAssumption
<1>2. q1 \in Nat /\ p - q1 * W = p % W /\ p % W \in 0..W - 1
  BY <1>1, Division
<1>3. q2 \in Nat /\ q1 - q2 * W = q1 % W /\ q1 % W \in 0..W - 1
  BY <1>1, <1>2, Division
<1>4. q3 \in Nat /\ q2 - q3 * W = q2 % W /\ q2 % W \in 0..W - 1
  BY <1>1, <1>3, Division
<1>5. p \div (W * W) = q2
  BY <1>1, DivisionTwice
<1>6. p \div (W * W * W) = q3
  <2>1. p \div ((W * W) * W) = (p \div (W * W)) \div W
    BY <1>1, DivisionTwice
  <2> QED BY <1>5, <2>1
<1>7. Index(p, 1) = p % W /\ Index(p, 2) = q1 % W /\ Index(p, 3) = q2 % W
      /\ Index(p, 4) = q3 % W
  BY <1>5, <1>6 DEF Index
<1> HIDE DEF W, q1, q2, q3
<1>8. q3 < W
  <2> SUFFICES ASSUME q3 >= W PROVE FALSE
    BY <1>1, <1>4
  <2>1. q2 >= q3 * W /\ q1 >= q2 * W /\ p >= q1 * W
    BY <1>1, <1>2, <1>3, <1>4
  <2>2. q3 * W >= W * W
    BY <1>1, <1>4
  <2>3. q2 >= W * W /\ q2 * W >= W * W * W
    BY <1>1, <1>3, <1>4, <2>1, <2>2
  <2>4. q1 >= W * W * W /\ q1 * W >= W * W * W * W
    BY <1>1, <1>2, <1>3, <2>1, <2>3
  <2> QED BY <1>1, <1>2, <2>1, <2>4
<1>9. q3 % W = q3
  BY <1>1, <1>4, <1>8
<1>10. q3 * W + (q2 % W) = q2 /\ q2 * W + (q1 % W) = q1 /\ q1 * W + (p % W) = p
  BY <1>1, <1>2, <1>3, <1>4
<1> QED BY <1>7, <1>9, <1>10 DEF W, q1, q2, q3

(* The four indices of a page that the allocator knows name this page.     *)
LEMMA ReachItself == ASSUME NEW p \in 0..NbPage - 1
                     PROVE  Reach(p) = p
BY IndexBases DEF Reach

(* A number has one quotient and one remainder.                            *)
LEMMA SameDigits ==
    ASSUME NEW a \in Nat, NEW b \in Nat, NEW i \in 0..Width - 1, NEW j \in 0..Width - 1,
           a * Width + i = b * Width + j
    PROVE  a = b /\ i = j
<1>1. Width \in Nat \ {0} /\ Width * a = a * Width /\ Width * b = b * Width
  BY MemoryAssumption
<1>2. (Width * a + i) \div Width = a /\ (Width * b + j) \div Width = b
  BY <1>1, DivisionUnique
<1>3. a = b
  BY <1>1, <1>2
<1> QED BY <1>1, <1>3

----------------------------------------------------------------------------
(* Types                                                                   *)

AnyAddress == [page : Nat, low : SUBSET Bits]
Entry      == 0..Width - 1

(* r is mm with a new entry i of the table f, to the page g.               *)
Grown(mm, r, f, i, g) ==
    /\ ~Present(mm, f, i) /\ Present(r, f, i) /\ r.tables[f][i].page = g
    /\ \A h \in Frames, j \in Entry : h # f \/ j # i => r.tables[h][j] = mm.tables[h][j]

LEMMA NullType == Null \in Addresses /\ ~(0 \in Null.low)
BY MemoryAssumption DEF Null, At, Addresses

LEMMA SetEntryKeeps ==
    ASSUME NEW mm, IsMemory(mm), NEW f \in Frames, NEW i \in Entry, NEW to \in Addresses
    PROVE  /\ IsMemory(SetEntry(mm, f, i, to))
           /\ SetEntry(mm, f, i, to).used = mm.used
           /\ SetEntry(mm, f, i, to).broken = mm.broken
           /\ ~Present(mm, f, i) => Grown(mm, SetEntry(mm, f, i, to), f, i, to.page)
<1> DEFINE r == SetEntry(mm, f, i, to)
           e == At(to.page, to.low \cup Flags)
<1>1. e \in Addresses /\ Flags \subseteq e.low
  BY DEF At, Addresses, Flags, Bits
<1>2. r = [mm EXCEPT !.tables[f][i] = e]
  BY DEF SetEntry
<1>3. mm \in Memories
  BY DEF IsMemory
<1> HIDE DEF r, e
<1>4. r \in Memories /\ r.used = mm.used /\ r.broken = mm.broken
  BY <1>1, <1>2, <1>3 DEF Memories, Entry
<1>5. r.tables[f][i] = e
  BY <1>2, <1>3 DEF Memories, Entry
<1>6. \A g \in Frames, j \in Entry : g # f \/ j # i => r.tables[g][j] = mm.tables[g][j]
  BY <1>2, <1>3 DEF Memories, Entry
<1>7. IsMemory(r)
  BY <1>1, <1>4, <1>5, <1>6 DEF IsMemory, Entry
<1>8. Present(r, f, i) /\ r.tables[f][i].page = to.page
  BY <1>5 DEF e, Present, At, Flags
<1>9. ~Present(mm, f, i) => Grown(mm, r, f, i, to.page)
  BY <1>6, <1>8 DEF Grown
<1> QED BY <1>4, <1>7, <1>9 DEF r

LEMMA AllocatedType ==
    ASSUME NEW mm, IsMemory(mm)
    PROVE  /\ IsMemory(Allocated(mm))
           /\ Allocated(mm).used = mm.used \cup ({allocate_page(mm)} \ {0})
           /\ Allocated(mm).broken = mm.broken
           /\ Allocated(mm).tables = mm.tables
BY AllocateType DEF Allocated, IsMemory, Memories

LEMMA InvalidateType ==
    ASSUME NEW mm, IsMemory(mm), NEW p \in Nat
    PROVE  /\ IsMemory(invalidate_page(mm, p))
           /\ invalidate_page(mm, p).tables = mm.tables
           /\ mm.used \subseteq invalidate_page(mm, p).used
           /\ invalidate_page(mm, p).used \subseteq mm.used \cup {p}
           /\ ~invalidate_page(mm, p).broken => p < NbPage /\ ~mm.broken
<1>1. CASE p < NbPage
  BY <1>1, MemoryAssumption DEF invalidate_page, IsMemory, Memories
<1>2. CASE ~(p < NbPage)
  BY <1>2 DEF invalidate_page, IsMemory, Memories
<1> QED BY <1>1, <1>2

----------------------------------------------------------------------------
(* One level of memory_map                                                 *)

(* Broken: what the step leaves behind when the table is not sound.        *)
LEMMA BrokenType ==
    ASSUME NEW mm, IsMemory(mm)
    PROVE  IsMemory([mm EXCEPT !.broken = TRUE]) /\ [mm EXCEPT !.broken = TRUE].broken
BY DEF IsMemory, Memories

(* The entry was there, or it is new, to the page g.                       *)
HasBelow(mm, r, f, i, g) ==
    /\ ~mm.broken /\ f \in Frames
    /\ \/ Present(mm, f, i) /\ r = mm
       \/ Grown(mm, r, f, i, g) /\ r.used = mm.used \cup ({g} \ {0})

LEMMA BelowResult ==
    ASSUME NEW mm, IsMemory(mm), NEW f, NEW i \in Entry, NEW D
    PROVE  /\ IsMemory(Below(mm, f, i, D))
           /\ ~Below(mm, f, i, D).broken =>
                 HasBelow(mm, Below(mm, f, i, D), f, i, allocate_page(mm))
<1> DEFINE r == Below(mm, f, i, D)
           g == allocate_page(mm)
<1>1. CASE ~Sound(f, D)
  BY <1>1, BrokenType DEF Below, HasBelow
<1>2. CASE Sound(f, D) /\ Present(mm, f, i)
  BY <1>2 DEF Below, Sound, HasBelow
<1>3. CASE Sound(f, D) /\ ~Present(mm, f, i)
  <2> DEFINE al == Allocated(mm)
             to == At(g, {})
  <2>1. r = SetEntry(al, f, i, to)
    BY <1>3 DEF Below
  <2>2. f \in Frames /\ f \notin D
    BY <1>3 DEF Sound
  <2>3. to \in Addresses /\ to.page = g
    BY AllocateType DEF At, Addresses
  <2>4. IsMemory(al) /\ al.used = mm.used \cup ({g} \ {0}) /\ al.broken = mm.broken
        /\ al.tables = mm.tables
    BY AllocatedType
  <2> HIDE DEF r, g, al, to
  <2>5. ~Present(al, f, i)
    BY <1>3, <2>4 DEF Present
  <2>6. Grown(al, r, f, i, g)
    BY <2>1, <2>2, <2>3, <2>4, <2>5, SetEntryKeeps
  <2>7. Grown(mm, r, f, i, g)
    BY <2>4, <2>6 DEF Grown, Present
  <2>8. IsMemory(r) /\ r.used = al.used /\ r.broken = al.broken
    <3>1. IsMemory(al) /\ f \in Frames /\ i \in Entry /\ to \in Addresses
      BY <2>2, <2>3, <2>4
    <3>2. /\ IsMemory(SetEntry(al, f, i, to)) /\ SetEntry(al, f, i, to).used = al.used
          /\ SetEntry(al, f, i, to).broken = al.broken
      BY <3>1, SetEntryKeeps
    <3> QED BY <2>1, <3>2
  <2> QED BY <2>2, <2>4, <2>7, <2>8 DEF r, g, HasBelow
<1> QED BY <1>1, <1>2, <1>3

LeafPage(a, to) == IF a = Null THEN 0 ELSE to.page

(* The entry was there, or it is new, to the page that was asked for or,   *)
(* when none was, to any page.                                             *)
HasLeaf(mm, r, f, i, a, to) ==
    /\ ~mm.broken /\ f \in Frames
    /\ \/ Present(mm, f, i) /\ r = mm
       \/ /\ a = Null \/ to # Null
          /\ Grown(mm, r, f, i, LeafPage(a, to)) /\ LeafPage(a, to) < NbPage
          /\ mm.used \subseteq r.used /\ r.used \subseteq mm.used \cup {LeafPage(a, to)}
       \/ a # Null /\ to = Null /\ ~Present(mm, f, i)

(* The leaf, for an address that is mapped to an address of its page.      *)
LEMMA LeafResult ==
    ASSUME NEW mm, IsMemory(mm), NEW f, NEW i \in Entry, NEW D,
           NEW a \in AnyAddress, NEW to \in AnyAddress
    PROVE  /\ IsMemory(Leaf(mm, f, i, a, to, D))
           /\ ~Leaf(mm, f, i, a, to, D).broken =>
                 HasLeaf(mm, Leaf(mm, f, i, a, to, D), f, i, a, to)
<1> DEFINE r == Leaf(mm, f, i, a, to, D)
<1>1. CASE ~Sound(f, D)
  BY <1>1, BrokenType DEF Leaf
<1>2. CASE Sound(f, D) /\ Present(mm, f, i)
  BY <1>2 DEF Leaf, Sound, HasLeaf
<1>3. CASE Sound(f, D) /\ ~Present(mm, f, i) /\ a = Null
  <2>1. r = SetEntry(mm, f, i, Null) /\ f \in Frames
    BY <1>3 DEF Leaf, Sound
  <2>2. Null.page = 0 /\ 0 < NbPage
    BY MemoryAssumption DEF Null, At
  <2> HIDE DEF r
  <2>3. Grown(mm, r, f, i, 0)
    BY <1>3, <2>1, <2>2, NullType, SetEntryKeeps
  <2>4. IsMemory(r) /\ r.used = mm.used /\ r.broken = mm.broken
    BY <2>1, NullType, SetEntryKeeps
  <2> QED BY <1>3, <2>1, <2>2, <2>3, <2>4 DEF r, HasLeaf, LeafPage
<1>4. CASE Sound(f, D) /\ ~Present(mm, f, i) /\ a # Null /\ to = Null
  <2> DEFINE al == Allocated(mm)
             e  == At(allocate_page(mm), {})
  <2>1. r = SetEntry(al, f, i, e) /\ f \in Frames
    BY <1>4 DEF Leaf, Sound
  <2>2. e \in Addresses
    BY AllocateType DEF At, Addresses
  <2>3. IsMemory(al) /\ al.broken = mm.broken
    BY AllocatedType
  <2> HIDE DEF r, al, e
  <2>4. IsMemory(r) /\ r.broken = al.broken
    BY <2>1, <2>2, <2>3, SetEntryKeeps
  <2>5. mm.broken \in BOOLEAN
    BY DEF IsMemory, Memories
  <2> QED BY <1>4, <2>1, <2>3, <2>4, <2>5 DEF r, HasLeaf
<1>5. CASE Sound(f, D) /\ ~Present(mm, f, i) /\ a # Null /\ to # Null
  <2> DEFINE told == invalidate_page(mm, to.page)
  <2>1. r = (IF told.broken THEN told ELSE SetEntry(told, f, i, to)) /\ f \in Frames
    BY <1>5 DEF Leaf, Sound
  <2>2. to.page \in Nat /\ to.low \subseteq Bits
    BY DEF AnyAddress
  <2>3. IsMemory(told) /\ told.tables = mm.tables
        /\ (~told.broken => to.page < NbPage /\ ~mm.broken)
        /\ mm.used \subseteq told.used /\ told.used \subseteq mm.used \cup {to.page}
    BY <2>2, InvalidateType
  <2> HIDE DEF r, told
  <2>4. CASE told.broken
    BY <2>1, <2>3, <2>4 DEF r
  <2>5. CASE ~told.broken
    <3>1. to \in Addresses
      BY <2>2, <2>3, <2>5, MemoryAssumption DEF AnyAddress, Addresses
    <3>2. ~Present(told, f, i)
      BY <1>5, <2>3 DEF Present
    <3>3. Grown(told, r, f, i, to.page)
      BY <2>1, <2>3, <2>5, <3>1, <3>2, SetEntryKeeps
    <3>4. Grown(mm, r, f, i, to.page)
      BY <2>3, <3>3 DEF Grown, Present
    <3>5. IsMemory(r) /\ r.used = told.used
      BY <2>1, <2>3, <2>5, <3>1, SetEntryKeeps
    <3> QED BY <1>5, <2>1, <2>3, <2>5, <3>4, <3>5 DEF r, HasLeaf, LeafPage
  <2> QED BY <2>4, <2>5
<1> QED BY <1>1, <1>2, <1>3, <1>4, <1>5

----------------------------------------------------------------------------
(* The tables are a tree                                                   *)

(* What a table is for: its level, and the page that the indices of the    *)
(* tables above it name so far.                                            *)
Owner      == [level : Levels, base : Nat]
Child(w, i) == [level |-> w.level - 1, base |-> w.base * Width + i]
Top        == [level |-> 4, base |-> 0]

(* o tells for every table what it is for, and no two are for the same:    *)
(* entries are in tables only; an entry of an upper table is the table for *)
(* what its own index adds, an entry of a lowest table is the page that    *)
(* all four indices name; and every table but the root is in an entry.     *)
Tree(mm, o) ==
    /\ o \in [DOMAIN o -> Owner] /\ DOMAIN o \subseteq mm.used \cup {Root}
    /\ Root \in DOMAIN o /\ o[Root] = Top
    /\ \A f \in Frames, i \in Entry : Present(mm, f, i) =>
          LET g == mm.tables[f][i].page
          IN  /\ f \in DOMAIN o
              /\ o[f].level > 1 => g \in DOMAIN o /\ o[g] = Child(o[f], i)
              /\ o[f].level = 1 => g = o[f].base * Width + i
    /\ \A g \in DOMAIN o \ {Root} : \E f \in Frames, i \in Entry :
          Present(mm, f, i) /\ mm.tables[f][i].page = g /\ o[f].level > 1
    /\ \A g, h \in DOMAIN o : o[g] = o[h] => g = h

(* Page p is in an entry of a lowest table.                                *)
HasPage(mm, o, p) == \E f \in Frames \cap DOMAIN o, i \in Entry :
                        Present(mm, f, i) /\ o[f].level = 1 /\ mm.tables[f][i].page = p

(* The pages in entries of lowest tables stay the same, or p is a new one.  *)
SamePages(mm, o, r, q)   == \A p : HasPage(r, q, p) <=> HasPage(mm, o, p)
OneMorePage(mm, o, r, n) == \A p : HasPage(r, o, p) <=> HasPage(mm, o, p) \/ p = n

(* An entry that is there stays as it is.                                  *)
Keeps(mm, r) == \A h \in Frames, j \in Entry :
                    Present(mm, h, j) => r.tables[h][j] = mm.tables[h][j]

IsTree(mm) == \E o : Tree(mm, o)

(* q is o with a new table g, for w.                                       *)
Extends(mm, o, r, q, g, w) ==
    /\ Tree(r, q) /\ DOMAIN q = DOMAIN o \cup {g} /\ q[g] = w
    /\ \A h \in DOMAIN o : q[h] = o[h]
    /\ SamePages(mm, o, r, q)

(* A new table, in a frame that was not used.                              *)
LEMMA TreeGrows ==
    ASSUME NEW mm, NEW r, NEW o, Tree(mm, o), NEW f \in Frames, f \in DOMAIN o,
           o[f].level > 1, NEW i \in Entry, NEW g, Grown(mm, r, f, i, g),
           g \notin mm.used, g # Root, mm.used \cup {g} \subseteq r.used
    PROVE  \E q : Extends(mm, o, r, q, g, Child(o[f], i))
<1> DEFINE q == [h \in DOMAIN o \cup {g} |-> IF h = g THEN Child(o[f], i) ELSE o[h]]
<1>1. g \notin DOMAIN o /\ f # g
  BY DEF Tree
<1>2. Child(o[f], i) \in Owner
  <2>1. o[f] \in Owner
    BY DEF Tree
  <2>2. o[f].level - 1 \in Levels /\ o[f].base * Width + i \in Nat
    BY <2>1, MemoryAssumption DEF Owner, Levels, Entry
  <2> QED BY <2>2 DEF Child, Owner
<1>3. DOMAIN q = DOMAIN o \cup {g} /\ q[g] = Child(o[f], i)
      /\ \A h \in DOMAIN o : q[h] = o[h]
  BY <1>1
<1> HIDE DEF q
<1>4. q \in [DOMAIN q -> Owner]
  <2>1. q = [h \in DOMAIN q |-> q[h]]
    BY DEF q
  <2>2. \A h \in DOMAIN q : q[h] \in Owner
    BY <1>2, <1>3 DEF Tree
  <2> QED BY <2>1, <2>2
<1>5. DOMAIN q \subseteq r.used \cup {Root} /\ Root \in DOMAIN q /\ q[Root] = Top
  BY <1>3 DEF Tree
<1>6. ASSUME NEW h \in Frames, NEW j \in Entry, Present(r, h, j)
      PROVE  LET k == r.tables[h][j].page
             IN  /\ h \in DOMAIN q
                 /\ q[h].level > 1 => k \in DOMAIN q /\ q[k] = Child(q[h], j)
                 /\ q[h].level = 1 => k = q[h].base * Width + j
  <2>1. CASE h = f /\ j = i
    BY <1>3, <2>1 DEF Grown
  <2>2. CASE ~(h = f /\ j = i)
    <3>1. r.tables[h][j] = mm.tables[h][j] /\ Present(mm, h, j)
      BY <1>6, <2>2 DEF Grown, Present
    <3>2. h \in DOMAIN o /\ q[h] = o[h]
      BY <1>3, <3>1 DEF Tree
    <3> QED BY <1>3, <3>1, <3>2 DEF Tree
  <2> QED BY <2>1, <2>2
<1>7. ASSUME NEW h \in DOMAIN q \ {Root}
      PROVE  \E k \in Frames, j \in Entry :
                Present(r, k, j) /\ r.tables[k][j].page = h /\ q[k].level > 1
  <2>1. CASE h = g
    BY <1>3, <2>1 DEF Grown
  <2>2. CASE h # g
    <3>1. h \in DOMAIN o \ {Root}
      BY <1>3, <1>7, <2>2
    <3>2. PICK k \in Frames, j \in Entry :
             Present(mm, k, j) /\ mm.tables[k][j].page = h /\ o[k].level > 1
      BY <3>1 DEF Tree
    <3>3. r.tables[k][j] = mm.tables[k][j] /\ Present(r, k, j)
      BY <3>2 DEF Grown, Present
    <3>4. k \in DOMAIN o
      BY <3>2 DEF Tree
    <3> QED BY <1>3, <3>2, <3>3, <3>4
  <2> QED BY <2>1, <2>2
(* No other table is for what the new one is for: its entry would be (f, i).*)
<1>8. ASSUME NEW h \in DOMAIN o, o[h] = Child(o[f], i) PROVE FALSE
  <2>1. o[f] \in Owner /\ o[h] \in Owner
    BY DEF Tree
  <2>2. h # Root
    BY <1>8, <2>1 DEF Tree, Top, Child, Owner, Levels
  <2>3. PICK k \in Frames, j \in Entry :
           Present(mm, k, j) /\ mm.tables[k][j].page = h /\ o[k].level > 1
    BY <2>2 DEF Tree
  <2>4. k \in DOMAIN o /\ o[h] = Child(o[k], j) /\ o[k] \in Owner
    BY <2>3 DEF Tree
  <2>5. o[k].level - 1 = o[f].level - 1 /\ o[k].base * Width + j = o[f].base * Width + i
    BY <1>8, <2>4 DEF Child
  <2>6. o[k].base \in Nat /\ o[f].base \in Nat /\ o[k].level \in Int /\ o[f].level \in Int
    BY <2>1, <2>4 DEF Owner, Levels
  <2>7. o[k].base = o[f].base /\ j = i /\ o[k].level = o[f].level
    BY <2>5, <2>6, SameDigits DEF Entry
  <2>8. o[k] = o[f]
    BY <2>1, <2>4, <2>7 DEF Owner
  <2>9. k = f
    BY <2>4, <2>8 DEF Tree
  <2> QED BY <2>3, <2>7, <2>9 DEF Grown
<1>9. \A h, k \in DOMAIN q : q[h] = q[k] => h = k
  BY <1>3, <1>8 DEF Tree
<1>10. Tree(r, q)
  BY <1>4, <1>5, <1>6, <1>7, <1>9 DEF Tree
<1>11. ASSUME NEW p PROVE HasPage(r, q, p) <=> HasPage(mm, o, p)
  <2>1. ASSUME NEW h \in Frames \cap DOMAIN q, NEW j \in Entry,
               Present(r, h, j), q[h].level = 1
        PROVE  h \in DOMAIN o /\ Present(mm, h, j) /\ o[h].level = 1
               /\ mm.tables[h][j] = r.tables[h][j]
    <3>1. h # f
      BY <1>3, <2>1
    <3>2. r.tables[h][j] = mm.tables[h][j] /\ Present(mm, h, j)
      BY <2>1, <3>1 DEF Grown, Present
    <3>3. h \in DOMAIN o
      BY <3>2 DEF Tree
    <3> QED BY <1>3, <2>1, <3>2, <3>3
  <2>2. ASSUME NEW h \in Frames \cap DOMAIN o, NEW j \in Entry,
               Present(mm, h, j), o[h].level = 1
        PROVE  h \in DOMAIN q /\ Present(r, h, j) /\ q[h].level = 1
               /\ mm.tables[h][j] = r.tables[h][j]
    BY <1>3, <2>2 DEF Grown, Present
  <2> QED BY <2>1, <2>2 DEF HasPage
<1> QED BY <1>3, <1>10, <1>11 DEF SamePages, Extends

(* A new entry of a lowest table, to the page that it stands for.          *)
LEMMA TreeLeaf ==
    ASSUME NEW mm, NEW r, NEW o, Tree(mm, o), NEW f \in Frames, f \in DOMAIN o,
           o[f].level = 1, NEW i \in Entry, Grown(mm, r, f, i, o[f].base * Width + i),
           mm.used \subseteq r.used
    PROVE  /\ Tree(r, o)
           /\ OneMorePage(mm, o, r, o[f].base * Width + i)
<1>1. ASSUME NEW h \in Frames, NEW j \in Entry, Present(r, h, j)
      PROVE  LET k == r.tables[h][j].page
             IN  /\ h \in DOMAIN o
                 /\ o[h].level > 1 => k \in DOMAIN o /\ o[k] = Child(o[h], j)
                 /\ o[h].level = 1 => k = o[h].base * Width + j
  <2>1. CASE h = f /\ j = i
    BY <2>1 DEF Grown
  <2>2. CASE ~(h = f /\ j = i)
    <3>1. r.tables[h][j] = mm.tables[h][j] /\ Present(mm, h, j)
      BY <1>1, <2>2 DEF Grown, Present
    <3> QED BY <3>1 DEF Tree
  <2> QED BY <2>1, <2>2
<1>2. \A h \in Frames, j \in Entry :
         Present(mm, h, j) => Present(r, h, j) /\ r.tables[h][j] = mm.tables[h][j]
  BY DEF Grown, Present
<1>3. \A g \in DOMAIN o \ {Root} : \E h \in Frames, j \in Entry :
         Present(r, h, j) /\ r.tables[h][j].page = g /\ o[h].level > 1
  BY <1>2 DEF Tree
<1>4. Tree(r, o)
  BY <1>1, <1>3 DEF Tree
<1>5. ASSUME NEW p PROVE HasPage(r, o, p) <=> HasPage(mm, o, p) \/ p = o[f].base * Width + i
  <2>1. HasPage(mm, o, p) => HasPage(r, o, p)
    BY <1>2 DEF HasPage
  <2>2. p = o[f].base * Width + i => HasPage(r, o, p)
    BY DEF HasPage, Grown
  <2>3. HasPage(r, o, p) => HasPage(mm, o, p) \/ p = o[f].base * Width + i
    BY DEF HasPage, Grown, Present
  <2> QED BY <2>1, <2>2, <2>3
<1> QED BY <1>4, <1>5 DEF OneMorePage

(* One level down: the table below is there, for what it must be, and the  *)
(* only page that was taken is the one it is in.                           *)
LEMMA BelowTree ==
    ASSUME NEW mm, IsMemory(mm), NEW o, Tree(mm, o), mm.used \subseteq Frames,
           NEW f \in DOMAIN o, o[f].level > 1, NEW i \in Entry, NEW D,
           ~Below(mm, f, i, D).broken
    PROVE  LET r == Below(mm, f, i, D)
               g == pointer_to_page(r, f, i)
           IN  /\ ~mm.broken /\ f \in Frames /\ IsMemory(r) /\ Present(r, f, i)
               /\ Keeps(mm, r)
               /\ r.used \subseteq mm.used \cup {g}
               /\ \E q : /\ Tree(r, q) /\ g \in DOMAIN q /\ q[g] = Child(o[f], i)
                         /\ SamePages(mm, o, r, q)
<1> DEFINE r == Below(mm, f, i, D)
           n == allocate_page(mm)
<1>1. /\ IsMemory(r) /\ ~mm.broken /\ f \in Frames
      /\ \/ Present(mm, f, i) /\ r = mm
         \/ Grown(mm, r, f, i, n) /\ r.used = mm.used \cup ({n} \ {0})
  BY BelowResult DEF HasBelow
<1> HIDE DEF r
<1>2. CASE Present(mm, f, i) /\ r = mm
  <2>1. pointer_to_page(r, f, i) = mm.tables[f][i].page
    BY <1>1, <1>2 DEF pointer_to_page
  <2> QED BY <1>1, <1>2, <2>1 DEF r, Tree, Keeps, SamePages
<1>3. CASE Grown(mm, r, f, i, n) /\ r.used = mm.used \cup ({n} \ {0})
  <2>1. NbFrames \in 2..NbPage - 1 /\ NbFrames \notin mm.used
    BY MemoryAssumption DEF Frames
  <2>2. ~Full(mm)
    BY <2>1 DEF Full
  <2>3. n >= 2 /\ n \notin mm.used
    BY <2>2, AllocateType
  <2> HIDE DEF n
  <2>4. n # Root /\ mm.used \cup {n} \subseteq r.used
    BY <1>3, <2>3 DEF Root
  <2>5. PICK q : Extends(mm, o, r, q, n, Child(o[f], i))
    BY <1>1, <1>3, <2>3, <2>4, TreeGrows
  <2>6. pointer_to_page(r, f, i) = n /\ Present(r, f, i)
    BY <1>1, <1>3 DEF pointer_to_page, Grown
  <2>7. Keeps(mm, r)
    BY <1>3 DEF Grown, Keeps
  <2> QED BY <1>1, <1>3, <2>5, <2>6, <2>7 DEF r, Extends
<1> QED BY <1>1, <1>2, <1>3

(* The leaf: the page that the indices name, when it is asked for.         *)
LEMMA LeafTree ==
    ASSUME NEW mm, IsMemory(mm), NEW o, Tree(mm, o),
           NEW f \in DOMAIN o, o[f].level = 1, NEW i \in Entry, NEW D,
           NEW a \in AnyAddress, NEW to \in AnyAddress, a = Null \/ to # Null, to.page = a.page,
           a.page < NbPage => o[f].base * Width + i = a.page,
           ~Leaf(mm, f, i, a, to, D).broken
    PROVE  LET r == Leaf(mm, f, i, a, to, D)
           IN  /\ IsMemory(r) /\ Tree(r, o) /\ f \in Frames /\ Present(r, f, i)
               /\ Keeps(mm, r)
               /\ r.used \subseteq mm.used \cup {a.page}
               /\ a.page >= NbPage => Present(mm, f, i)
               /\ a.page < NbPage => OneMorePage(mm, o, r, a.page)
<1> DEFINE r == Leaf(mm, f, i, a, to, D)
<1>1. IsMemory(r) /\ HasLeaf(mm, r, f, i, a, to)
  BY LeafResult
<1> HIDE DEF r
<1>2. CASE Present(mm, f, i) /\ r = mm
  <2>1. f \in Frames
    BY <1>1 DEF HasLeaf
  <2>2. a.page < NbPage => HasPage(mm, o, a.page)
    BY <1>2, <2>1 DEF HasPage, Tree
  <2> QED BY <1>1, <1>2, <2>1, <2>2 DEF r, Keeps, OneMorePage
<1>3. CASE /\ Grown(mm, r, f, i, LeafPage(a, to)) /\ LeafPage(a, to) < NbPage
           /\ mm.used \subseteq r.used /\ r.used \subseteq mm.used \cup {LeafPage(a, to)}
  <2>1. LeafPage(a, to) = a.page
    BY DEF LeafPage, Null, At
  <2>2. Grown(mm, r, f, i, o[f].base * Width + i) /\ f \in Frames
    BY <1>1, <1>3, <2>1 DEF HasLeaf
  <2>3. Tree(r, o)
        /\ OneMorePage(mm, o, r, o[f].base * Width + i)
    BY <1>3, <2>2, TreeLeaf
  <2>4. Present(r, f, i)
        /\ Keeps(mm, r)
    BY <1>3 DEF Grown, Keeps
  <2>5. a.page \in Nat
    BY DEF AnyAddress
  <2> QED BY <1>1, <1>3, <2>1, <2>2, <2>3, <2>4, <2>5, MemoryAssumption DEF r
<1> QED BY <1>1, <1>2, <1>3 DEF HasLeaf

----------------------------------------------------------------------------
(* Walks in a tree                                                         *)

(* The table below an entry of a tree.                                     *)
LEMMA TreeChild ==
    ASSUME NEW mm, NEW o, Tree(mm, o), NEW f \in Frames, NEW i \in Entry, Present(mm, f, i),
           o[f].level > 1
    PROVE  LET g == mm.tables[f][i].page IN g \in DOMAIN o /\ o[g] = Child(o[f], i)
BY DEF Tree

(* The tables of a walk for page p are those that its indices name.        *)
LEMMA TreeWalk ==
    ASSUME NEW mm, NEW o, Tree(mm, o), NEW p \in 0..NbPage - 1, Mapped(mm, p)
    PROVE  LET f1 == Pte(mm, p)
           IN  /\ f1 \in Frames \cap DOMAIN o /\ Index(p, 1) \in Entry
               /\ Present(mm, f1, Index(p, 1))
               /\ o[f1].level = 1 /\ mm.tables[f1][Index(p, 1)].page = p
<1> DEFINE i4 == Index(p, 4)
           i3 == Index(p, 3)
           i2 == Index(p, 2)
           i1 == Index(p, 1)
           f3 == Pud(mm, p)
           f2 == Pmd(mm, p)
           f1 == Pte(mm, p)
<1>1. i1 \in Entry /\ i2 \in Entry /\ i3 \in Entry /\ i4 \in Entry
  <2>1. \A k \in Levels : Index(p, k) \in Entry
    BY IndexType, MemoryAssumption DEF Entry
  <2> QED BY <2>1 DEF Levels
<1>2. ((i4 * Width + i3) * Width + i2) * Width + i1 = p
  BY ReachItself DEF Reach
<1>3. /\ Present(mm, Root, i4) /\ Root \in Frames
      /\ f3 \in Frames /\ Present(mm, f3, i3)
      /\ f2 \in Frames /\ Present(mm, f2, i2)
      /\ f1 \in Frames /\ Present(mm, f1, i1)
  BY MemoryAssumption DEF Mapped, Root, Frames
<1>4. /\ f3 = mm.tables[Root][i4].page /\ f2 = mm.tables[f3][i3].page
      /\ f1 = mm.tables[f2][i2].page
  BY <1>3 DEF Pud, Pmd, Pte, pointer_to_page
<1> HIDE DEF i1, i2, i3, i4, f1, f2, f3
<1>5. o[Root].level = 4 /\ o[Root].base = 0
  BY DEF Tree, Top
<1>6. o[f3].level = 3 /\ o[f3].base = 0 * Width + i4
  <2>1. o[Root].level > 1 /\ Root \in Frames /\ i4 \in Entry /\ Present(mm, Root, i4)
    BY <1>1, <1>3, <1>5
  <2>2. o[mm.tables[Root][i4].page] = Child(o[Root], i4)
    BY <2>1, TreeChild
  <2>3. o[f3] = Child(o[Root], i4)
    BY <1>4, <2>2
  <2> QED BY <1>5, <2>3 DEF Child
<1>7. o[f2].level = 2 /\ o[f2].base = (0 * Width + i4) * Width + i3
  <2>1. o[f3].level > 1 /\ f3 \in Frames /\ i3 \in Entry /\ Present(mm, f3, i3)
    BY <1>1, <1>3, <1>6
  <2>2. o[mm.tables[f3][i3].page] = Child(o[f3], i3)
    BY <2>1, TreeChild
  <2>3. o[f2] = Child(o[f3], i3)
    BY <1>4, <2>2
  <2> QED BY <1>6, <2>3 DEF Child
<1>8. /\ o[f1].level = 1 /\ o[f1].base = ((0 * Width + i4) * Width + i3) * Width + i2
      /\ f1 \in DOMAIN o
  <2>1. o[f2].level > 1 /\ f2 \in Frames /\ i2 \in Entry /\ Present(mm, f2, i2)
    BY <1>1, <1>3, <1>7
  <2>2. /\ mm.tables[f2][i2].page \in DOMAIN o
        /\ o[mm.tables[f2][i2].page] = Child(o[f2], i2)
    BY <2>1, TreeChild
  <2>3. o[f1] = Child(o[f2], i2) /\ f1 \in DOMAIN o
    BY <1>4, <2>2
  <2> QED BY <1>7, <2>3 DEF Child
<1>9. mm.tables[f1][i1].page = p
  <2>1. mm.tables[f1][i1].page = (((0 * Width + i4) * Width + i3) * Width + i2) * Width + i1
    BY <1>1, <1>3, <1>8 DEF Tree
  <2> QED BY <1>1, <1>2, <2>1, MemoryAssumption DEF Entry
<1> QED BY <1>1, <1>3, <1>8, <1>9 DEF f1, i1

(* The entry that a table is in, one level up.                             *)
LEMMA TreeParent ==
    ASSUME NEW mm, NEW o, Tree(mm, o), NEW g \in DOMAIN o, g # Root
    PROVE  \E f \in Frames \cap DOMAIN o, i \in Entry :
              /\ Present(mm, f, i) /\ mm.tables[f][i].page = g
              /\ o[f].level = o[g].level + 1 /\ o[g].base = o[f].base * Width + i
              /\ o[f].base \in Nat
<1>1. PICK f \in Frames, i \in Entry :
         Present(mm, f, i) /\ mm.tables[f][i].page = g /\ o[f].level > 1
  BY DEF Tree
<1>2. f \in DOMAIN o /\ o[g] = Child(o[f], i) /\ o[f] \in Owner
  BY <1>1 DEF Tree
<1>3. o[f].level \in Int /\ o[f].base \in Nat /\ o[g].level = o[f].level - 1
      /\ o[g].base = o[f].base * Width + i
  BY <1>2 DEF Child, Owner, Levels
<1> QED BY <1>1, <1>2, <1>3

(* A page is mapped when it is in an entry of a lowest table.              *)
LEMMA MappedPage ==
    ASSUME NEW mm, NEW o, Tree(mm, o), NEW p \in 0..NbPage - 1
    PROVE  Mapped(mm, p) <=> HasPage(mm, o, p)
<1>1. Mapped(mm, p) => HasPage(mm, o, p)
  BY TreeWalk DEF HasPage
<1>2. ASSUME HasPage(mm, o, p) PROVE Mapped(mm, p)
  <2> DEFINE i4 == Index(p, 4)
             i3 == Index(p, 3)
             i2 == Index(p, 2)
             i1 == Index(p, 1)
  <2>1. i1 \in Entry /\ i2 \in Entry /\ i3 \in Entry /\ i4 \in Entry
    <3>1. \A k \in Levels : Index(p, k) \in Entry
      BY IndexType, MemoryAssumption DEF Entry
    <3> QED BY <3>1 DEF Levels
  <2>2. ((i4 * Width + i3) * Width + i2) * Width + i1 = p
    BY ReachItself DEF Reach
  <2> HIDE DEF i1, i2, i3, i4
  <2>3. /\ i4 \in Nat /\ i4 * Width + i3 \in Nat /\ (i4 * Width + i3) * Width + i2 \in Nat
    BY <2>1, MemoryAssumption DEF Entry
  <2>4. Root \in Frames /\ Root \in DOMAIN o /\ o[Root].level = 4 /\ o[Root].base = 0
    BY MemoryAssumption DEF Tree, Top, Root, Frames
  <2>5. PICK f1 \in Frames \cap DOMAIN o, j1 \in Entry :
           Present(mm, f1, j1) /\ o[f1].level = 1 /\ mm.tables[f1][j1].page = p
    BY <1>2 DEF HasPage
  <2>6. o[f1].base * Width + j1 = p /\ o[f1].base \in Nat
    BY <2>5 DEF Tree, Owner
  <2>7. j1 = i1 /\ o[f1].base = (i4 * Width + i3) * Width + i2
    BY <2>1, <2>2, <2>3, <2>6, SameDigits DEF Entry
  <2>8. PICK f2 \in Frames \cap DOMAIN o, j2 \in Entry :
           /\ Present(mm, f2, j2) /\ mm.tables[f2][j2].page = f1
           /\ o[f2].level = 2 /\ o[f1].base = o[f2].base * Width + j2 /\ o[f2].base \in Nat
    BY <2>4, <2>5, TreeParent
  <2>9. j2 = i2 /\ o[f2].base = i4 * Width + i3
    BY <2>1, <2>3, <2>7, <2>8, SameDigits DEF Entry
  <2>10. PICK f3 \in Frames \cap DOMAIN o, j3 \in Entry :
            /\ Present(mm, f3, j3) /\ mm.tables[f3][j3].page = f2
            /\ o[f3].level = 3 /\ o[f2].base = o[f3].base * Width + j3 /\ o[f3].base \in Nat
    BY <2>4, <2>8, TreeParent
  <2>11. j3 = i3 /\ o[f3].base = i4
    BY <2>1, <2>3, <2>9, <2>10, SameDigits DEF Entry
  <2>12. PICK f4 \in Frames \cap DOMAIN o, j4 \in Entry :
            /\ Present(mm, f4, j4) /\ mm.tables[f4][j4].page = f3
            /\ o[f4].level = 4 /\ o[f3].base = o[f4].base * Width + j4 /\ o[f4].base \in Nat
    BY <2>4, <2>10, TreeParent
  <2>13. f4 = Root
    <3> SUFFICES ASSUME f4 # Root PROVE FALSE
      OBVIOUS
    <3>1. PICK h \in DOMAIN o : o[h].level = 5
      BY <2>12, TreeParent
    <3> QED BY <3>1 DEF Tree, Owner, Levels
  <2>14. j4 = i4
    <3>1. i4 = 0 * Width + j4
      BY <2>4, <2>11, <2>12, <2>13
    <3> QED BY <2>1, <3>1, MemoryAssumption DEF Entry
  <2>15. Pud(mm, p) = f3
    BY <2>4, <2>12, <2>13, <2>14 DEF Pud, pointer_to_page, i4
  <2>16. Pmd(mm, p) = f2
    BY <2>10, <2>11, <2>15 DEF Pmd, pointer_to_page, i3
  <2>17. Pte(mm, p) = f1
    BY <2>8, <2>9, <2>16 DEF Pte, pointer_to_page, i2
  <2> QED BY <2>5, <2>7, <2>8, <2>9, <2>10, <2>11, <2>12, <2>13, <2>14, <2>15, <2>16, <2>17
          DEF Mapped, i1, i2, i3, i4
<1> QED BY <1>1, <1>2

(* In a tree an address that is mapped is its own translation.             *)
LEMMA TreeIdentity ==
    ASSUME NEW mm, IsTree(mm), NEW p \in 0..NbPage - 1, NEW low, Mapped(mm, p)
    PROVE  gva_to_gpa(mm, At(p, low)) = At(p, low)
<1>1. PICK o : Tree(mm, o)
  BY DEF IsTree
<1>2. Pte(mm, p) \in Frames /\ mm.tables[Pte(mm, p)][Index(p, 1)].page = p
  BY <1>1, TreeWalk
<1> QED BY <1>2 DEF gva_to_gpa, At, pointer_to_page

----------------------------------------------------------------------------
(* memory_map                                                              *)

(* The type of what memory_map leaves, whatever it is called with; nothing *)
(* that was broken is ever sound again.                                    *)
LEMMA MapType ==
    ASSUME NEW mm, IsMemory(mm), NEW a \in AnyAddress, NEW to \in AnyAddress, NEW D
    PROVE  /\ IsMemory(memory_map(mm, a, to, D))
           /\ mm.broken => memory_map(mm, a, to, D).broken
<1> DEFINE p  == a.page
           m4 == Below(mm, Root, Index(p, 4), D)
           f3 == pointer_to_page(m4, Root, Index(p, 4))
           m3 == Below(m4, f3, Index(p, 3), D)
           f2 == pointer_to_page(m3, f3, Index(p, 3))
           m2 == Below(m3, f2, Index(p, 2), D)
           f1 == pointer_to_page(m2, f2, Index(p, 2))
           r  == Leaf(m2, f1, Index(p, 1), a, to, D)
<1>1. memory_map(mm, a, to, D) = r
  BY DEF memory_map
<1>2. p \in Nat
  BY DEF AnyAddress
<1>3. \A k \in Levels : Index(p, k) \in Entry
  BY <1>2, IndexType DEF Entry
<1>4. Index(p, 1) \in Entry /\ Index(p, 2) \in Entry /\ Index(p, 3) \in Entry
      /\ Index(p, 4) \in Entry
  BY <1>3 DEF Levels
<1>5. IsMemory(m4) /\ (mm.broken => m4.broken)
  BY <1>4, BelowResult DEF HasBelow
<1> HIDE DEF m4, f3
<1>6. IsMemory(m3) /\ (m4.broken => m3.broken)
  BY <1>4, <1>5, BelowResult DEF HasBelow
<1> HIDE DEF m3, f2
<1>7. IsMemory(m2) /\ (m3.broken => m2.broken)
  BY <1>4, <1>6, BelowResult DEF HasBelow
<1> HIDE DEF m2, f1
<1>8. IsMemory(r) /\ (m2.broken => r.broken)
  BY <1>4, <1>7, LeafResult DEF HasLeaf
<1> QED BY <1>1, <1>5, <1>6, <1>7, <1>8

(* memory_map: what is asked for keeps the tables a tree, takes frames     *)
(* only, and is mapped afterwards; a page that the allocator does not know *)
(* and that the tables tell apart from all that it knows breaks the walk.  *)
LEMMA MapTree ==
    ASSUME NEW mm, IsMemory(mm), IsTree(mm), mm.used \subseteq Frames,
           NEW a \in AnyAddress, NEW to \in AnyAddress, NEW D,
           a = Null \/ to # Null, to.page = a.page,
           a.page >= NbPage => Reach(a.page) >= NbPage,
           ~memory_map(mm, a, to, D).broken
    PROVE  LET r == memory_map(mm, a, to, D)
           IN  /\ IsTree(r) /\ a.page < NbPage
               /\ r.used \subseteq Frames \cup {a.page} /\ Mapped(r, a.page)
               /\ \A q \in 0..NbPage - 1 : Mapped(r, q) <=> Mapped(mm, q) \/ q = a.page
<1> DEFINE p  == a.page
           i4 == Index(p, 4)
           i3 == Index(p, 3)
           i2 == Index(p, 2)
           i1 == Index(p, 1)
           m4 == Below(mm, Root, i4, D)
           f3 == pointer_to_page(m4, Root, i4)
           m3 == Below(m4, f3, i3, D)
           f2 == pointer_to_page(m3, f3, i3)
           m2 == Below(m3, f2, i2, D)
           f1 == pointer_to_page(m2, f2, i2)
           r  == Leaf(m2, f1, i1, a, to, D)
<1>1. memory_map(mm, a, to, D) = r /\ ~r.broken
  BY DEF memory_map
<1>2. p \in Nat
  BY DEF AnyAddress
<1>3. i1 \in Entry /\ i2 \in Entry /\ i3 \in Entry /\ i4 \in Entry
  <2>1. \A k \in Levels : Index(p, k) \in Entry
    BY <1>2, IndexType DEF Entry
  <2> QED BY <2>1 DEF Levels
<1>4. Reach(p) = ((i4 * Width + i3) * Width + i2) * Width + i1
  BY DEF Reach
<1> HIDE DEF p, i1, i2, i3, i4
(* Every level is sound, because the next one is not broken.               *)
<1>5. IsMemory(m4) /\ IsMemory(m3) /\ IsMemory(m2)
  <2>1. IsMemory(m4)
    BY <1>3, BelowResult
  <2> HIDE DEF m4
  <2>2. IsMemory(m3)
    BY <1>3, <2>1, BelowResult
  <2> HIDE DEF m3
  <2>3. IsMemory(m2)
    BY <1>3, <2>2, BelowResult
  <2> QED BY <2>1, <2>2, <2>3
<1>6. ~m2.broken /\ f1 \in Frames
  <2> HIDE DEF m2, f1
  <2>1. HasLeaf(m2, r, f1, i1, a, to)
    BY <1>1, <1>3, <1>5, LeafResult
  <2> QED BY <2>1 DEF HasLeaf
<1>7. ~m3.broken /\ f2 \in Frames
  <2>1. ~m2.broken
    BY <1>6
  <2> HIDE DEF m3, f2
  <2>2. HasBelow(m3, m2, f2, i2, allocate_page(m3))
    BY <1>3, <1>5, <2>1, BelowResult
  <2> QED BY <2>2 DEF HasBelow
<1>8. ~m4.broken /\ f3 \in Frames
  <2>1. ~m3.broken
    BY <1>7
  <2> HIDE DEF m4, f3
  <2>2. HasBelow(m4, m3, f3, i3, allocate_page(m4))
    BY <1>3, <1>5, <2>1, BelowResult
  <2> QED BY <2>2 DEF HasBelow
(* The walk: each table is there for what the indices so far name.         *)
<1>9. PICK o : Tree(mm, o)
  BY DEF IsTree
<1>10. Root \in DOMAIN o /\ o[Root] = Top /\ Top.level = 4 /\ Top.base = 0
  BY <1>9 DEF Tree, Top
<1>11. /\ Root \in Frames /\ Present(m4, Root, i4) /\ m4.used \subseteq mm.used \cup {f3}
       /\ \E q : /\ Tree(m4, q) /\ f3 \in DOMAIN q /\ q[f3] = Child(Top, i4)
                 /\ SamePages(mm, o, m4, q)
  BY <1>3, <1>8, <1>9, <1>10, BelowTree
<1>12. PICK o4 : /\ Tree(m4, o4) /\ f3 \in DOMAIN o4 /\ o4[f3] = Child(Top, i4)
                 /\ SamePages(mm, o, m4, o4)
  BY <1>11
<1>13. o4[f3].level = 3 /\ o4[f3].base = 0 * Width + i4
  BY <1>10, <1>12 DEF Child
<1>14. m4.used \subseteq Frames
  BY <1>8, <1>11
<1> HIDE DEF m4, f3
<1>15. /\ Present(m3, f3, i3) /\ m3.used \subseteq m4.used \cup {f2}
       /\ Keeps(m4, m3)
       /\ \E q : /\ Tree(m3, q) /\ f2 \in DOMAIN q /\ q[f2] = Child(o4[f3], i3)
                 /\ SamePages(m4, o4, m3, q)
  BY <1>3, <1>5, <1>7, <1>12, <1>13, <1>14, BelowTree
<1>16. PICK o3 : /\ Tree(m3, o3) /\ f2 \in DOMAIN o3 /\ o3[f2] = Child(o4[f3], i3)
                 /\ SamePages(m4, o4, m3, o3)
  BY <1>15
<1>17. o3[f2].level = 2 /\ o3[f2].base = (0 * Width + i4) * Width + i3
  BY <1>13, <1>16 DEF Child
<1>18. m3.used \subseteq Frames
  BY <1>7, <1>14, <1>15
<1> HIDE DEF m3, f2
<1>19. /\ Present(m2, f2, i2) /\ m2.used \subseteq m3.used \cup {f1}
       /\ Keeps(m3, m2)
       /\ \E q : /\ Tree(m2, q) /\ f1 \in DOMAIN q /\ q[f1] = Child(o3[f2], i2)
                 /\ SamePages(m3, o3, m2, q)
  BY <1>3, <1>5, <1>6, <1>16, <1>17, <1>18, BelowTree
<1>20. PICK o2 : /\ Tree(m2, o2) /\ f1 \in DOMAIN o2 /\ o2[f1] = Child(o3[f2], i2)
                 /\ SamePages(m3, o3, m2, o2)
  BY <1>19
<1>21. o2[f1].level = 1 /\ o2[f1].base = ((0 * Width + i4) * Width + i3) * Width + i2
  BY <1>17, <1>20 DEF Child
<1>22. m2.used \subseteq Frames
  BY <1>6, <1>18, <1>19
<1> HIDE DEF m2, f1
<1>23. o2[f1].base * Width + i1 = Reach(p)
  BY <1>3, <1>4, <1>21, MemoryAssumption DEF Entry
<1>24. p < NbPage => o2[f1].base * Width + i1 = p
  <2>1. p < NbPage => Reach(p) = p
    BY <1>2, ReachItself, MemoryAssumption
  <2> QED BY <1>23, <2>1
<1>25. /\ IsMemory(r) /\ Tree(r, o2) /\ Present(r, f1, i1)
       /\ Keeps(m2, r)
       /\ r.used \subseteq m2.used \cup {p}
       /\ p >= NbPage => Present(m2, f1, i1)
       /\ p < NbPage => OneMorePage(m2, o2, r, p)
  <2>1. a.page < NbPage => o2[f1].base * Width + i1 = a.page
    BY <1>24 DEF p
  <2>2. ~Leaf(m2, f1, i1, a, to, D).broken /\ f1 \in DOMAIN o2
    BY <1>1, <1>20
  <2>3. IsMemory(m2) /\ Tree(m2, o2) /\ o2[f1].level = 1 /\ i1 \in Entry
    BY <1>3, <1>5, <1>20, <1>21
  <2> QED BY <2>1, <2>2, <2>3, LeafTree DEF p
<1>26. p < NbPage
  <2> SUFFICES ASSUME p >= NbPage PROVE FALSE
    BY <1>2, MemoryAssumption
  <2>1. Present(m2, f1, i1)
    BY <1>25
  <2>2. m2.tables[f1][i1].page = Reach(p)
    BY <1>3, <1>6, <1>20, <1>21, <1>23, <2>1 DEF Tree
  <2>3. m2.tables[f1][i1].page \in 0..NbPage - 1
    <3> m2 \in Memories
      BY <1>5 DEF IsMemory
    <3>1. m2.tables[f1][i1] \in Addresses
      BY <1>3, <1>6 DEF Memories, Entry
    <3> QED BY <3>1 DEF Addresses
  <2>4. Reach(p) >= NbPage
    BY DEF p
  <2>5. Reach(p) \in Int
    BY <1>3, <1>4, MemoryAssumption DEF Entry
  <2> QED BY <2>2, <2>3, <2>4, <2>5, MemoryAssumption
(* The entries of the walk are still there when the leaf is.               *)
<1>27. /\ Present(r, Root, i4) /\ pointer_to_page(r, Root, i4) = f3
       /\ Present(r, f3, i3) /\ pointer_to_page(r, f3, i3) = f2
       /\ Present(r, f2, i2) /\ pointer_to_page(r, f2, i2) = f1
  <2>1. /\ Present(m3, Root, i4) /\ Present(m2, Root, i4) /\ Present(r, Root, i4)
        /\ r.tables[Root][i4] = m4.tables[Root][i4]
    BY <1>3, <1>11, <1>15, <1>19, <1>25 DEF Present, Keeps
  <2>2. /\ Present(m2, f3, i3) /\ Present(r, f3, i3) /\ r.tables[f3][i3] = m3.tables[f3][i3]
    BY <1>3, <1>8, <1>15, <1>19, <1>25 DEF Present, Keeps
  <2>3. Present(r, f2, i2) /\ r.tables[f2][i2] = m2.tables[f2][i2]
    BY <1>3, <1>7, <1>19, <1>25 DEF Present, Keeps
  <2>4. f3 = m4.tables[Root][i4].page
    BY <1>11 DEF f3, pointer_to_page
  <2>5. f2 = m3.tables[f3][i3].page
    BY <1>8 DEF f2, pointer_to_page
  <2>6. f1 = m2.tables[f2][i2].page
    BY <1>7 DEF f1, pointer_to_page
  <2> QED BY <1>7, <1>8, <1>11, <2>1, <2>2, <2>3, <2>4, <2>5, <2>6 DEF pointer_to_page
<1>28. Mapped(r, p)
  <2>1. Pud(r, p) = f3
    BY <1>27 DEF Pud, i4
  <2>2. Pmd(r, p) = f2
    BY <1>27, <2>1 DEF Pmd, i3
  <2>3. Pte(r, p) = f1
    BY <1>27, <2>2 DEF Pte, i2
  <2> QED BY <1>6, <1>7, <1>8, <1>25, <1>27, <2>1, <2>2, <2>3
          DEF Mapped, i1, i2, i3, i4
<1>29. r.used \subseteq Frames \cup {p} /\ IsTree(r)
  BY <1>22, <1>25 DEF IsTree
<1>30. ASSUME NEW q \in 0..NbPage - 1
       PROVE  Mapped(r, q) <=> Mapped(mm, q) \/ q = p
  <2>1. HasPage(r, o2, q) <=> HasPage(mm, o, q) \/ q = p
    BY <1>12, <1>16, <1>20, <1>25, <1>26 DEF SamePages, OneMorePage
  <2>2. Mapped(mm, q) <=> HasPage(mm, o, q)
    BY <1>9, MappedPage
  <2>3. Mapped(r, q) <=> HasPage(r, o2, q)
    BY <1>25, MappedPage
  <2> QED BY <2>1, <2>2, <2>3
<1> QED BY <1>1, <1>26, <1>28, <1>29, <1>30 DEF p

(* memory_map of a page that is mapped changes nothing.                    *)
LEMMA MapMapped ==
    ASSUME NEW mm, IsMemory(mm), NEW a \in AnyAddress, NEW to \in AnyAddress, NEW D,
           Mapped(mm, a.page), ~memory_map(mm, a, to, D).broken
    PROVE  memory_map(mm, a, to, D) = mm
<1> DEFINE p  == a.page
           i4 == Index(p, 4)
           i3 == Index(p, 3)
           i2 == Index(p, 2)
           i1 == Index(p, 1)
           m4 == Below(mm, Root, i4, D)
           f3 == pointer_to_page(m4, Root, i4)
           m3 == Below(m4, f3, i3, D)
           f2 == pointer_to_page(m3, f3, i3)
           m2 == Below(m3, f2, i2, D)
           f1 == pointer_to_page(m2, f2, i2)
           r  == Leaf(m2, f1, i1, a, to, D)
<1>1. memory_map(mm, a, to, D) = r /\ ~r.broken
  BY DEF memory_map
<1>2. i1 \in Entry /\ i2 \in Entry /\ i3 \in Entry /\ i4 \in Entry
  <2>1. \A k \in Levels : Index(p, k) \in Entry
    BY IndexType DEF Entry, AnyAddress
  <2> QED BY <2>1 DEF Levels
<1>3. /\ Present(mm, Root, i4) /\ Present(mm, Pud(mm, p), i3)
      /\ Present(mm, Pmd(mm, p), i2) /\ Present(mm, Pte(mm, p), i1)
  BY DEF Mapped
<1>4. /\ Pud(mm, p) = pointer_to_page(mm, Root, i4)
      /\ Pmd(mm, p) = pointer_to_page(mm, Pud(mm, p), i3)
      /\ Pte(mm, p) = pointer_to_page(mm, Pmd(mm, p), i2)
  BY DEF Pud, Pmd, Pte
<1> HIDE DEF p, i1, i2, i3, i4
<1>5. IsMemory(m4) /\ IsMemory(m3) /\ IsMemory(m2)
  <2>1. IsMemory(m4)
    BY <1>2, BelowResult
  <2> HIDE DEF m4
  <2>2. IsMemory(m3)
    BY <1>2, <2>1, BelowResult
  <2> HIDE DEF m3
  <2>3. IsMemory(m2)
    BY <1>2, <2>2, BelowResult
  <2> QED BY <2>1, <2>2, <2>3
<1>6. ~m2.broken /\ HasLeaf(m2, r, f1, i1, a, to)
  <2> HIDE DEF m2, f1
  <2>1. HasLeaf(m2, r, f1, i1, a, to)
    BY <1>1, <1>2, <1>5, LeafResult
  <2> QED BY <2>1 DEF HasLeaf
<1>7. ~m3.broken /\ HasBelow(m3, m2, f2, i2, allocate_page(m3))
  <2>1. ~m2.broken
    BY <1>6
  <2> HIDE DEF m3, f2
  <2>2. HasBelow(m3, m2, f2, i2, allocate_page(m3))
    BY <1>2, <1>5, <2>1, BelowResult
  <2> QED BY <2>2 DEF HasBelow
<1>8. ~m4.broken /\ HasBelow(m4, m3, f3, i3, allocate_page(m4))
  <2>1. ~m3.broken
    BY <1>7
  <2> HIDE DEF m4, f3
  <2>2. HasBelow(m4, m3, f3, i3, allocate_page(m4))
    BY <1>2, <1>5, <2>1, BelowResult
  <2> QED BY <2>2 DEF HasBelow
<1>9. m4 = mm /\ f3 = Pud(mm, p)
  <2>1. HasBelow(mm, m4, Root, i4, allocate_page(mm))
    BY <1>2, <1>8, BelowResult
  <2> HIDE DEF m4
  <2>2. m4 = mm
    BY <1>3, <2>1 DEF HasBelow, Grown
  <2> QED BY <1>4, <2>2
<1> HIDE DEF m4, f3
<1>10. m3 = mm /\ f2 = Pmd(mm, p)
  <2> HIDE DEF m3
  <2>1. m3 = mm
    BY <1>3, <1>8, <1>9 DEF HasBelow, Grown
  <2> QED BY <1>4, <1>9, <2>1
<1> HIDE DEF m3, f2
<1>11. m2 = mm /\ f1 = Pte(mm, p)
  <2> HIDE DEF m2
  <2>1. m2 = mm
    BY <1>3, <1>7, <1>10 DEF HasBelow, Grown
  <2> QED BY <1>4, <1>10, <2>1
<1> HIDE DEF m2, f1, r
<1>12. r = mm
  BY <1>3, <1>6, <1>11 DEF HasLeaf, Grown
<1> QED BY <1>1, <1>12

(* What a tree needs stays when pages are marked as used.                  *)
LEMMA TreeMarked ==
    ASSUME NEW mm, NEW r, IsTree(mm), r.tables = mm.tables, mm.used \subseteq r.used
    PROVE  IsTree(r)
<1>1. PICK o : Tree(mm, o)
  BY DEF IsTree
<1>2. Tree(r, o)
  BY <1>1 DEF Tree, Present
<1> QED BY <1>2 DEF IsTree

(* No page is mapped yet.                                                  *)
LEMMA NewMemoryTree == IsMemory(NewMemory) /\ IsTree(NewMemory) /\ NewMemory.used = {}
<1> DEFINE o == [f \in {Root} |-> Top]
<1>1. IsMemory(NewMemory) /\ NewMemory.used = {}
  BY NullType DEF NewMemory, IsMemory, Memories
<1>2. \A f \in Frames, i \in Entry : ~Present(NewMemory, f, i)
  BY NullType DEF NewMemory, Present, Entry
<1>3. Top \in Owner
  BY DEF Top, Owner, Levels
<1>4. Tree(NewMemory, o)
  BY <1>1, <1>2, <1>3 DEF Tree
<1> QED BY <1>1, <1>4 DEF IsTree

----------------------------------------------------------------------------
(* Room for the tables                                                     *)

(* The pages of one lowest table are a group; the tables that a group      *)
(* needs, one of every level below the root, as <<group, level>>, and those*)
(* that the pages P need.                                                  *)
Groups(P) == {p \div Width : p \in P}
GroupOf(k, g) == CASE k = 1 -> g [] k = 2 -> g \div Width [] k = 3 -> (g \div Width) \div Width
TableOf(x) == [level |-> x[2], base |-> GroupOf(x[2], x[1])]
Needed(P)  == {TableOf(x) : x \in Groups(P) \X (1..3)}

(* There is room for these tables in the frames below P.                   *)
Room(P) == P \subseteq Frames /\ \A p \in P : p > Root + 3 * Cardinality(Groups(P))

(* Pages of P and tables that P needs are all that is used, and the tables *)
(* are in the first frames from the root on.                               *)
Packed(mm, o, P) ==
    /\ IsMemory(mm) /\ ~mm.broken /\ Tree(mm, o) /\ mm.used \subseteq DOMAIN o \cup P
    /\ \E n \in Nat : DOMAIN o = 1..n
    /\ \A g \in DOMAIN o \ {Root} : o[g] \in Needed(P)

LEMMA GroupsFinite ==
    ASSUME NEW P, P \subseteq Frames
    PROVE  IsFiniteSet(Groups(P)) /\ Cardinality(Groups(P)) \in Nat /\ Groups(P) \subseteq Nat
<1>1. ASSUME NEW p \in P PROVE p \div Width \in 0..NbFrames - 1
  <2>1. p \in 0..NbFrames - 1 /\ p \in Nat /\ Width \in Nat \ {0}
    BY MemoryAssumption DEF Frames
  <2>2. p \div Width \in Nat /\ p % Width \in 0..Width - 1 /\ p - (p \div Width) * Width = p % Width
    BY <2>1, Division
  <2> DEFINE q == p \div Width
             t == p % Width
  <2>3. q \in Nat /\ t \in 0..Width - 1 /\ p - q * Width = t
    BY <2>2
  <2> HIDE DEF q, t
  <2>4. q <= q * Width
    BY <2>1, <2>3
  <2>5. q \in 0..NbFrames - 1
    BY <2>1, <2>3, <2>4, MemoryAssumption
  <2> QED BY <2>5 DEF q
<1>2. Groups(P) \subseteq 0..NbFrames - 1
  BY <1>1 DEF Groups
<1>3. IsFiniteSet(0..NbFrames - 1)
  BY FS_Interval, MemoryAssumption
<1>4. IsFiniteSet(Groups(P))
  BY <1>2, <1>3, FS_Subset
<1>5. Groups(P) \subseteq Nat
  BY <1>2
<1> QED BY <1>4, <1>5, FS_CardinalityType

(* There are three tables for a group at most.                             *)
LEMMA TablesCounted ==
    ASSUME NEW P, P \subseteq Frames, NEW S, NEW q,
           \A h \in S : q[h] \in Needed(P),
           \A h, k \in S : q[h] = q[k] => h = k
    PROVE  /\ IsFiniteSet(S) /\ Cardinality(S) \in Nat
           /\ Cardinality(S) <= 3 * Cardinality(Groups(P))
<1> DEFINE T == Groups(P) \X (1..3)
           c == [h \in S |-> CHOOSE x \in T : q[h] = TableOf(x)]
<1>1. IsFiniteSet(T) /\ Cardinality(T) = 3 * Cardinality(Groups(P))
  <2>1. IsFiniteSet(1..3) /\ Cardinality(1..3) = 3
    <3>1. 1 \in Int /\ 3 \in Int
      OBVIOUS
    <3>2. IsFiniteSet(1..3) /\ Cardinality(1..3) = IF 1 > 3 THEN 0 ELSE 3 - 1 + 1
      BY <3>1, FS_Interval
    <3> QED BY <3>2
  <2>2. /\ IsFiniteSet(T) /\ Cardinality(T) = Cardinality(Groups(P)) * Cardinality(1..3)
    BY <2>1, GroupsFinite, FS_Product
  <2> QED BY <2>1, <2>2, GroupsFinite
<1>2. ASSUME NEW h \in S PROVE c[h] \in T /\ q[h] = TableOf(c[h])
  <2>1. \E x \in T : q[h] = TableOf(x)
    BY DEF Needed
  <2> QED BY <2>1
<1> HIDE DEF c
<1>3. c \in [S -> T]
  <2>1. c = [h \in S |-> c[h]]
    BY DEF c
  <2> QED BY <1>2, <2>1
<1>4. \A h, k \in S : c[h] = c[k] => h = k
  BY <1>2
<1>5. c \in Injection(S, T)
  BY <1>3, <1>4 DEF Injection, IsInjective
<1> HIDE DEF T
<1> QED BY <1>1, <1>5, FS_Injection, FS_CardinalityType

(* The tables are in frames of guest memory, and not in those of P.        *)
LEMMA PackedFrames ==
    ASSUME NEW mm, NEW o, NEW P, Packed(mm, o, P), Room(P)
    PROVE  DOMAIN o \subseteq Frames \ P /\ mm.used \subseteq Frames
<1>1. PICK n \in Nat : DOMAIN o = 1..n
  BY DEF Packed
<1> DEFINE c == Cardinality(Groups(P))
           S == DOMAIN o \ {Root}
<1>2. c \in Nat /\ P \subseteq Frames
  BY GroupsFinite DEF Room
<1>3. Root \in DOMAIN o /\ n >= 1
  BY <1>1 DEF Packed, Tree, Root
<1>4. S = 2..n
  BY <1>1 DEF Root
<1>5. Cardinality(S) <= 3 * c
  <2>1. \A h, k \in S : o[h] = o[k] => h = k
    BY DEF Packed, Tree
  <2>2. \A h \in S : o[h] \in Needed(P)
    BY DEF Packed
  <2> HIDE DEF S
  <2> QED BY <1>2, <2>1, <2>2, TablesCounted
<1>6. Cardinality(2..n) = n - 1
  BY <1>3, FS_Interval
<1> HIDE DEF c, S
<1>7. n <= Root + 3 * c
  BY <1>2, <1>4, <1>5, <1>6 DEF Root
<1>8. \A p \in P : p > n
  BY <1>2, <1>7 DEF Room, c, Frames, Root
<1>9. n < NbFrames
  <2>1. CASE P = {}
    <3>1. Needed(P) = {}
      BY <2>1 DEF Needed, Groups
    <3>2. DOMAIN o \subseteq {Root}
      BY <3>1 DEF Packed
    <3> QED BY <1>1, <3>2, MemoryAssumption DEF Root
  <2>2. CASE P # {}
    <3>1. PICK p \in P : p \in 0..NbFrames - 1 /\ p > n
      BY <1>2, <1>8, <2>2 DEF Frames
    <3> QED BY <3>1, MemoryAssumption
  <2> QED BY <2>1, <2>2
<1>10. DOMAIN o \subseteq Frames \ P
  BY <1>1, <1>8, <1>9, MemoryAssumption DEF Frames
<1> QED BY <1>2, <1>10 DEF Packed

(* The allocator gives the frame behind the last table.                    *)
LEMMA NextFrame ==
    ASSUME NEW mm, NEW o, NEW P, Packed(mm, o, P), Room(P), NEW r, NEW q, NEW w \in Needed(P),
           Extends(mm, o, r, q, allocate_page(mm), w), allocate_page(mm) \notin mm.used \cup {Root}
    PROVE  \E n \in Nat : DOMAIN o = 1..n /\ allocate_page(mm) = n + 1
<1>1. PICK n \in Nat : DOMAIN o = 1..n
  BY DEF Packed
<1> DEFINE c == Cardinality(Groups(P))
           g == allocate_page(mm)
           S == (2..n) \cup {g}
<1>2. c \in Nat /\ P \subseteq Frames
  BY GroupsFinite DEF Room
<1>3. Root \in DOMAIN o /\ n >= 1 /\ DOMAIN o \subseteq mm.used \cup {Root}
  BY <1>1 DEF Packed, Tree, Root
<1> HIDE DEF g
<1>4. g \notin DOMAIN o /\ g \notin 2..n
  BY <1>1, <1>3 DEF Root, g
<1>5. Cardinality(S) <= 3 * c
  <2>1. \A h \in S : h \in DOMAIN q /\ q[h] \in Needed(P)
    BY <1>1, <1>4 DEF Packed, Extends, Root, g
  <2>2. \A h, k \in S : q[h] = q[k] => h = k
    BY <2>1 DEF Extends, Tree
  <2> HIDE DEF S
  <2> QED BY <1>2, <2>1, <2>2, TablesCounted
<1>6. Cardinality(S) = n
  <2>1. IsFiniteSet(2..n) /\ Cardinality(2..n) = n - 1
    BY <1>3, FS_Interval
  <2>2. Cardinality(S) = Cardinality(2..n) + 1
    BY <1>4, <2>1, FS_AddElement
  <2> QED BY <2>1, <2>2
<1> HIDE DEF c, S
<1>7. PICK p \in P : p \in Frames /\ p > n + 1
  <2>1. PICK p \in P : TRUE
    BY DEF Needed, Groups
  <2>2. p \in Frames /\ p > Root + 3 * c
    BY <1>2, <2>1 DEF Room, c
  <2>3. p > n + 1
    BY <1>2, <1>5, <1>6, <2>2 DEF Root, Frames
  <2> QED BY <2>2, <2>3
<1>8. n + 1 \notin P
  BY <1>2, <1>5, <1>6 DEF Room, c, Frames, Root
<1>9. n + 1 \in 2..NbPage - 1 /\ n + 1 \notin mm.used
  <2>1. n + 1 \notin DOMAIN o
    BY <1>1
  <2> QED BY <1>3, <1>7, <1>8, <2>1, MemoryAssumption DEF Packed, Frames
<1>10. 2..n \subseteq mm.used
  BY <1>1, <1>3 DEF Root
<1>11. ~Full(mm)
  BY <1>9 DEF Full
<1>12. allocate_page(mm) = n + 1
  <2> DEFINE L(i) == i \notin mm.used /\ 2..i - 1 \subseteq mm.used
  <2>1. L(n + 1)
    BY <1>9, <1>10
  <2>2. \A i \in 2..NbPage - 1 : L(i) => i = n + 1
    <3> SUFFICES ASSUME NEW i \in 2..NbPage - 1, L(i), i # n + 1 PROVE FALSE
      OBVIOUS
    <3>1. CASE i < n + 1
      BY <1>10, <3>1
    <3>2. CASE i > n + 1
      <4>1. n + 1 \in 2..i - 1
        BY <1>9, <3>2
      <4> QED BY <1>9, <4>1
    <3> QED BY <3>1, <3>2
  <2>3. allocate_page(mm) = CHOOSE i \in 2..NbPage - 1 : L(i)
    BY <1>11 DEF allocate_page
  <2> HIDE DEF L
  <2> QED BY <1>9, <2>1, <2>2, <2>3
<1> QED BY <1>1, <1>12

(* What memory_map does in a sound table is not broken.                    *)
LEMMA BelowSound ==
    ASSUME NEW mm, IsMemory(mm), ~mm.broken, NEW f, NEW i \in Entry, NEW D, Sound(f, D)
    PROVE  ~Below(mm, f, i, D).broken
<1>1. CASE Present(mm, f, i)
  BY <1>1 DEF Below
<1>2. CASE ~Present(mm, f, i)
  <2> DEFINE al == Allocated(mm)
             to == At(allocate_page(mm), {})
  <2>1. IsMemory(al) /\ al.broken = mm.broken
    BY AllocatedType
  <2>2. to \in Addresses /\ f \in Frames
    BY AllocateType DEF At, Addresses, Sound
  <2>3. Below(mm, f, i, D) = SetEntry(al, f, i, to)
    BY <1>2 DEF Below
  <2> HIDE DEF al, to
  <2> QED BY <2>1, <2>2, <2>3, SetEntryKeeps
<1> QED BY <1>1, <1>2

LEMMA LeafSound ==
    ASSUME NEW mm, IsMemory(mm), ~mm.broken, NEW f, NEW i \in Entry, NEW D, Sound(f, D),
           NEW a, NEW to \in Addresses, a # Null, to # Null
    PROVE  ~Leaf(mm, f, i, a, to, D).broken
<1>1. CASE Present(mm, f, i)
  BY <1>1 DEF Leaf
<1>2. CASE ~Present(mm, f, i)
  <2> DEFINE told == invalidate_page(mm, to.page)
  <2>1. to.page \in Nat /\ to.page < NbPage /\ f \in Frames
    BY MemoryAssumption DEF Addresses, Sound
  <2>2. IsMemory(told)
    BY <2>1, InvalidateType
  <2>3. told.broken = mm.broken
    BY <2>1 DEF invalidate_page, IsMemory, Memories
  <2>4. Leaf(mm, f, i, a, to, D) = SetEntry(told, f, i, to)
    BY <1>2, <2>3 DEF Leaf
  <2> HIDE DEF told
  <2> QED BY <2>1, <2>2, <2>3, <2>4, SetEntryKeeps
<1> QED BY <1>1, <1>2

(* One level down, for a table that P needs.                               *)
LEMMA PackedBelow ==
    ASSUME NEW mm, NEW o, NEW P, Packed(mm, o, P), Room(P), NEW D, D \subseteq P,
           NEW f \in DOMAIN o, o[f].level > 1, NEW i \in Entry, Child(o[f], i) \in Needed(P)
    PROVE  LET r == Below(mm, f, i, D)
               g == pointer_to_page(r, f, i)
           IN  \E q : Packed(r, q, P) /\ g \in DOMAIN q /\ q[g] = Child(o[f], i)
<1> DEFINE r == Below(mm, f, i, D)
           n == allocate_page(mm)
           w == Child(o[f], i)
<1>1. IsMemory(mm) /\ ~mm.broken /\ Tree(mm, o) /\ mm.used \subseteq Frames
  BY PackedFrames DEF Packed
<1>2. f \in Frames /\ Sound(f, D)
  BY PackedFrames DEF Sound
<1>3. IsMemory(r) /\ ~r.broken
  BY <1>1, <1>2, BelowSound, BelowResult
<1>4. \/ Present(mm, f, i) /\ r = mm
      \/ Grown(mm, r, f, i, n) /\ r.used = mm.used \cup ({n} \ {0})
  BY <1>1, <1>3, BelowResult DEF HasBelow
<1> HIDE DEF r, w
<1>5. CASE Present(mm, f, i) /\ r = mm
  <2>1. pointer_to_page(r, f, i) = mm.tables[f][i].page
    BY <1>2, <1>5 DEF pointer_to_page
  <2>2. mm.tables[f][i].page \in DOMAIN o /\ o[mm.tables[f][i].page] = w
    BY <1>1, <1>2, <1>5, TreeChild DEF w
  <2> QED BY <1>5, <2>1, <2>2 DEF r, w
<1>6. CASE Grown(mm, r, f, i, n) /\ r.used = mm.used \cup ({n} \ {0})
  <2>1. NbFrames \in 2..NbPage - 1 /\ NbFrames \notin mm.used
    BY <1>1, MemoryAssumption DEF Frames
  <2>2. ~Full(mm)
    BY <2>1 DEF Full
  <2>3. n >= 2 /\ n \notin mm.used
    BY <2>2, AllocateType
  <2>4. n \notin mm.used \cup {Root} /\ mm.used \cup {n} \subseteq r.used
    BY <1>6, <2>3 DEF Root
  <2>5. PICK q : Extends(mm, o, r, q, n, w)
    <3> HIDE DEF n
    <3> QED BY <1>1, <1>2, <1>6, <2>4, TreeGrows DEF w
  <2>6. PICK k \in Nat : DOMAIN o = 1..k /\ n = k + 1
    BY <2>4, <2>5, NextFrame DEF w
  <2> HIDE DEF n
  <2>7. DOMAIN q = 1..k + 1
    BY <2>5, <2>6 DEF Extends
  <2>8. r.used \subseteq DOMAIN q \cup P
    BY <1>6, <2>5 DEF Extends, Packed
  <2>9. \A g \in DOMAIN q \ {Root} : q[g] \in Needed(P)
    BY <2>5 DEF Extends, Packed, w
  <2>10. Tree(r, q) /\ n \in DOMAIN q /\ q[n] = w
    BY <2>5 DEF Extends
  <2>11. k + 1 \in Nat
    BY <2>6
  <2>12. Packed(r, q, P)
    BY <1>3, <2>7, <2>8, <2>9, <2>10, <2>11 DEF Packed
  <2>13. pointer_to_page(r, f, i) = n
    BY <1>2, <1>6 DEF pointer_to_page, Grown
  <2> QED BY <2>10, <2>12, <2>13 DEF r, w
<1> QED BY <1>4, <1>5, <1>6

(* memory_map of a page of P is sound, and there is still room.            *)
LEMMA PackedMap ==
    ASSUME NEW mm, NEW o, NEW P, Packed(mm, o, P), Room(P), NEW D, D \subseteq P,
           NEW a \in Addresses, NEW to \in Addresses, a.page \in P, to.page = a.page
    PROVE  LET r == memory_map(mm, a, to, D)
           IN  /\ \E q : Packed(r, q, P)
               /\ \A q \in 0..NbPage - 1 : Mapped(r, q) <=> Mapped(mm, q) \/ q = a.page
<1> DEFINE p  == a.page
           g  == p \div Width
           i4 == Index(p, 4)
           i3 == Index(p, 3)
           i2 == Index(p, 2)
           i1 == Index(p, 1)
           m4 == Below(mm, Root, i4, D)
           f3 == pointer_to_page(m4, Root, i4)
           m3 == Below(m4, f3, i3, D)
           f2 == pointer_to_page(m3, f3, i3)
           m2 == Below(m3, f2, i2, D)
           f1 == pointer_to_page(m2, f2, i2)
           r  == Leaf(m2, f1, i1, a, to, D)
<1>1. memory_map(mm, a, to, D) = r
  BY DEF memory_map
<1>2. p \in 0..NbPage - 1 /\ p > 0 /\ a # Null /\ to # Null
  <2>1. p \in Frames /\ p > Root + 3 * Cardinality(Groups(P))
    BY DEF Room
  <2>2. Cardinality(Groups(P)) \in Nat /\ p \in 0..NbFrames - 1
    BY <2>1, GroupsFinite DEF Frames, Room
  <2>3. p > 0
    BY <2>1, <2>2 DEF Root
  <2> QED BY <2>2, <2>3, MemoryAssumption DEF Null, At
<1>3. i1 \in Entry /\ i2 \in Entry /\ i3 \in Entry /\ i4 \in Entry
  <2>1. \A k \in Levels : Index(p, k) \in Entry
    BY <1>2, IndexType DEF Entry
  <2> QED BY <2>1 DEF Levels
<1>4. /\ i4 = GroupOf(3, g) /\ i4 * Width + i3 = GroupOf(2, g)
      /\ GroupOf(2, g) * Width + i2 = g /\ g * Width + i1 = p
  BY <1>2, IndexBases DEF GroupOf
<1>5. \A k \in 1..3 : [level |-> k, base |-> GroupOf(k, g)] \in Needed(P)
  <2>1. \A k \in 1..3 : <<g, k>> \in Groups(P) \X (1..3)
    BY DEF Groups
  <2>2. \A k \in 1..3 : TableOf(<<g, k>>) = [level |-> k, base |-> GroupOf(k, g)]
    BY DEF TableOf
  <2> QED BY <2>1, <2>2 DEF Needed
<1> DEFINE w3 == [level |-> 3, base |-> GroupOf(3, g)]
           w2 == [level |-> 2, base |-> GroupOf(2, g)]
           w1 == [level |-> 1, base |-> GroupOf(1, g)]
<1>6. w3 \in Needed(P) /\ w2 \in Needed(P) /\ w1 \in Needed(P)
  BY <1>5
<1>7. GroupOf(1, g) = g
  BY DEF GroupOf
<1>8. /\ Child(Top, i4) = w3 /\ Child(w3, i3) = w2 /\ Child(w2, i2) = w1
      /\ w3.level = 3 /\ w2.level = 2 /\ w1.level = 1 /\ w1.base = g
  <2>1. 0 * Width + i4 = i4
    BY <1>3, MemoryAssumption DEF Entry
  <2> HIDE DEF i1, i2, i3, i4, g
  <2> QED BY <1>4, <1>7, <2>1 DEF Child, Top
<1> HIDE DEF i1, i2, i3, i4, g, w1, w2, w3
<1>9. Root \in DOMAIN o /\ o[Root] = Top /\ Top.level = 4
  BY DEF Packed, Tree, Top
<1>10. PICK o4 : Packed(m4, o4, P) /\ f3 \in DOMAIN o4 /\ o4[f3] = w3
  <2>1. o[Root].level > 1 /\ Child(o[Root], i4) = w3
    BY <1>8, <1>9
  <2> QED BY <1>3, <1>6, <1>9, <2>1, PackedBelow
<1> HIDE DEF m4, f3
<1>11. PICK o3 : Packed(m3, o3, P) /\ f2 \in DOMAIN o3 /\ o3[f2] = w2
  <2>1. o4[f3].level > 1 /\ Child(o4[f3], i3) = w2
    BY <1>8, <1>10
  <2> QED BY <1>3, <1>6, <1>10, <2>1, PackedBelow
<1> HIDE DEF m3, f2
<1>12. PICK o2 : Packed(m2, o2, P) /\ f1 \in DOMAIN o2 /\ o2[f1] = w1
  <2>1. o3[f2].level > 1 /\ Child(o3[f2], i2) = w1
    BY <1>8, <1>11
  <2> QED BY <1>3, <1>6, <1>11, <2>1, PackedBelow
<1> HIDE DEF m2, f1
<1>13. /\ IsMemory(m2) /\ ~m2.broken /\ Tree(m2, o2) /\ f1 \in Frames /\ Sound(f1, D)
  BY <1>12, PackedFrames DEF Packed, Sound
<1>14. ~r.broken
  BY <1>2, <1>3, <1>13, LeafSound
<1>15. a \in AnyAddress /\ to \in AnyAddress
  BY DEF Addresses, AnyAddress
<1>16. IsMemory(r) /\ Tree(r, o2) /\ r.used \subseteq m2.used \cup {a.page}
  <2>1. o2[f1].level = 1 /\ o2[f1].base * Width + i1 = a.page
    BY <1>4, <1>8, <1>12
  <2> QED BY <1>2, <1>3, <1>12, <1>13, <1>14, <1>15, <2>1, LeafTree
<1> HIDE DEF r
<1>17. Packed(r, o2, P)
  BY <1>12, <1>14, <1>16 DEF Packed
<1>18. \A q \in 0..NbPage - 1 : Mapped(r, q) <=> Mapped(mm, q) \/ q = a.page
  <2>1. IsMemory(mm) /\ IsTree(mm) /\ mm.used \subseteq Frames
    BY PackedFrames DEF Packed, IsTree
  <2>2. a.page >= NbPage => Reach(a.page) >= NbPage
    BY <1>2, MemoryAssumption
  <2> QED BY <1>1, <1>2, <1>14, <1>15, <2>1, <2>2, MapTree
<1> QED BY <1>1, <1>17, <1>18

(* Marking pages of P as used, and nothing mapped.                         *)
LEMMA PackedMarked ==
    ASSUME NEW mm, NEW o, NEW P, Packed(mm, o, P), P \subseteq Frames, NEW p \in P
    PROVE  /\ Packed(invalidate_page(mm, p), o, P)
           /\ invalidate_page(mm, p).tables = mm.tables
<1> DEFINE r == invalidate_page(mm, p)
<1>1. p \in Nat /\ p < NbPage
  BY MemoryAssumption DEF Frames
<1>2. r = [mm EXCEPT !.used = @ \cup {p}]
  BY <1>1 DEF invalidate_page
<1>3. IsMemory(mm) /\ mm \in Memories
  BY DEF Packed, IsMemory
<1>4. r.used = mm.used \cup {p} /\ r.broken = mm.broken /\ r.tables = mm.tables
  BY <1>2, <1>3 DEF Memories
<1>5. IsMemory(r)
  BY <1>1, <1>3, InvalidateType
<1> HIDE DEF r
<1>6. Tree(r, o)
  BY <1>4 DEF Packed, Tree, Present
<1> QED BY <1>4, <1>5, <1>6 DEF r, Packed

LEMMA PackedNew == \A P : \E o : Packed(NewMemory, o, P)
<1> SUFFICES ASSUME NEW P PROVE \E o : Packed(NewMemory, o, P)
  OBVIOUS
<1>1. PICK o : Tree(NewMemory, o)
  BY NewMemoryTree DEF IsTree
<1>2. NewMemory.used = {} /\ ~NewMemory.broken
  BY DEF NewMemory
<1>3. DOMAIN o = {Root}
  BY <1>1, <1>2 DEF Tree
<1>4. DOMAIN o = 1..1 /\ 1 \in Nat
  BY <1>3 DEF Root
<1>5. Packed(NewMemory, o, P)
  BY <1>1, <1>2, <1>3, <1>4, NewMemoryTree DEF Packed
<1> QED BY <1>5

----------------------------------------------------------------------------
(* The tables of a tree                                                    *)

TablesAt(o, k) == {g \in DOMAIN o : o[g].level = k}

(* The tables below those of a level are of the next level.                *)
LEMMA ChildrenLevel ==
    ASSUME NEW mm, NEW o, Tree(mm, o), NEW k \in {2, 3, 4}, NEW F, F \subseteq TablesAt(o, k)
    PROVE  Children(mm, F) \subseteq TablesAt(o, k - 1)
<1> SUFFICES ASSUME NEW e \in Entries(mm, F)
             PROVE  mm.tables[e[1]][e[2]].page \in TablesAt(o, k - 1)
  BY DEF Children
<1>1. /\ e[1] \in Frames /\ e[1] \in F /\ e[2] \in Entry /\ Present(mm, e[1], e[2])
  BY DEF Entries, Entry
<1>2. o[e[1]].level = k
  BY <1>1 DEF TablesAt
<1>3. /\ mm.tables[e[1]][e[2]].page \in DOMAIN o
      /\ o[mm.tables[e[1]][e[2]].page] = Child(o[e[1]], e[2])
  BY <1>1, <1>2, TreeChild
<1> QED BY <1>2, <1>3 DEF TablesAt, Child

LEMMA TableLevels ==
    ASSUME NEW mm, NEW o, Tree(mm, o)
    PROVE  /\ {Root} \subseteq TablesAt(o, 4) /\ Puds(mm) \subseteq TablesAt(o, 3)
           /\ Pmds(mm) \subseteq TablesAt(o, 2) /\ Ptes(mm) \subseteq TablesAt(o, 1)
<1>1. {Root} \subseteq TablesAt(o, 4)
  BY DEF Tree, Top, TablesAt
<1>2. Puds(mm) \subseteq TablesAt(o, 3)
  <2>1. Children(mm, {Root}) \subseteq TablesAt(o, 4 - 1)
    BY <1>1, ChildrenLevel
  <2> QED BY <2>1 DEF Puds
<1>3. Pmds(mm) \subseteq TablesAt(o, 2)
  <2>1. Children(mm, Puds(mm)) \subseteq TablesAt(o, 3 - 1)
    BY <1>2, ChildrenLevel
  <2> QED BY <2>1 DEF Pmds
<1>4. Ptes(mm) \subseteq TablesAt(o, 1)
  <2>1. Children(mm, Pmds(mm)) \subseteq TablesAt(o, 2 - 1)
    BY <1>3, ChildrenLevel
  <2> QED BY <2>1 DEF Ptes
<1> QED BY <1>1, <1>2, <1>3, <1>4

(* No table is in two entries.                                             *)
LEMMA EntriesApart ==
    ASSUME NEW mm, NEW o, Tree(mm, o), NEW k \in {2, 3, 4}, NEW F, F \subseteq TablesAt(o, k),
           NEW d \in Entries(mm, F), NEW e \in Entries(mm, F),
           mm.tables[d[1]][d[2]].page = mm.tables[e[1]][e[2]].page
    PROVE  d = e
<1>1. /\ d[1] \in Frames /\ d[1] \in F /\ d[2] \in Entry /\ Present(mm, d[1], d[2])
      /\ e[1] \in Frames /\ e[1] \in F /\ e[2] \in Entry /\ Present(mm, e[1], e[2])
      /\ d = <<d[1], d[2]>> /\ e = <<e[1], e[2]>>
  BY DEF Entries, Entry
<1>2. o[d[1]].level = k /\ o[e[1]].level = k /\ d[1] \in DOMAIN o /\ e[1] \in DOMAIN o
  BY <1>1 DEF TablesAt
<1>3. Child(o[d[1]], d[2]) = Child(o[e[1]], e[2])
  BY <1>1, <1>2, TreeChild
<1>4. o[d[1]] \in Owner /\ o[e[1]] \in Owner
  BY <1>2 DEF Tree
<1>5. /\ o[d[1]].base \in Nat /\ o[e[1]].base \in Nat
      /\ o[d[1]].base * Width + d[2] = o[e[1]].base * Width + e[2]
  BY <1>3, <1>4 DEF Child, Owner
<1>6. o[d[1]].base = o[e[1]].base /\ d[2] = e[2]
  BY <1>1, <1>5, SameDigits DEF Entry
<1>7. o[d[1]] = o[e[1]]
  BY <1>2, <1>4, <1>6 DEF Owner
<1>8. d[1] = e[1]
  BY <1>2, <1>7 DEF Tree
<1> QED BY <1>1, <1>6, <1>8

LEMMA DisjointUnion ==
    ASSUME NEW S, NEW T, IsFiniteSet(S), IsFiniteSet(T), S \cap T = {}
    PROVE  /\ IsFiniteSet(S \cup T) /\ Cardinality(S) \in Nat /\ Cardinality(T) \in Nat
           /\ Cardinality(S \cup T) = Cardinality(S) + Cardinality(T)
<1>1. Cardinality(S) \in Nat /\ Cardinality(T) \in Nat
  BY FS_CardinalityType
<1>2. Cardinality(S \cap T) = 0
  BY FS_EmptySet
<1>3. /\ IsFiniteSet(S \cup T)
      /\ Cardinality(S \cup T) = Cardinality(S) + Cardinality(T) - Cardinality(S \cap T)
  BY FS_Union
<1> QED BY <1>1, <1>2, <1>3

(* A table is at one level: the tables are as many as those of the levels. *)
LEMMA LevelsApart ==
    ASSUME NEW mm, NEW o, Tree(mm, o), DOMAIN o \subseteq Frames
    PROVE  /\ TableFrames(mm) \subseteq DOMAIN o
           /\ Cardinality(TableFrames(mm)) =
                 1 + Cardinality(Puds(mm)) + Cardinality(Pmds(mm)) + Cardinality(Ptes(mm))
<1> DEFINE A == {Root}
           B == Puds(mm)
           C == Pmds(mm)
           D == Ptes(mm)
<1>1. /\ A \subseteq TablesAt(o, 4) /\ B \subseteq TablesAt(o, 3)
      /\ C \subseteq TablesAt(o, 2) /\ D \subseteq TablesAt(o, 1)
  BY TableLevels
<1>2. IsFiniteSet(Frames)
  BY FS_Interval, MemoryAssumption DEF Frames
<1>3. Cardinality(A) = 1
  BY FS_Singleton
<1>4. TableFrames(mm) = ((A \cup B) \cup C) \cup D
  BY DEF TableFrames
<1> HIDE DEF A, B, C, D
<1>5. A \subseteq DOMAIN o /\ B \subseteq DOMAIN o /\ C \subseteq DOMAIN o /\ D \subseteq DOMAIN o
  BY <1>1 DEF TablesAt
<1>6. A \cap B = {} /\ (A \cup B) \cap C = {} /\ ((A \cup B) \cup C) \cap D = {}
  BY <1>1 DEF TablesAt
<1>7. IsFiniteSet(A) /\ IsFiniteSet(B) /\ IsFiniteSet(C) /\ IsFiniteSet(D)
  BY <1>2, <1>5, FS_Subset
<1>8. IsFiniteSet(A \cup B) /\ Cardinality(A \cup B) = Cardinality(A) + Cardinality(B)
  BY <1>6, <1>7, DisjointUnion
<1>9. /\ IsFiniteSet((A \cup B) \cup C)
      /\ Cardinality((A \cup B) \cup C) = Cardinality(A \cup B) + Cardinality(C)
  BY <1>6, <1>7, <1>8, DisjointUnion
<1>10. Cardinality(((A \cup B) \cup C) \cup D) = Cardinality((A \cup B) \cup C) + Cardinality(D)
  BY <1>6, <1>7, <1>9, DisjointUnion
<1> QED BY <1>3, <1>4, <1>5, <1>8, <1>9, <1>10 DEF B, C, D

(* Every entry that is set has all of the flags.                           *)
LEMMA MappedRights ==
    ASSUME NEW mm, IsMemory(mm), NEW p \in Nat, Mapped(mm, p)
    PROVE  Rights(mm, p) = Flags
<1>1. \A f \in Frames, i \in Entry : Present(mm, f, i) => Flags \subseteq mm.tables[f][i].low
  BY NullType DEF IsMemory, Present, Entry
<1>2. \A k \in Levels : Index(p, k) \in Entry
  BY IndexType DEF Entry
<1>3. /\ Index(p, 1) \in Entry /\ Index(p, 2) \in Entry /\ Index(p, 3) \in Entry
      /\ Index(p, 4) \in Entry
  BY <1>2 DEF Levels
<1>4. Root \in Frames
  BY MemoryAssumption DEF Root, Frames
<1>5. /\ Flags \subseteq mm.tables[Root][Index(p, 4)].low
      /\ Flags \subseteq mm.tables[Pud(mm, p)][Index(p, 3)].low
      /\ Flags \subseteq mm.tables[Pmd(mm, p)][Index(p, 2)].low
      /\ Flags \subseteq mm.tables[Pte(mm, p)][Index(p, 1)].low
  BY <1>1, <1>3, <1>4 DEF Mapped
<1> QED BY <1>5 DEF Rights
=============================================================================
