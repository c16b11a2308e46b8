----------------------------- MODULE MCBootCode -----------------------------
(* Instances of BootCode for TLC.                                           *)
EXTENDS BootCode

Sec(p, low, n) == [addr |-> At(p, low), span |-> n, alloc |-> TRUE, type |-> 1]

(* The files of the lab; boot code and descriptor tables in pages of their  *)
(* own; a program whose second page no section starts in; a program over    *)
(* the tables, over the boot code, on the stack, and out of memory.         *)
BootFile   == <<Sec(8, {}, 1), Sec(8, {7}, 1)>>
SomeLayouts == {<<BootFile, a>> : a \in {<<Sec(9, {}, 1)>>, <<Sec(9, {}, 2), Sec(10, {3}, 1)>>,
                                         <<Sec(9, {}, 2)>>, <<Sec(3, {}, 1)>>, <<Sec(8, {3}, 1)>>,
                                         <<Sec(13, {}, 1)>>, <<Sec(15, {}, 1)>>}}
               \cup {<< <<Sec(8, {}, 1), Sec(9, {4}, 1)>>, <<Sec(10, {}, 1)>> >>}

(* Programs whose exit is their first call, comes behind one that is not     *)
(* served, behind a save, behind both: after a restore the next call is the  *)
(* last, whatever it is. The stack of the lab, one of no page below the      *)
(* first, and one of a size that never ends.                                 *)
SomePrograms == {<<"exit">>, <<"unserved", "exit">>, <<"save", "exit">>,
                 <<"unserved", "save", "exit">>}
SomeStacks   == {6, 0, 3}
=============================================================================
