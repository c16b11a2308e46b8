------------------------------ MODULE MCLoader ------------------------------
(* Instances of Loader for TLC.                                             *)
EXTENDS Loader

At0(p, low, n, t) == [addr |-> At(p, low), span |-> n, alloc |-> TRUE, type |-> t]
Debug == [addr |-> At(1, {}), span |-> 1, alloc |-> FALSE, type |-> 1]

(* The pages of bin/boot and bin/app_img: text and data at 0x8000; text     *)
(* that runs from 0x9000 into 0xa000, a section that starts in 0xa000, the  *)
(* arrays of constructors, bss, and what is not loaded.                     *)
LabLayout == {<< <<At0(8, {}, 1, 1), At0(8, {4, 7}, 1, 1), Debug>>,
                 <<At0(9, {}, 1, 1), At0(9, {8}, 2, 1), At0(10, {3, 4, 10}, 1, 1),
                   At0(10, {5}, 1, 14), At0(10, {3, 5}, 1, 15), At0(10, {11}, 1, 8), Debug>> >>}

(* One file of one section and one of up to three, anywhere: in a page of   *)
(* the tables, in pages apart or together, in the first page of the stack,  *)
(* at address 0 and behind it; with an offset and without.                  *)
Some  == {At0(p, {3} , n, 1) : p \in {8, 10, 11}, n \in {1, 2}}
         \cup {At0(3, {}, 1, 1), At0(9, {}, 1, 1), At0(9, {}, 2, 1), At0(0, {}, 1, 1),
               At0(0, {3}, 1, 1), Debug}
Boot  == {<<a>> : a \in Some}
App   == {<<>>} \cup {<<a>> : a \in Some} \cup {<<a, b>> : a \in Some, b \in Some}
         \cup {<<a, b, c>> : a \in Some, b \in Some, c \in Some}
AnyLayout == LabLayout \cup {<<b, a>> : b \in Boot, a \in App}

(* The stack of the lab; and none below the first page, stacks that leave   *)
(* half a page, that overlap the files, that reach page 0 and go below it.  *)
LabStack  == {6}
AnyStack  == 0..8 \cup 25..29 \cup {47}

(* Every stack below the layout of the lab, the stack of the lab with every *)
(* layout.                                                                  *)
MCInit == Init /\ (files \in LabLayout \/ stack.size \in LabStack)
MCSpec == MCInit /\ [][Next]_vars
=============================================================================
