----------------------------- MODULE MCMigration -----------------------------
(* Instances of Migration for TLC: the guest programs.                      *)
EXTENDS Migration

(* A call; a write writes its place in the program.                         *)
Op(c)  == [call |-> c, buf |-> 0]
Wr(i)  == [call |-> "write", buf |-> i]

(* app.c of lab_3, with one of the calls of the start-up code of musl, and  *)
(* its way out.                                                             *)
Lab3App == {<<Op("unserved"), Op("open"), Wr(3), Op("save"), Wr(5),
              Op("close"), Op("unserved"), Op("exit")>>}

(* The application of lab_2, which does not ask to be saved.                *)
Lab2App == {<<Op("open"), Wr(2), Wr(3), Op("close"), Op("unserved"), Op("exit")>>}

(* These and every program of up to four calls before its exit.             *)
Call(i) == {Wr(i)} \cup {Op(c) : c \in {"open", "close", "save", "unserved"}}
AllPrograms == Lab3App \cup Lab2App \cup {<<Op("exit")>>}
          \cup {<<a, Op("exit")>> : a \in Call(1)}
          \cup {<<a, b, Op("exit")>> : a \in Call(1), b \in Call(2)}
          \cup {<<a, b, c, Op("exit")>> : a \in Call(1), b \in Call(2), c \in Call(3)}
          \cup {<<a, b, c, d, Op("exit")>> :
                    a \in Call(1), b \in Call(2), c \in Call(3), d \in Call(4)}
=============================================================================
