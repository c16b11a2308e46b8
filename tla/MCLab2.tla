------------------------------- MODULE MCLab2 -------------------------------
(* Instances of Lab2 for TLC, with the programs of MCMigration.             *)
EXTENDS MCMigration, Lab2

(* The application with the calls of the start-up code of musl, and every   *)
(* program of up to two calls before its exit.                              *)
Lab2Programs == Lab2App \cup {<<Op("unserved")>> \o p : p \in Lab2App}
                \cup {p \in AllPrograms : Len(p) <= 3}
=============================================================================
