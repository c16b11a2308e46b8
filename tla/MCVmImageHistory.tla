-------------------------- MODULE MCVmImageHistory --------------------------
(* Instances of VmImageHistory for TLC.                                     *)
EXTENDS VmImageHistory

(* Bounds of the search for a short behaviour: each VMM runs once, and only *)
(* a VM whose registers and memory all have the same value is dumped.       *)
OneRunEach == \A v \in Vmms : status[v] = "none"
UniformDumps == \A v \in Vmms : pc[v] \in {"saving", "dump"} =>
                    \A k \in StateCells : vm[v][k] = vm[v][Regs]
SmallSearch == OneRunEach /\ UniformDumps
=============================================================================
