------------------------------ MODULE MCVmImage ------------------------------
(* Instances of VmImage for TLC.                                            *)
EXTENDS VmImage
=============================================================================
