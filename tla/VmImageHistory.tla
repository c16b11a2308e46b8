--------------------------- MODULE VmImageHistory ---------------------------
(***************************************************************************)
(* VmImage with a history variable: the VM states that were ever stopped   *)
(* to be dumped.  It says where the state of a restored VM may come from   *)
(* when several VMMs use the image file at the same time, where the file   *)
(* itself no longer says it.                                               *)
(***************************************************************************)
EXTENDS VmImage

VARIABLE stopped    \* the states of the VMs that reached dump_vm_state

hvars == <<vars, stopped>>

HInit == /\ Init
         /\ stopped = IF Complete THEN {DiskState} ELSE {}

HNext == /\ Next
         /\ stopped' = stopped \cup
              {vm[v] : v \in {w \in Vmms : pc[w] = "saving" /\ pc'[w] = "dump"}}

HSpec == HInit /\ [][HNext]_hvars /\ Fairness

(* A VM resumes only as one VM that was saved: its registers and its       *)
(* memory belong together (INSTRUCTIONS.md:25 "resuming the VM execution   *)
(* from its saved image").                                                 *)
ResumesSavedVm ==
    [][\A v \in Vmms : pc[v] = "restore" /\ pc'[v] = "run" =>
          vm'[v] \in stopped]_hvars
=============================================================================
