--------------------------- MODULE ColdMigration ---------------------------
(***************************************************************************)
(* What the save/restore pair of lab_3 promises about the state of a       *)
(* virtual machine, with the image file reduced to one variable.  A VM is  *)
(* stopped before its state is written out; the state an image holds, when *)
(* it holds one, is the whole state of the VM that was stopped; a VM       *)
(* resumes from nothing else.  Nothing is promised when a save fails: the  *)
(* VM is gone, and so is the image that the save set out to replace.       *)
(***************************************************************************)

CONSTANTS Vmms,      \* the VMM processes
          States,    \* the states of a VM: registers and guest memory
          None       \* no VM, or no usable image: not in States

VARIABLES mode,      \* mode[v]: "none", "live" (the vCPU runs) or "saving"
          vm,        \* vm[v]: the state of the VM of v, None when it has none
          saved      \* the state the image file holds, None when it holds none

vars == <<mode, vm, saved>>

TypeOK == /\ mode \in [Vmms -> {"none", "live", "saving"}]
          /\ vm \in [Vmms -> States \cup {None}]
          /\ saved \in States \cup {None}

Init == /\ mode = [v \in Vmms |-> "none"]
        /\ vm = [v \in Vmms |-> None]
        /\ saved \in States \cup {None}

(* The VM of v changes to some state.                                      *)
Change(v) == /\ vm'[v] \in States
             /\ vm' = [vm EXCEPT ![v] = vm'[v]]

(* A new VM starts from whatever its boot code and program are.            *)
Deploy(v) == /\ mode[v] = "none"
             /\ mode' = [mode EXCEPT ![v] = "live"]
             /\ Change(v)
             /\ UNCHANGED saved

(* Only a live VM changes state.                                           *)
Run(v) == /\ mode[v] = "live"
          /\ Change(v)
          /\ UNCHANGED <<mode, saved>>

(* The VM asks to be saved and is stopped; completing the request may      *)
(* still change its registers.                                             *)
StopToSave(v) == /\ mode[v] = "live"
                 /\ mode' = [mode EXCEPT ![v] = "saving"]
                 /\ Change(v)
                 /\ UNCHANGED saved

(* The previous image is given up before the new one exists.               *)
Discard(v) == /\ mode[v] = "saving"
              /\ saved' = None
              /\ UNCHANGED <<mode, vm>>

Commit(v) == /\ mode[v] = "saving"
             /\ saved = None
             /\ saved' = vm[v]
             /\ UNCHANGED <<mode, vm>>

(* The process ends, with the image complete or not.  Its last write may   *)
(* be the one that completes the image.                                    *)
End(v) == /\ mode[v] # "none"
          /\ mode' = [mode EXCEPT ![v] = "none"]
          /\ vm' = [vm EXCEPT ![v] = None]
          /\ \/ UNCHANGED saved
             \/ mode[v] = "saving" /\ saved = None /\ saved' = vm[v]

Resume(v) == /\ mode[v] = "none"
             /\ saved # None
             /\ mode' = [mode EXCEPT ![v] = "live"]
             /\ vm' = [vm EXCEPT ![v] = saved]
             /\ UNCHANGED saved

Next == \E v \in Vmms : \/ Deploy(v) \/ Run(v) \/ StopToSave(v)
                        \/ Discard(v) \/ Commit(v) \/ End(v) \/ Resume(v)

Spec == Init /\ [][Next]_vars
=============================================================================
