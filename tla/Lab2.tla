-------------------------------- MODULE Lab2 --------------------------------
(***************************************************************************)
(* The program of lab_2: the set-up, the boot code and the vCPU loop are   *)
(* those of Migration, whose actions are taken over, but syscall_handler   *)
(* is a stub that returns 1 and leaves the vCPU as it is.  There is no     *)
(* image and no restore.                                                   *)
(***************************************************************************)
EXTENDS Migration

(* main                                                                    *)
Lab2CreateVm        == CreateVm /\ bin' = "save"
Lab2CreateBootstrap == CreateBootstrap
Lab2AddMemory       == AddMemory
Lab2CreateStack     == CreateStack
Lab2LoadBoot        == LoadBoot
Lab2LoadApp         == LoadApp
Lab2Launch          == Launch
Lab2SetupOrRunFails == SetupOrRunFails

(* boot.asm: a file of its own, the same as that of lab_3.                 *)
Lab2BootProtected == BootProtected
Lab2BootLong      == BootLong
Lab2BootUser      == BootUser
Lab2GuestHlt      == GuestHlt
Lab2GuestSysret   == GuestSysret

(* The number of a call, in RAX when the guest makes it; only those that a *)
(* guest may take for the result of its open are told apart.               *)
Number(call) == CASE call = "write" -> 1 [] call = "open" -> 2 [] call = "close" -> 3
                  [] OTHER -> 0

(* Mutants: the stub returns 0; it returns 0 for exit; it serves open.     *)
StubReturns0 == /\ stage = "run" /\ trap = "hlt"
                /\ End("status 0")
                /\ UNCHANGED <<program, bin, image, file>>
StubExits    == \/ program[regs.next].call = "exit" /\ StubReturns0
                \/ SysUnserved
StubOpens    == SysOpen \/ SysClose \/ SysUnserved

(* vmexit_handler prints and returns the 1 of the stub: the vCPU runs on,  *)
(* with its registers as they are.                                         *)
ServeNothing == /\ stage = "run" /\ trap = "hlt"
                /\ trap' = "none"
                /\ regs' = [regs EXCEPT !.rax = Number(program[regs.next].call)]
                /\ UNCHANGED <<program, bin, stage, sregs, msrs, mem, fds, image, file, ended>>

Lab2Killed == Killed

Lab2Main  == \/ Lab2CreateBootstrap \/ Lab2AddMemory \/ Lab2CreateStack \/ Lab2LoadBoot
             \/ Lab2LoadApp \/ Lab2Launch \/ Lab2SetupOrRunFails
Lab2Guest == \/ Lab2BootProtected \/ Lab2BootLong \/ Lab2BootUser
             \/ GuestSyscall \/ Lab2GuestHlt \/ Lab2GuestSysret

(* No exit but HLT: LSTAR is never lost here, so the guest does not fault. *)
Lab2Next == Lab2CreateVm \/ Lab2Main \/ Lab2Guest \/ ServeNothing \/ Lab2Killed
Lab2Spec == Init /\ [][Lab2Next]_vars /\ WF_vars(Lab2Main \/ Lab2Guest \/ ServeNothing)

----------------------------------------------------------------------------
(* Properties                                                              *)

(* The call at which the guest stays: when KVM leaves RIP at the HLT the   *)
(* first, because the handler does not advance RIP; when KVM has skipped   *)
(* it the last, because exit returns and musl calls it again.              *)
LoopCall == IF KvmSkipsHlt THEN Len(program) ELSE 1

(* Once there, the guest and the VMM stay at that call until the VMM is    *)
(* ended from outside (ANSWERS.md:13 "stucked in an infinite loop").       *)
StaysInLoop == [][stage = "run" /\ regs.next = LoopCall =>
                     \/ stage' = "run" /\ regs'.next = LoopCall
                     \/ stage' = "off" /\ ended' \in {"status 1", "killed"}]_vars

(* A VMM that runs comes to the loop, and its HLT exits never end: main    *)
(* does not return (manager.c:102-112, 119-121).                           *)
HltsForEver == stage # "off" ~>
    \/ stage = "off" /\ ended \in {"status 1", "killed"}
    \/ trap = "hlt" /\ regs.next = LoopCall

(* No call of the guest has an effect outside it, and the guest never gets *)
(* a descriptor of the VMM from one: it takes the number of open, 2, for   *)
(* its descriptor (syscall_handler.c:4-7).                                 *)
NothingServed == /\ file = <<>> /\ image = NoImage
                 /\ \A n \in Fds : fds[n].kind \in {"free", "kvm", "vm", "vcpu", "elf"}
                 /\ mem.fd \in {-1, 2}
                 /\ ended # "status 0"
=============================================================================
