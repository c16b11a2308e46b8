------------------------------ MODULE Lab2Proofs ------------------------------
(***************************************************************************)
(* Theorems about Lab2, for every set of guest programs, every limit on    *)
(* descriptors and both behaviours of KVM on HLT: no call of the guest is  *)
(* served, and the guest never leaves the call where it loops.             *)
(***************************************************************************)
EXTENDS Lab2, TLAPS

VmmKinds == {"free", "kvm", "vm", "vcpu", "elf"}

(* Types, with no stage of a dump, no descriptor but the VMM's own and no  *)
(* exit but HLT.                                                           *)
L2Type == /\ program \in Programs
          /\ regs \in [rip : Places, next : DOMAIN program, rax : 0..3]
          /\ mem \in [tables : BOOLEAN, boot : BOOLEAN, app : BOOLEAN, fd : {-1, 2}]
          /\ fds \in [Fds -> [kind : VmmKinds, pos : Nat]]
          /\ trap \in {"none", "hlt"}

Nothing == file = <<>> /\ image = NoImage /\ ended # "status 0"
           /\ stage \in {"off", "vm", "vcpu", "memory", "stack", "boot", "app", "run"}

(* A guest about to return has the number of its call in RAX: the handler  *)
(* has run and left it there.                                              *)
RaxIsNumber == trap = "none" /\ regs.rip = "sysret" =>
                   regs.rax = Number(program[regs.next].call)

L2Inv == L2Type /\ Nothing /\ RaxIsNumber

LEMMA Lab2Program == ASSUME NEW p \in Programs
                     PROVE  /\ 1 \in DOMAIN p
                            /\ \A i \in DOMAIN p : i # Len(p) => i + 1 \in DOMAIN p
BY ProgramsAssumption

LEMMA NumberType == \A call : Number(call) \in 0..3 /\ (call = "open" => Number(call) = 2)
BY DEF Number

(* The state of a process that has ended, or that has not started.         *)
LEMMA ResetType ==
    /\ program \in Programs => ResetRegs \in [rip : Places, next : DOMAIN program, rax : 0..3]
    /\ ResetRegs.rip = "reset"
    /\ EmptyMem \in [tables : BOOLEAN, boot : BOOLEAN, app : BOOLEAN, fd : {-1, 2}]
    /\ NoFds \in [Fds -> [kind : VmmKinds, pos : Nat]]
<1>1. program \in Programs => 1 \in DOMAIN program
  BY Lab2Program
<1> QED BY <1>1 DEF ResetRegs, Places, EmptyMem, NoFds, Free, VmmKinds

LEMMA VmmFd == ASSUME L2Type, NEW n, NEW k \in VmmKinds
               PROVE  [fds EXCEPT ![n] = Opened(k)] \in [Fds -> [kind : VmmKinds, pos : Nat]]
BY DEF L2Type, Opened

LEMMA L2Init == Init => L2Inv
BY ResetType DEF Init, L2Inv, L2Type, Nothing, RaxIsNumber

LEMMA L2End == ASSUME L2Inv, NEW how \in {"status 1", "killed"}, End(how),
                      UNCHANGED <<program, bin, file>>, image' = image
               PROVE  L2Inv'
<1>1. L2Type'
  BY ResetType DEF L2Inv, L2Type, End
<1>2. Nothing' /\ RaxIsNumber'
  BY ResetType DEF L2Inv, Nothing, RaxIsNumber, End
<1> QED BY <1>1, <1>2 DEF L2Inv

LEMMA L2Next == L2Inv /\ [Lab2Next]_vars => L2Inv'
<1> SUFFICES ASSUME L2Inv, [Lab2Next]_vars PROVE L2Inv'
  OBVIOUS
<1> USE DEF L2Inv
<1>1. CASE Lab2CreateVm
  <2>1. fds' \in [Fds -> [kind : VmmKinds, pos : Nat]]
    BY <1>1 DEF Lab2CreateVm, CreateVm, L2Type, VmmKinds, Opened
  <2> QED BY <1>1, <2>1 DEF Lab2CreateVm, CreateVm, L2Type, Nothing, RaxIsNumber, cpu
<1>2. CASE Lab2CreateBootstrap
  <2>1. fds' \in [Fds -> [kind : VmmKinds, pos : Nat]]
    BY <1>2, VmmFd DEF Lab2CreateBootstrap, CreateBootstrap, Install, VmmKinds
  <2> QED BY <1>2, <2>1
          DEF Lab2CreateBootstrap, CreateBootstrap, L2Type, Nothing, RaxIsNumber, cpu
<1>3. CASE Lab2AddMemory
  BY <1>3, ResetType DEF Lab2AddMemory, AddMemory, L2Type, Nothing, RaxIsNumber, cpu
<1>4. CASE Lab2CreateStack
  BY <1>4 DEF Lab2CreateStack, CreateStack, L2Type, Nothing, RaxIsNumber, cpu
<1>5. CASE Lab2LoadBoot
  <2>1. fds' \in [Fds -> [kind : VmmKinds, pos : Nat]]
    BY <1>5, VmmFd DEF Lab2LoadBoot, LoadBoot, Install, VmmKinds
  <2> QED BY <1>5, <2>1 DEF Lab2LoadBoot, LoadBoot, L2Type, Nothing, RaxIsNumber, cpu
<1>6. CASE Lab2LoadApp
  <2>1. fds' \in [Fds -> [kind : VmmKinds, pos : Nat]]
    BY <1>6, VmmFd DEF Lab2LoadApp, LoadApp, Install, VmmKinds
  <2> QED BY <1>6, <2>1 DEF Lab2LoadApp, LoadApp, L2Type, Nothing, RaxIsNumber, cpu
<1>7. CASE Lab2Launch
  BY <1>7 DEF Lab2Launch, Launch, L2Type, Nothing, RaxIsNumber, Places
<1>8. CASE Lab2SetupOrRunFails
  BY <1>8, L2End DEF Lab2SetupOrRunFails, SetupOrRunFails
<1>9. CASE Lab2BootProtected \/ Lab2BootLong
  BY <1>9 DEF Lab2BootProtected, BootProtected, Lab2BootLong, BootLong, L2Type, Nothing,
              RaxIsNumber
<1>10. CASE Lab2BootUser
  BY <1>10 DEF Lab2BootUser, BootUser, L2Type, Nothing, RaxIsNumber, Places
<1>11. CASE GuestSyscall
  BY <1>11 DEF GuestSyscall, L2Type, Nothing, RaxIsNumber, Places
<1>12. CASE Lab2GuestHlt
  BY <1>12 DEF Lab2GuestHlt, GuestHlt, L2Type, Nothing, RaxIsNumber, Places
<1>13. CASE Lab2GuestSysret
  <2>1. program[regs.next].call = "open" => regs.rax = 2
    BY <1>13, NumberType DEF Lab2GuestSysret, GuestSysret, Running, RaxIsNumber
  <2>2. mem' \in [tables : BOOLEAN, boot : BOOLEAN, app : BOOLEAN, fd : {-1, 2}]
    BY <1>13, <2>1 DEF Lab2GuestSysret, GuestSysret, L2Type
  <2>3. regs'.rip = "user" /\ regs' \in [rip : Places, next : DOMAIN program, rax : 0..3]
    BY <1>13, Lab2Program DEF Lab2GuestSysret, GuestSysret, L2Type, Places
  <2> QED BY <1>13, <2>2, <2>3
          DEF Lab2GuestSysret, GuestSysret, L2Type, Nothing, RaxIsNumber
<1>14. CASE ServeNothing
  <2>1. /\ regs' \in [rip : Places, next : DOMAIN program, rax : 0..3]
        /\ regs'.next = regs.next /\ regs'.rax = Number(program[regs.next].call)
    BY <1>14, NumberType DEF ServeNothing, L2Type
  <2> QED BY <1>14, <2>1 DEF ServeNothing, L2Type, Nothing, RaxIsNumber
<1>15. CASE Lab2Killed
  <2>1. image' = image
    BY <1>15 DEF Lab2Killed, Killed, Nothing
  <2> QED BY <1>15, <2>1, L2End DEF Lab2Killed, Killed
<1>16. CASE UNCHANGED vars
  BY <1>16 DEF vars, L2Type, Nothing, RaxIsNumber
<1> QED BY <1>1, <1>2, <1>3, <1>4, <1>5, <1>6, <1>7, <1>8, <1>9, <1>10, <1>11, <1>12,
           <1>13, <1>14, <1>15, <1>16 DEF Lab2Next, Lab2Main, Lab2Guest

(* No call of a guest of lab_2 has an effect outside it, nor does the      *)
(* guest get a descriptor of the VMM (syscall_handler.c:4-7 of lab_2).     *)
THEOREM NothingServedTheorem == Lab2Spec => []NothingServed
<1>1. L2Inv => NothingServed
  BY DEF L2Inv, L2Type, Nothing, NothingServed, VmmKinds
<1> QED BY L2Init, L2Next, <1>1, PTL DEF Lab2Spec

(* Only a HLT that KVM has skipped leads to the SYSRET.                    *)
SkippedHlt == regs.rip = "sysret" => KvmSkipsHlt

LEMMA SkippedNext == L2Inv /\ SkippedHlt /\ [Lab2Next]_vars => SkippedHlt'
<1> SUFFICES ASSUME L2Inv, SkippedHlt, [Lab2Next]_vars PROVE SkippedHlt'
  OBVIOUS
<1> USE DEF L2Inv, L2Type, SkippedHlt
<1>1. CASE Lab2CreateVm \/ Lab2CreateBootstrap \/ Lab2AddMemory \/ Lab2CreateStack
  BY <1>1 DEF Lab2CreateVm, CreateVm, Lab2CreateBootstrap, CreateBootstrap, Lab2AddMemory,
              AddMemory, Lab2CreateStack, CreateStack, cpu
<1>2. CASE Lab2LoadBoot \/ Lab2LoadApp \/ Lab2Launch
  BY <1>2 DEF Lab2LoadBoot, LoadBoot, Lab2LoadApp, LoadApp, Lab2Launch, Launch, cpu
<1>3. CASE Lab2SetupOrRunFails \/ Lab2Killed
  BY <1>3, ResetType DEF Lab2SetupOrRunFails, SetupOrRunFails, Lab2Killed, Killed, End
<1>4. CASE Lab2BootProtected \/ Lab2BootLong \/ Lab2BootUser
  BY <1>4 DEF Lab2BootProtected, BootProtected, Lab2BootLong, BootLong, Lab2BootUser, BootUser
<1>5. CASE GuestSyscall \/ Lab2GuestSysret
  BY <1>5 DEF GuestSyscall, Lab2GuestSysret, GuestSysret
<1>6. CASE Lab2GuestHlt
  <2>1. regs'.rip = IF KvmSkipsHlt THEN "sysret" ELSE "hlt"
    BY <1>6 DEF Lab2GuestHlt, GuestHlt
  <2> QED BY <2>1
<1>7. CASE ServeNothing
  <2>1. regs'.rip = regs.rip
    BY <1>7 DEF ServeNothing
  <2> QED BY <2>1
<1>8. CASE UNCHANGED vars
  BY <1>8 DEF vars
<1> QED BY <1>1, <1>2, <1>3, <1>4, <1>5, <1>6, <1>7, <1>8 DEF Lab2Next, Lab2Main, Lab2Guest

(* A step of a guest that has come to the loop leaves it there.            *)
LEMMA LoopStep ==
    ASSUME L2Inv, SkippedHlt, [Lab2Next]_vars, stage = "run", regs.next = LoopCall
    PROVE  \/ stage' = "run" /\ regs'.next = LoopCall
           \/ stage' = "off" /\ ended' \in {"status 1", "killed"}
<1> USE DEF L2Inv, L2Type
<1>1. CASE Lab2CreateVm \/ Lab2CreateBootstrap \/ Lab2AddMemory \/ Lab2CreateStack
  BY <1>1 DEF Lab2CreateVm, CreateVm, Lab2CreateBootstrap, CreateBootstrap, Lab2AddMemory,
              AddMemory, Lab2CreateStack, CreateStack
<1>2. CASE Lab2LoadBoot \/ Lab2LoadApp \/ Lab2Launch
  BY <1>2 DEF Lab2LoadBoot, LoadBoot, Lab2LoadApp, LoadApp, Lab2Launch, Launch
<1>3. CASE Lab2SetupOrRunFails \/ Lab2Killed
  BY <1>3 DEF Lab2SetupOrRunFails, SetupOrRunFails, Lab2Killed, Killed, End
<1>4. CASE Lab2BootProtected \/ Lab2BootLong \/ Lab2BootUser
  BY <1>4 DEF Lab2BootProtected, BootProtected, Lab2BootLong, BootLong, Lab2BootUser, BootUser,
              LoopCall
<1>5. CASE GuestSyscall \/ Lab2GuestHlt \/ ServeNothing
  BY <1>5 DEF GuestSyscall, Lab2GuestHlt, GuestHlt, ServeNothing, LoopCall
<1>6. CASE Lab2GuestSysret
  <2>1. KvmSkipsHlt /\ LoopCall = Len(program)
    BY <1>6 DEF Lab2GuestSysret, GuestSysret, SkippedHlt, LoopCall
  <2>2. stage' = "run" /\ regs'.next = regs.next
    BY <1>6, <2>1 DEF Lab2GuestSysret, GuestSysret
  <2> QED BY <2>1, <2>2
<1>7. CASE UNCHANGED vars
  BY <1>7 DEF vars, LoopCall
<1> QED BY <1>1, <1>2, <1>3, <1>4, <1>5, <1>6, <1>7 DEF Lab2Next, Lab2Main, Lab2Guest

(* Once at its loop call, the guest is there until the VMM is ended from   *)
(* outside, whether or not KVM skips the HLT (manager.c:119-121 of lab_2). *)
THEOREM LoopTheorem == Lab2Spec => StaysInLoop
<1>1. Init => SkippedHlt
  BY ResetType DEF Init, SkippedHlt
<1>2. L2Inv /\ SkippedHlt /\ [Lab2Next]_vars
        => [stage = "run" /\ regs.next = LoopCall =>
               \/ stage' = "run" /\ regs'.next = LoopCall
               \/ stage' = "off" /\ ended' \in {"status 1", "killed"}]_vars
  BY LoopStep
<1> QED BY L2Init, L2Next, SkippedNext, <1>1, <1>2, PTL DEF Lab2Spec, StaysInLoop
=============================================================================
