------------------------------ MODULE Migration ------------------------------
(***************************************************************************)
(* One virtual machine from boot to save, and from the image to its next   *)
(* end: the VMM processes bin/save and bin/restore of lab_3, the vCPU they *)
(* run with its classes of registers, the boot code, the guest program and *)
(* the system calls that the VMM serves, on the descriptors of the VMM.    *)
(*                                                                         *)
(* One VMM runs at a time, as the Makefile targets start them.  The image  *)
(* is written in two steps, truncation and the rest; VmImage shows what    *)
(* lies between.  The guest program is the sequence of its system calls;   *)
(* it keeps one descriptor in a variable, as app.c does.  A write to a     *)
(* descriptor that is open for writing does not fail.                      *)
(***************************************************************************)
EXTENDS Integers, Sequences, FiniteSetsExt

CONSTANTS Programs,      \* the guest programs considered
          MaxFd,         \* the last descriptor a process can have
          NoImage,       \* no image, or one that restore_vm_state refuses
          KvmSkipsHlt    \* KVM_EXIT_HLT leaves RIP behind the HLT

Calls == {"open", "write", "close", "save", "exit", "unserved"}

(* A program ends in exit: _Exit of musl ends in a loop of exits.          *)
ASSUME ProgramsAssumption ==
    \A p \in Programs : /\ p \in Seq([call : Calls, buf : Nat])
                        /\ Len(p) > 0
                        /\ p[Len(p)].call = "exit"

ASSUME LimitsAssumption == MaxFd \in Nat /\ MaxFd >= 7 /\ KvmSkipsHlt \in BOOLEAN

Fds    == 3..MaxFd
Free   == [kind |-> "free", pos |-> 0]
Opened(k) == [kind |-> k, pos |-> 0]

VARIABLES
    program,  \* the program in bin/app_img: its system calls, in order
    bin,      \* the program the VMM process runs: "save" or "restore"
    stage,    \* where the VMM is: the last step of main, or the vCPU loop
    regs,     \* KVM_GET_REGS: rip, the next call of the program (RCX), rax
    sregs,    \* KVM_GET_SREGS: the mode that CR0, CR4, EFER and CS select
    msrs,     \* STAR and LSTAR
    mem,      \* guest memory: page tables, boot code, program, variable fd
    trap,     \* the exit reason of KVM_RUN that the VMM has to handle
    fds,      \* the descriptor table of the VMM process
    image,    \* vm_state.img
    file,     \* the file the guest program opens: one element a write
    ended     \* how the last VMM process ended

vars == <<program, bin, stage, regs, sregs, msrs, mem, trap, fds, image, file, ended>>

cpu  == <<regs, sregs, msrs>>

(* RIP: at reset, in the boot code, in the program, at the HLT and the     *)
(* SYSRET of syscall_handler in boot.asm, inside that SYSRET, at address 0.*)
Places == {"reset", "boot", "user", "hlt", "sysret", "inside", "zero"}
Modes  == {"real", "protected", "long"}

ResetRegs == [rip |-> "reset", next |-> 1, rax |-> 0]
EmptyMem  == [tables |-> FALSE, boot |-> FALSE, app |-> FALSE, fd |-> -1]

Results  == -1..MaxFd
RegFiles == [rip : Places, next : Nat \ {0}, rax : Results]
Memories == [tables : BOOLEAN, boot : BOOLEAN, app : BOOLEAN, fd : -1..MaxFd]
VmStates == [regs : RegFiles, sregs : Modes, mem : Memories]

Descriptors == [kind : {"free", "kvm", "vm", "vcpu", "elf", "file", "image"}, pos : Nat]
Buffers     == {program[i].buf : i \in DOMAIN program}

TypeOK == /\ regs.next <= Len(program)
          /\ bin \in {"save", "restore"}
          /\ stage \in {"off", "vm", "vcpu", "memory", "stack", "boot", "app",
                        "run", "saving", "dumping"}
          /\ regs \in RegFiles
          /\ sregs \in Modes
          /\ msrs \in {"reset", "set"}
          /\ mem \in Memories
          /\ trap \in {"none", "hlt", "shutdown"}
          /\ fds \in [Fds -> Descriptors]
          /\ image \in VmStates \cup {NoImage}
          /\ file \in Seq(Buffers)
          /\ ended \in {"never", "status 0", "status 1", "shutdown", "killed"}

NoFds == [n \in Fds |-> Free]

Init == /\ program \in Programs
        /\ bin = "save" /\ stage = "off"
        /\ regs = ResetRegs /\ sregs = "real" /\ msrs = "reset" /\ mem = EmptyMem
        /\ trap = "none" /\ fds = NoFds
        /\ image = NoImage /\ file = <<>> /\ ended = "never"

----------------------------------------------------------------------------
(* Descriptors: open takes the lowest free one, or fails (EMFILE).         *)
LowestFree == {n \in Fds : fds[n].kind = "free" /\ \A k \in 3..n - 1 : fds[k].kind # "free"}
NewFd      == IF LowestFree = {} THEN -1 ELSE CHOOSE n \in LowestFree : TRUE
Install(k) == NewFd # -1 /\ fds' = [fds EXCEPT ![NewFd] = Opened(k)]

(* The process ends and everything the kernel kept for it is freed.        *)
End(how) == /\ stage' = "off"
            /\ ended' = how
            /\ regs' = ResetRegs /\ sregs' = "real" /\ msrs' = "reset"
            /\ mem' = EmptyMem /\ trap' = "none" /\ fds' = NoFds

----------------------------------------------------------------------------
(* main of save.c and of restore.c                                         *)

(* create_vm: /dev/kvm, then the VM.                                       *)
CreateVm == /\ stage = "off"
            /\ bin' \in {"save", "restore"}
            /\ stage' = "vm"
            /\ fds' = [fds EXCEPT ![3] = Opened("kvm"), ![4] = Opened("vm")]
            /\ UNCHANGED <<program, cpu, mem, trap, image, file, ended>>

(* create_bootstrap: a vCPU in its reset state.                            *)
CreateBootstrap == /\ stage = "vm"
                   /\ stage' = "vcpu"
                   /\ Install("vcpu")
                   /\ UNCHANGED <<program, bin, cpu, mem, trap, image, file, ended>>

AddMemory == /\ stage = "vcpu"
             /\ stage' = "memory"
             /\ mem' = EmptyMem
             /\ UNCHANGED <<program, bin, cpu, trap, fds, image, file, ended>>

(* create_stack writes the first entries of the page tables.               *)
CreateStack == /\ stage = "memory" /\ bin = "save"
               /\ stage' = "stack"
               /\ mem' = [mem EXCEPT !.tables = TRUE]
               /\ UNCHANGED <<program, bin, cpu, trap, fds, image, file, ended>>

(* load_file keeps the stream of the ELF file open.                        *)
LoadBoot == /\ stage = "stack"
            /\ stage' = "boot"
            /\ mem' = [mem EXCEPT !.boot = TRUE]
            /\ Install("elf")
            /\ UNCHANGED <<program, bin, cpu, trap, image, file, ended>>

LoadApp == /\ stage = "boot"
           /\ stage' = "app"
           /\ mem' = [mem EXCEPT !.app = TRUE]
           /\ Install("elf")
           /\ UNCHANGED <<program, bin, cpu, trap, image, file, ended>>

(* launch_vm: RIP, the entry point (R15) and the stack (R14).              *)
Launch == /\ stage = "app"
          /\ stage' = "run"
          /\ regs' = [regs EXCEPT !.rip = "boot"]
          /\ UNCHANGED <<program, bin, sregs, msrs, mem, trap, fds, image, file, ended>>

(* restore_vm_state, with a free descriptor for its stream: registers,     *)
(* special registers and memory come from the image, the model-specific    *)
(* registers stay as they were created.                                    *)
Restore == /\ stage = "memory" /\ bin = "restore"
           /\ image # NoImage /\ NewFd # -1
           /\ stage' = "run"
           /\ regs' = image.regs /\ sregs' = image.sregs /\ mem' = image.mem
           /\ UNCHANGED <<program, bin, msrs, trap, fds, image, file, ended>>

(* No image, one that is refused, or a call that fails: main returns 1.    *)
RestoreFails == /\ stage = "memory" /\ bin = "restore"
                /\ End("status 1")
                /\ UNCHANGED <<program, bin, image, file>>

(* err or errx in create_vm to launch_vm and on KVM_RUN.                   *)
SetupOrRunFails == /\ stage \in {"vm", "vcpu", "app", "run"} /\ trap = "none"
                   /\ End("status 1")
                   /\ UNCHANGED <<program, bin, image, file>>

----------------------------------------------------------------------------
(* The guest, inside KVM_RUN                                               *)
Running == stage = "run" /\ trap = "none"

(* boot.asm: protected mode, then long mode on the page tables at CR3.     *)
BootProtected == /\ Running /\ regs.rip = "boot" /\ sregs = "real"
                 /\ sregs' = "protected"
                 /\ UNCHANGED <<program, bin, stage, regs, msrs, mem, trap, fds, image, file, ended>>

BootLong == /\ Running /\ regs.rip = "boot" /\ sregs = "protected" /\ mem.tables
            /\ sregs' = "long"
            /\ UNCHANGED <<program, bin, stage, regs, msrs, mem, trap, fds, image, file, ended>>

(* SSE, EFER.SCE, LSTAR, STAR and SYSRET to the program.                   *)
BootUser == /\ Running /\ regs.rip = "boot" /\ sregs = "long"
            /\ msrs' = "set"
            /\ regs' = [regs EXCEPT !.rip = "user"]
            /\ UNCHANGED <<program, bin, stage, sregs, mem, trap, fds, image, file, ended>>

(* The program reaches its next call: SYSCALL goes where LSTAR points.     *)
GuestSyscall == /\ Running /\ regs.rip = "user"
                /\ regs' = [regs EXCEPT !.rip = IF msrs = "set" THEN "hlt" ELSE "zero"]
                /\ UNCHANGED <<program, bin, stage, sregs, msrs, mem, trap, fds, image, file, ended>>

(* The HLT of syscall_handler in boot.asm gives control to the VMM.        *)
GuestHlt == /\ Running /\ regs.rip = "hlt"
            /\ trap' = "hlt"
            /\ regs' = [regs EXCEPT !.rip = IF KvmSkipsHlt THEN "sysret" ELSE "hlt"]
            /\ UNCHANGED <<program, bin, stage, sregs, msrs, mem, fds, image, file, ended>>

(* SYSRET: the program has the result of its call, keeps it when the call  *)
(* was open, and goes on to the next.                                      *)
GuestSysret ==
    /\ Running /\ regs.rip = "sysret"
    /\ mem' = IF program[regs.next].call = "open" THEN [mem EXCEPT !.fd = regs.rax] ELSE mem
    /\ regs' = [regs EXCEPT !.rip = "user",
                            !.next = IF @ = Len(program) THEN @ ELSE @ + 1]
    /\ UNCHANGED <<program, bin, stage, sregs, msrs, trap, fds, image, file, ended>>

(* Nothing is mapped at address 0, and the bytes after the first of SYSRET *)
(* return to 32-bit code: the guest has no handler for the fault.          *)
GuestFault == /\ Running /\ regs.rip \in {"zero", "inside"}
              /\ trap' = "shutdown"
              /\ UNCHANGED <<program, bin, stage, cpu, mem, fds, image, file, ended>>

----------------------------------------------------------------------------
(* vmexit_handler and syscall_handler                                      *)
Serving(call) == /\ stage = "run" /\ trap = "hlt"
                 /\ program[regs.next].call = call

(* rip += 1                                                                *)
Advance(rip) == CASE rip = "hlt" -> "sysret" [] rip = "sysret" -> "inside" [] OTHER -> rip

(* The registers are set for the return of the call.                       *)
Complete(r) == regs' = [regs EXCEPT !.rax = r, !.rip = Advance(@)]

(* return 1: the vCPU runs again.                                          *)
Resume(r) == /\ Complete(r)
             /\ trap' = "none"
             /\ UNCHANGED <<program, bin, stage, sregs, msrs, mem, image, ended>>

(* The file with b written at position p.                                  *)
Put(f, p, b) == [i \in 1..Max({Len(f), p + 1}) |-> IF i = p + 1 THEN b ELSE f[i]]

IsGuestFile(n) == n \in Fds /\ fds[n].kind = "file"

SysWrite == /\ Serving("write")
            /\ IF IsGuestFile(mem.fd)
               THEN /\ file' = Put(file, fds[mem.fd].pos, program[regs.next].buf)
                    /\ fds' = [fds EXCEPT ![mem.fd].pos = @ + 1]
                    /\ Resume(1)
               ELSE Resume(-1) /\ UNCHANGED <<file, fds>>

(* Mutants: the file is truncated, appended to, or opened a second time    *)
(* for the result.                                                         *)
SysOpenTruncates == /\ Serving("open")
                    /\ IF NewFd # -1 THEN Install("file") ELSE UNCHANGED fds
                    /\ Resume(NewFd)
                    /\ file' = <<>>
SysOpenAppends ==
    /\ Serving("open")
    /\ IF NewFd # -1
       THEN fds' = [fds EXCEPT ![NewFd] = [kind |-> "file", pos |-> Len(file)]]
       ELSE UNCHANGED fds
    /\ Resume(NewFd)
    /\ UNCHANGED file
SysOpenReturnsNext == /\ Serving("open")
                      /\ IF NewFd # -1 THEN Install("file") ELSE UNCHANGED fds
                      /\ Resume(IF NewFd = -1 \/ NewFd = MaxFd THEN -1 ELSE NewFd + 1)
                      /\ UNCHANGED file

(* open of the guest's file, O_RDWR | O_CREAT; it may fail (EMFILE, EACCES,*)
(* ENOSPC) and the guest gets -1.                                          *)
SysOpen == /\ Serving("open")
           /\ \/ Install("file") /\ Resume(NewFd)
              \/ UNCHANGED fds /\ Resume(-1)
           /\ UNCHANGED file

(* close of any descriptor of the VMM process.                             *)
SysClose == /\ Serving("close")
            /\ IF mem.fd \in Fds /\ fds[mem.fd].kind # "free"
               THEN fds' = [fds EXCEPT ![mem.fd] = Free] /\ Resume(0)
               ELSE UNCHANGED fds /\ Resume(-1)
            /\ UNCHANGED file

(* arch_prctl, set_tid_address, exit_group and the calls that have no      *)
(* case: rax stays the number of the call.                                 *)
SysUnserved == Serving("unserved") /\ Resume(1) /\ UNCHANGED <<fds, file>>

(* return 0: vmexit_handler goes on to dump_vm_state.                      *)
StopVm == /\ Complete(0)
          /\ trap' = "none"
          /\ stage' = "saving"
          /\ UNCHANGED <<program, bin, sregs, msrs, mem, fds, image, file, ended>>

(* Mutants: the registers are not set before the dump; exit returns 1 like *)
(* the other calls.                                                        *)
SaveKeepsRegs == /\ Serving("save")
                 /\ trap' = "none" /\ stage' = "saving"
                 /\ UNCHANGED <<program, bin, cpu, mem, fds, image, file, ended>>
ExitResumes   == Serving("exit") /\ Resume(0) /\ UNCHANGED <<fds, file>>

SysSave == Serving("save") /\ StopVm
SysExit == Serving("exit") /\ StopVm

(* errx on KVM_EXIT_SHUTDOWN.                                              *)
Shutdown == /\ stage = "run" /\ trap = "shutdown"
            /\ End("shutdown")
            /\ UNCHANGED <<program, bin, image, file>>

(* Mutant: the old image stays until the new one is complete.              *)
DumpOpenKeepsImage == /\ stage = "saving"
                      /\ Install("image")
                      /\ stage' = "dumping"
                      /\ UNCHANGED <<program, bin, cpu, mem, trap, image, file, ended>>

(* fopen in dump_vm_state, which truncates the image.                      *)
DumpOpen == /\ stage = "saving"
            /\ Install("image")
            /\ image' = NoImage
            /\ stage' = "dumping"
            /\ UNCHANGED <<program, bin, cpu, mem, trap, file, ended>>

DumpOpenFails == /\ stage = "saving"
                 /\ End("status 1")
                 /\ UNCHANGED <<program, bin, image, file>>

(* Mutant: the image has a part that restore_vm_state does not know.       *)
SavedVmAndMsrs == [regs |-> regs, sregs |-> sregs, msrs |-> msrs, mem |-> mem]

(* What dump_vm_state writes: not the model-specific registers, and no     *)
(* descriptor.                                                             *)
SavedVm == [regs |-> regs, sregs |-> sregs, mem |-> mem]

(* The dump functions and fclose: the VMM exits with 0 and the image is    *)
(* complete, or not when the last write failed in fclose; or with 1.       *)
Dump == /\ stage = "dumping"
        /\ \/ /\ image' \in {NoImage, SavedVm}
              /\ End("status 0")
           \/ image' = NoImage /\ End("status 1")
        /\ UNCHANGED <<program, bin, file>>

(* A signal, or a segmentation fault in load_file when an ELF file is      *)
(* missing.  The last write of a dump may have been done.                  *)
Killed == /\ stage # "off"
          /\ End("killed")
          /\ image' \in {image} \cup IF stage = "dumping" THEN {SavedVm} ELSE {}
          /\ UNCHANGED <<program, bin, file>>

----------------------------------------------------------------------------
Setup == \/ CreateBootstrap \/ AddMemory \/ CreateStack \/ LoadBoot \/ LoadApp
         \/ Launch \/ Restore \/ RestoreFails \/ SetupOrRunFails
Guest == \/ BootProtected \/ BootLong \/ BootUser \/ GuestSyscall \/ GuestHlt
         \/ GuestSysret \/ GuestFault
Serve == \/ SysWrite \/ SysOpen \/ SysClose \/ SysUnserved \/ SysSave \/ SysExit
         \/ Shutdown \/ DumpOpen \/ DumpOpenFails \/ Dump

Next == CreateVm \/ Setup \/ Guest \/ Serve \/ Killed

(* A process that was started is scheduled, and KVM_RUN runs the guest.    *)
(* Nobody has to start one.                                                *)
Fairness == WF_vars(Setup \/ Guest \/ Serve)

Spec == Init /\ [][Next]_vars /\ Fairness

----------------------------------------------------------------------------
(* Properties                                                              *)

(* Call i writes to the file: it was opened before, and not closed since.  *)
OpensOnce  == Cardinality({i \in DOMAIN program : program[i].call = "open"}) <= 1
IsOpenAt(i) == \E j \in 1..i - 1 : /\ program[j].call = "open"
                                  /\ \A k \in j..i - 1 : program[k].call # "close"
WritesAt(i) == program[i].call = "write" /\ IsOpenAt(i)

(* The calls up to the n-th that write to the file, and how many they are: *)
(* where in the file call n writes, when it is one of them.                *)
WritesBy(n) == {i \in 1..n : WritesAt(i)}
Written(n)  == Cardinality(WritesBy(n))

(* A VM that restore_vm_state accepts was stopped between two instructions *)
(* of its program: behind the HLT of a call that is complete, with its     *)
(* result in RAX, in long mode, with its page tables, boot code and        *)
(* program in memory (SET_REGS before the dump, syscall_handler.c:66-69).  *)
ImageIsResumable == image # NoImage =>
    /\ image.regs.rip = "sysret" /\ image.regs.rax = 0
    /\ program[image.regs.next].call \in {"save", "exit"}
    /\ image.sregs = "long"
    /\ image.mem.tables /\ image.mem.boot /\ image.mem.app

(* The guest's file is at any time the beginning of what one uninterrupted *)
(* run of the program writes, whatever was saved, restored, killed or      *)
(* started again (for programs that open the file once).                   *)
FileIsRunPrefix == OpensOnce =>
    \E n \in 0..Len(program) :
        /\ Len(file) = Written(n)
        /\ \A i \in WritesBy(n) : file[Written(i)] = program[i].buf

(* Image and file agree: the file has every write that the VM in the image *)
(* has made, so that the VM could go on from there.                        *)
FileCoversImage ==
    OpensOnce /\ image # NoImage /\ image.mem.fd # -1
        => Len(file) >= Written(image.regs.next)

(* The program runs, between an open that succeeded and its close.         *)
HoldsFile == regs.rip = "user" /\ mem.fd # -1 /\ IsOpenAt(regs.next)

(* While a guest that was not restored holds its file, its descriptor is   *)
(* the file's in the VMM, and not one the VMM uses itself                  *)
(* (syscall_handler.c:39, 45, 49 use the VMM's own table).                 *)
DeployedGuestKeepsFile ==
    bin = "save" /\ stage = "run" /\ HoldsFile => IsGuestFile(mem.fd)

(* The same for a restored guest (INSTRUCTIONS.md:23 "devices (file        *)
(* descriptors)", :76 "WRITE 8 ... return 12").                            *)
RestoredGuestKeepsFile ==
    bin = "restore" /\ stage = "run" /\ HoldsFile => IsGuestFile(mem.fd)

(* A restored guest goes on with its program: the VMM does not end with a  *)
(* shutdown of the guest (INSTRUCTIONS.md:70-79, the expected output).     *)
GuestNeverShutsDown == ended # "shutdown"

(* The image is written only for a save operation (manager.c:125 "SAVE     *)
(* operation requested").                                                  *)
OnlySaveWritesImage ==
    [][image' # image => program[regs.next].call = "save"]_vars

(* After a call the guest executes the SYSRET behind the HLT               *)
(* (syscall_handler.c:75 "so the guest can execute sysret").               *)
CallsReturnToSysret == regs.rip # "inside"

(* A VMM process that was started ends: the program reaches SAVE or EXIT,  *)
(* and the dump, or the failure, ends the process.                         *)
VmmEnds == stage # "off" ~> stage = "off"

(* Saving and restoring the whole machine implements the abstract cold     *)
(* migration.  The state of the abstract VM is SavedVm, what is dumped:    *)
(* neither the model-specific registers nor the descriptors are part of it.*)
Mode == IF stage \in {"saving", "dumping"} THEN "saving"
        ELSE IF stage = "run" THEN "live" ELSE "none"

AbsMode == [v \in {"vmm"} |-> Mode]
AbsVm   == [v \in {"vmm"} |-> IF Mode = "none" THEN NoImage ELSE SavedVm]

CM == INSTANCE ColdMigration
        WITH Vmms <- {"vmm"}, States <- VmStates, None <- NoImage,
             mode <- AbsMode, vm <- AbsVm, saved <- image

ImplementsColdMigration == CM!Spec
=============================================================================
