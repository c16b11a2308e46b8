------------------------------ MODULE BootCode ------------------------------
(***************************************************************************)
(* The vCPU from its launch to the calls of the program: boot.asm one      *)
(* group of instructions after the other, on the page tables and sections  *)
(* that Loader has put into guest memory, then SYSCALL, HLT and SYSRET.    *)
(* What the architecture demands of an instruction is a condition of its   *)
(* action; boot.asm sets up no IDT, so an instruction that faults shuts    *)
(* the vCPU down.                                                          *)
(***************************************************************************)
EXTENDS GuestMemory, Sequences, FiniteSetsExt

CONSTANTS Layouts, StackTop, StackSizes, AddrPages,   \* as in Loader
          Programs,  \* system calls of the program: "unserved", "save", "exit"
          KvmSkipsHlt   \* as in Migration: KVM_EXIT_HLT leaves RIP behind the HLT

ASSUME ProgramsAssumption ==
    \A p \in Programs : p \in Seq({"unserved", "save", "exit"}) /\ Len(p) > 0
                        /\ p[Len(p)] = "exit"

ASSUME KvmAssumption == KvmSkipsHlt \in BOOLEAN

VARIABLES files, m, data, known, newPage, at, stack,  \* as in Loader
          program,   \* the program in bin/app_img
          vcpu       \* the registers, and the exit the VMM has to handle

L == INSTANCE Loader

(* The first section of each file is the one with its entry point; that of *)
(* the boot code is loaded.                                                *)
ASSUME EntriesAssumption ==
    \A f \in Layouts : Len(f) = 2 /\ f[1] # <<>> /\ f[2] # <<>> /\ L!Loaded(f[1][1])

(* What Loader takes for granted.                                          *)
ASSUME LoadAssumption == /\ Layouts \subseteq Seq(Seq(L!Sections))
                         /\ StackTop \in Nat /\ NbFrames > StackTop
                         /\ AddrPages \in Nat /\ Reach(AddrPages - 1) >= NbPage
                         /\ AddrPages > NbPage /\ StackSizes \subseteq 0..2 * AddrPages - 1

loaded == <<files, m, data, known, newPage, at, stack>>
vars   == <<loaded, program, vcpu>>

(* CS: the selector, and what the processor has of its descriptor.         *)
Code(sel, bits, ring) == [sel |-> sel, bits |-> bits, ring |-> ring]
NoMsrs                == [sysret |-> 0, syscall |-> 0]

(* A vCPU as create_bootstrap leaves it: real mode, CS at 0.               *)
ResetCpu == [pc |-> "reset", cs |-> Code(0, 16, 0), gdt |-> "none", cr0 |-> {}, cr3 |-> 0,
             cr4 |-> {}, efer |-> {}, star |-> NoMsrs, lstar |-> "zero", sp |-> 0,
             rax |-> 0, next |-> 1, exit |-> "none", bin |-> "save"]

BootPlaces == {"_start", "protect", "jump32", "main32", "long", "cr3", "paging", "gdt64",
               "jump64", "main64", "sse", "sce", "lstar", "star", "vmcall", "enter"}
Places     == {"reset", "user", "syscall_handler", "sysret", "inside", "zero"} \cup BootPlaces

Segments   == [sel : 0..255, bits : {16, 32, 64}, ring : {0, 3}]
Vcpus      == [pc : Places, cs : Segments, gdt : {"none", "gdt32", "gdt64"},
               cr0 : SUBSET {"PE", "PG"}, cr3 : {0, Root}, cr4 : SUBSET {"PAE", "SSE"},
               efer : SUBSET {"LME", "NXE", "SCE"},
               star : [sysret : {0, 24}, syscall : {0, 8}],
               lstar : {"zero", "syscall_handler"}, sp : {0, StackTop}, rax : {0, 1},
               next : Nat \ {0}, exit : {"none", "hlt", "stopped", "shutdown"},
               bin : {"save", "restore"}]

TypeOK == vcpu \in Vcpus /\ vcpu.next <= Len(program)

Init == L!Init /\ program \in Programs /\ vcpu = ResetCpu

----------------------------------------------------------------------------
(* Memory as the vCPU sees it                                              *)

LoadedIn(i) == {s \in DOMAIN files[i] : L!Loaded(files[i][s])}
PagesIn(i)  == UNION {L!PagesOf(<<i, s>>) : s \in LoadedIn(i)}
BootPage    == files[1][1].addr.page
GdtPage     == files[1][Max(LoadedIn(1))].addr.page

Paging        == "PG" \in vcpu.cr0
Reaches(p, r) == Paging => vcpu.cr3 = Root /\ Mapped(m, p) /\ r \subseteq Rights(m, p)
Translated(p) == IF Paging THEN gva_to_gpa(m, At(p, {})).page ELSE p

(* Page p can be read in ring r, and has something of file i in it.        *)
Reads(p, r, i) == /\ Reaches(p, IF r = 3 THEN {0, 2} ELSE {0})
                  /\ \E d \in data[Translated(p)] : d.section[1] = i

(* The page of the next instruction is there: the boot code's own, all     *)
(* pages of the program, or nothing at address 0.                          *)
Fetches == CASE vcpu.pc = "user" -> \A p \in PagesIn(2) : Reads(p, 3, 2)
             [] vcpu.pc = "zero" -> FALSE
             [] OTHER            -> Reads(BootPage, vcpu.cs.ring, 1)

(* The descriptor in gdt32 or gdt64 for a selector of a far jump.          *)
Segment(gdt, sel) == CASE gdt = "gdt32" /\ sel = 8  -> Code(8, 32, 0)
                       [] gdt = "gdt64" /\ sel = 8  -> Code(8, 64, 0)
                       [] gdt = "gdt64" /\ sel = 24 -> Code(24, 64, 3)
                       [] OTHER                     -> Code(0, 16, 0)

----------------------------------------------------------------------------
(* launch_vm: RIP, the entry point of the program (R15), the stack (R14).  *)
Launch == /\ L!Done /\ ~m.broken /\ vcpu.pc = "reset"
          /\ vcpu' = [vcpu EXCEPT !.pc = "_start"]
          /\ UNCHANGED <<loaded, program>>

(* The instructions at one place turn the vCPU into new and go on to       *)
(* another place, or fault.                                                *)
Exec(from, to, allowed, new) ==
    /\ vcpu.exit = "none" /\ vcpu.pc = from
    /\ vcpu' = IF Fetches /\ allowed THEN [new EXCEPT !.pc = to]
               ELSE [vcpu EXCEPT !.exit = "shutdown"]
    /\ UNCHANGED <<loaded, program>>

(* LGDT reads its operand behind the table, in the same section.           *)
LoadGdt(from, to, gdt) == Exec(from, to, Reads(GdtPage, 0, 1), [vcpu EXCEPT !.gdt = gdt])

LoadGdt32 == LoadGdt("_start", "protect", "gdt32")
ProtectOn == Exec("protect", "jump32", TRUE, [vcpu EXCEPT !.cr0 = @ \cup {"PE"}])

(* The far jump reads the descriptor table.                                *)
FarJump(from, to, bits) ==
    Exec(from, to,
         /\ Reads(GdtPage, 0, 1)
         /\ "PE" \in vcpu.cr0
         /\ Segment(vcpu.gdt, 8).bits = bits
         /\ bits = 64 => "LME" \in vcpu.efer /\ Paging,
         [vcpu EXCEPT !.cs = Segment(vcpu.gdt, 8)])

Jump32    == FarJump("jump32", "main32", 32)

(* Mutant: PAE is left off.                                                *)
PaeLeftOff == Exec("main32", "long", TRUE, vcpu)

PaeOn     == Exec("main32", "long", TRUE, [vcpu EXCEPT !.cr4 = @ \cup {"PAE"}])
LongOn    == Exec("long", "cr3", TRUE, [vcpu EXCEPT !.efer = @ \cup {"LME", "NXE"}])
SetCr3    == Exec("cr3", "paging", TRUE, [vcpu EXCEPT !.cr3 = Root])

(* Paging needs protected mode, and with EFER.LME it needs CR4.PAE.        *)
PagingOn  == Exec("paging", "gdt64",
                  "PE" \in vcpu.cr0 /\ ("LME" \in vcpu.efer => "PAE" \in vcpu.cr4),
                  [vcpu EXCEPT !.cr0 = @ \cup {"PG"}])

LoadGdt64 == LoadGdt("gdt64", "jump64", "gdt64")
Jump64    == FarJump("jump64", "main64", 64)

SetStack  == Exec("main64", "sse", vcpu.cs.bits = 64, [vcpu EXCEPT !.sp = StackTop])
SseOn     == Exec("sse", "sce", TRUE, [vcpu EXCEPT !.cr4 = @ \cup {"SSE"}])
SceOn     == Exec("sce", "lstar", TRUE, [vcpu EXCEPT !.efer = @ \cup {"SCE"}])

SetLstar  == Exec("lstar", "star", TRUE, [vcpu EXCEPT !.lstar = "syscall_handler"])

(* Mutant: EDX is 0x00000008.                                              *)
StarOfKernel == Exec("star", "vmcall", TRUE,
                     [vcpu EXCEPT !.star = [sysret |-> 0, syscall |-> 8]])

(* EDX is 0x00180008: the selectors of SYSRET and of SYSCALL.              *)
SetStar   == Exec("star", "vmcall", TRUE,
                  [vcpu EXCEPT !.star = [sysret |-> 24, syscall |-> 8]])

(* RCX and R11 for SYSRET; KVM answers the vmcall itself.                  *)
Vmcall    == Exec("vmcall", "enter", TRUE, vcpu)

(* SYSRET to 64-bit code: its selector is 16 behind that of STAR, ring 3;  *)
(* the descriptor itself is not read.                                      *)
Returns    == "SCE" \in vcpu.efer /\ vcpu.cs.bits = 64 /\ vcpu.cs.ring = 0
UserCs     == Code(vcpu.star.sysret + 16 + 3, 64, 3)

(* Mutant: the program is entered with a jump.                             *)
BootJump   == Exec("enter", "user", TRUE, vcpu)

BootSysret == Exec("enter", "user", Returns, [vcpu EXCEPT !.cs = UserCs])

(* The program runs, on its stack, up to its next call: SYSCALL goes where *)
(* LSTAR points, in ring 0.                                                *)
Syscall == Exec("user", vcpu.lstar,
                "SCE" \in vcpu.efer /\ vcpu.sp # 0 /\ Reaches(vcpu.sp - 1, Flags),
                [vcpu EXCEPT !.cs = Code(vcpu.star.syscall, 64, 0)])

Hlt     == Exec("syscall_handler", IF KvmSkipsHlt THEN "sysret" ELSE "syscall_handler",
                vcpu.cs.ring = 0, [vcpu EXCEPT !.exit = "hlt"])

(* Mutant: the program goes on behind its last call.                       *)
SysretOn == Exec("sysret", "user", Returns, [vcpu EXCEPT !.cs = UserCs, !.next = @ + 1])

(* _Exit of musl calls exit again when it returns.                         *)
Sysret  == Exec("sysret", "user", Returns,
                [vcpu EXCEPT !.cs = UserCs,
                             !.next = IF @ = Len(program) THEN @ ELSE @ + 1])

(* Where the vCPU cannot go on: at address 0, where nothing is mapped, and *)
(* behind the first byte of SYSRET, from where the rest of it returns to   *)
(* 32-bit code, which the program is not.                                  *)
Lost    == \E pc \in {"zero", "inside"} : Exec(pc, pc, FALSE, vcpu)

(* Mutant: RIP stays where KVM left it.                                    *)
HandledAtHlt(r, exit) == /\ vcpu' = [vcpu EXCEPT !.rax = r, !.exit = exit]
                         /\ UNCHANGED <<loaded, program>>

(* rip += 1, from wherever KVM left it.                                    *)
Advance(pc) == IF pc = "syscall_handler" THEN "sysret" ELSE "inside"

(* The VMM handles the HLT: RIP goes on, the result is in RAX; after save  *)
(* and exit the vCPU stays stopped, and is dumped.                         *)
Handled(r, exit) == /\ vcpu' = [vcpu EXCEPT !.pc = Advance(@), !.rax = r, !.exit = exit]
                    /\ UNCHANGED <<loaded, program>>
Serve   == vcpu.exit = "hlt" /\ program[vcpu.next] = "unserved" /\ Handled(1, "none")
Stop    == vcpu.exit = "hlt" /\ program[vcpu.next] # "unserved" /\ Handled(0, "stopped")

(* Another VMM gives registers, special registers and memory to a new      *)
(* vCPU, whose STAR and LSTAR are as after reset.                          *)
Restore == /\ vcpu.exit = "stopped"
           /\ vcpu' = [vcpu EXCEPT !.star = ResetCpu.star, !.lstar = ResetCpu.lstar,
                                   !.exit = "none", !.bin = "restore"]
           /\ UNCHANGED <<loaded, program>>

Load == L!Next /\ UNCHANGED <<program, vcpu>>
Boot == \/ LoadGdt32 \/ ProtectOn \/ Jump32 \/ PaeOn \/ LongOn \/ SetCr3 \/ PagingOn
        \/ LoadGdt64 \/ Jump64 \/ SetStack \/ SseOn \/ SceOn \/ SetLstar \/ SetStar
        \/ Vmcall \/ BootSysret
Run  == Syscall \/ Hlt \/ Sysret \/ Lost \/ Serve \/ Stop

Next == Load \/ Launch \/ Boot \/ Run \/ Restore

(* The VMM is scheduled, main waits for nothing, and KVM_RUN runs the      *)
(* guest; nobody has to restore.                                           *)
Fairness == WF_vars(Launch \/ Boot \/ Run \/ Load)

Spec == Init /\ [][Next]_vars /\ Fairness

----------------------------------------------------------------------------
(* Properties                                                              *)

(* What the loader loads well, with room for a frame on the stack.         *)
Bootable == L!GoodLayout /\ stack.size > 0

(* From launch_vm on the guest runs without a fault, through all changes   *)
(* of mode and every call of its program. It faults where the VMM has lost *)
(* it: at address 0, when it was restored and makes its next SYSCALL; or   *)
(* inside the SYSRET of its first call, when KVM had skipped the HLT       *)
(* already (boot.asm:6-88, syscall_handler.c:75-76).                       *)
FaultsOnlyWhenLost == Bootable /\ vcpu.exit = "shutdown" =>
    IF KvmSkipsHlt THEN vcpu.pc = "inside" ELSE vcpu.pc = "zero" /\ vcpu.bin = "restore"

(* The program never has the processor in ring 0, and the boot code never  *)
(* runs in ring 3, whatever was loaded and however often it was restored   *)
(* (boot.asm:79-87).                                                       *)
RingsApart == vcpu.exit # "shutdown" => (vcpu.pc = "user" <=> vcpu.cs.ring = 3)

(* A good layout is loaded, create_stack and both files to their end, the  *)
(* machine boots, and its program comes, call by call, to the one that     *)
(* stops it; for a KVM that leaves RIP at the HLT (save.c:18-26,           *)
(* boot.asm:6-88).                                                         *)
ProgramRuns ==
    ~KvmSkipsHlt /\ Bootable /\ vcpu.bin = "save" ~> vcpu.exit = "stopped"

(* Loader and boot code are what Migration takes them for: create_stack,   *)
(* two files, launch; protected mode, long mode, the program with STAR and *)
(* LSTAR set; SYSCALL, HLT and SYSRET.                                     *)
AbsStage == IF vcpu.exit = "stopped" THEN "saving"
            ELSE IF vcpu.pc # "reset" THEN "run"
            ELSE IF stack.at # "mapped" THEN "memory"
            ELSE CASE at[1] = 1 -> "stack" [] at[1] = 2 -> "boot" [] OTHER -> "app"
AbsRip   == CASE vcpu.pc \in BootPlaces        -> "boot"
              [] vcpu.pc = "syscall_handler"   -> "hlt"
              [] OTHER                         -> vcpu.pc
AbsRegs  == [rip |-> AbsRip, next |-> vcpu.next, rax |-> vcpu.rax]
AbsSregs == CASE vcpu.cs.bits = 16 -> "real" [] vcpu.cs.bits = 32 -> "protected"
              [] OTHER -> "long"
MsrsSet  == /\ vcpu.lstar = "syscall_handler"
            /\ Segment("gdt64", vcpu.star.syscall) = Code(8, 64, 0)
            /\ Segment("gdt64", vcpu.star.sysret)  = Code(24, 64, 3)
AbsMsrs  == CASE vcpu.pc \in {"reset"} \cup BootPlaces -> "reset"
              [] OTHER -> IF MsrsSet THEN "set"
                          ELSE IF vcpu.lstar = "zero" /\ vcpu.star = NoMsrs THEN "reset"
                          ELSE "in part"
AbsMem   == [tables |-> AbsStage # "memory", boot |-> AbsStage \notin {"memory", "stack"},
             app |-> AbsStage \notin {"memory", "stack", "boot"}, fd |-> -1]
AbsTrap  == IF vcpu.exit = "stopped" THEN "none" ELSE vcpu.exit
FdsWith(boot, app) ==
    [n \in 3..9 |-> [kind |-> CASE n = 3 -> "kvm" [] n = 4 -> "vm" [] n = 5 -> "vcpu"
                                [] n = 6 /\ boot -> "elf"
                                [] n = 7 /\ app  -> "elf"
                                [] OTHER -> "free", pos |-> 0]]
AbsFds   == FdsWith(AbsMem.boot /\ vcpu.bin = "save", AbsMem.app /\ vcpu.bin = "save")
Calls    == [i \in DOMAIN program |-> [call |-> program[i], buf |-> 0]]
NoImage  == [none |-> 0]

M == INSTANCE Migration
        WITH Programs <- {[i \in DOMAIN p |-> [call |-> p[i], buf |-> 0]] : p \in Programs},
             MaxFd <- 9, program <- Calls,
             bin <- vcpu.bin, stage <- AbsStage, regs <- AbsRegs, sregs <- AbsSregs,
             msrs <- AbsMsrs, mem <- AbsMem, trap <- AbsTrap, fds <- AbsFds,
             image <- NoImage, file <- <<>>, ended <- "never"

(* A stopped vCPU is, for the next VMM, the image, and what this VMM has   *)
(* is a new VM.  How one becomes the other is Migration's alone.           *)
Saved == [regs |-> AbsRegs, sregs |-> AbsSregs, mem |-> AbsMem]

R == INSTANCE Migration
        WITH Programs <- {[i \in DOMAIN p |-> [call |-> p[i], buf |-> 0]] : p \in Programs},
             MaxFd <- 9, program <- Calls, trap <- AbsTrap, image <- Saved,
             bin   <- IF vcpu.exit = "stopped" THEN "restore" ELSE vcpu.bin,
             stage <- IF vcpu.exit = "stopped" THEN "memory" ELSE AbsStage,
             regs  <- IF vcpu.exit = "stopped" THEN M!ResetRegs ELSE AbsRegs,
             sregs <- IF vcpu.exit = "stopped" THEN "real" ELSE AbsSregs,
             msrs  <- IF vcpu.exit = "stopped" THEN "reset" ELSE AbsMsrs,
             mem   <- IF vcpu.exit = "stopped" THEN M!EmptyMem ELSE AbsMem,
             fds   <- IF vcpu.exit = "stopped" THEN FdsWith(FALSE, FALSE) ELSE AbsFds,
             file  <- <<>>, ended <- "never"

StepsAsMigration == [][Bootable => M!Setup \/ M!Guest \/ M!Serve \/ R!Restore]_(M!vars)
=============================================================================
