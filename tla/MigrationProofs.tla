--------------------------- MODULE MigrationProofs ---------------------------
(***************************************************************************)
(* Theorems about Migration, for every set of guest programs and every     *)
(* limit on descriptors: types, that an image is always a VM that can be   *)
(* resumed, what is in the guest's file, and that the whole machine        *)
(* implements ColdMigration.                                               *)
(***************************************************************************)
EXTENDS Migration, FiniteSetTheorems, TLAPS

----------------------------------------------------------------------------
(* Operators                                                               *)

LEMMA MaxPair == ASSUME NEW a \in Int, NEW b \in Int
                 PROVE  Max({a, b}) = IF a >= b THEN a ELSE b
<1> DEFINE c == IF a >= b THEN a ELSE b
<1>1. c \in {a, b} /\ \A y \in {a, b} : c >= y
  OBVIOUS
<1>2. \A x \in {a, b} : (\A y \in {a, b} : x >= y) => x = c
  OBVIOUS
<1> QED BY <1>1, <1>2 DEF Max

(* open gives a descriptor that was free, or -1.                           *)
LEMMA NewFdType == NewFd \in Fds \cup {-1} /\ NewFd \in Results
<1>1. LowestFree \subseteq Fds
  BY DEF LowestFree
<1>2. NewFd \in Fds \cup {-1}
  BY <1>1 DEF NewFd
<1> QED BY <1>2, LimitsAssumption DEF Fds, Results

(* A write at a position in the file, or at its end, leaves a file without *)
(* a gap, no shorter than before.                                          *)
LEMMA PutType ==
    ASSUME NEW S, NEW f \in Seq(S), NEW p \in 0..Len(f), NEW b \in S
    PROVE  Put(f, p, b) \in Seq(S) /\ Len(Put(f, p, b)) >= Len(f) /\ Len(Put(f, p, b)) > p
<1>1. Max({Len(f), p + 1}) = IF Len(f) >= p + 1 THEN Len(f) ELSE p + 1
  BY MaxPair
<1> DEFINE n == IF Len(f) >= p + 1 THEN Len(f) ELSE p + 1
<1>2. Put(f, p, b) = [i \in 1..n |-> IF i = p + 1 THEN b ELSE f[i]]
  BY <1>1 DEF Put
<1>3. n \in Nat /\ \A i \in 1..n : (IF i = p + 1 THEN b ELSE f[i]) \in S
  OBVIOUS
<1> QED BY <1>2, <1>3

----------------------------------------------------------------------------
(* Types                                                                   *)

(* The current positions are in the file: open starts at 0, only a write   *)
(* moves a position, and the file never becomes shorter.                   *)
PositionsInFile == \A n \in Fds : fds[n].pos <= Len(file)

(* The image is of a VM that runs this program.                            *)
ImageFits == image # NoImage => image.regs.next <= Len(program)

TypeInv == TypeOK /\ program \in Programs /\ PositionsInFile /\ ImageFits

LEMMA ProgramType ==
    ASSUME TypeInv
    PROVE  /\ Len(program) \in Nat \ {0} /\ 1 <= Len(program)
           /\ regs.next \in DOMAIN program
           /\ program[regs.next].buf \in Buffers
<1>1. program \in Seq([call : Calls, buf : Nat]) /\ Len(program) > 0
  BY ProgramsAssumption DEF TypeInv
<1>2. regs.next \in Nat \ {0} /\ regs.next <= Len(program)
  BY DEF TypeInv, TypeOK, RegFiles
<1> QED BY <1>1, <1>2 DEF Buffers

LEMMA ResetTypes == /\ ResetRegs \in RegFiles /\ ResetRegs.next = 1
                    /\ EmptyMem \in Memories
                    /\ NoFds \in [Fds -> Descriptors] /\ \A n \in Fds : NoFds[n].pos = 0
BY LimitsAssumption DEF ResetRegs, RegFiles, Places, Results, EmptyMem, Memories, NoFds, Free,
       Descriptors

LEMMA FdsType ==
    ASSUME TypeInv
    PROVE  /\ Len(file) \in Nat
           /\ \A n \in Fds : /\ fds[n] \in Descriptors /\ fds[n].pos \in Nat
                             /\ fds[n].pos <= Len(file)
                             /\ NoFds[n].pos <= Len(file)
<1>1. file \in Seq(Buffers) /\ fds \in [Fds -> Descriptors] /\ PositionsInFile
  BY DEF TypeInv, TypeOK
<1>2. \A d \in Descriptors : d.pos \in Nat
  BY DEF Descriptors
<1> QED BY <1>1, <1>2, ResetTypes DEF PositionsInFile

(* One descriptor changes, to a position in the file.                      *)
LEMMA FdsChange ==
    ASSUME TypeInv, NEW n \in Fds, NEW d \in Descriptors, NEW len \in Nat,
           d.pos <= len, Len(file) <= len
    PROVE  /\ [fds EXCEPT ![n] = d] \in [Fds -> Descriptors]
           /\ \A k \in Fds : [fds EXCEPT ![n] = d][k].pos <= len
<1>1. fds \in [Fds -> Descriptors]
  BY DEF TypeInv, TypeOK
<1>2. \A k \in Fds : [fds EXCEPT ![n] = d][k] = IF k = n THEN d ELSE fds[k]
  BY <1>1
<1> QED BY <1>1, <1>2, FdsType

LEMMA OpenedType ==
    /\ Free \in Descriptors /\ Free.pos = 0
    /\ \A k \in {"kvm", "vm", "vcpu", "elf", "file", "image"} :
          Opened(k) \in Descriptors /\ Opened(k).pos = 0
BY DEF Free, Opened, Descriptors

LEMMA TypeInit == Init => TypeInv
<1> SUFFICES ASSUME Init PROVE TypeInv
  OBVIOUS
<1>1. program \in Programs /\ Len(program) >= 1
  BY ProgramsAssumption DEF Init
<1>2. TypeOK
  BY <1>1, ResetTypes DEF Init, TypeOK, Modes, Buffers
<1>3. PositionsInFile
  BY ResetTypes DEF Init, PositionsInFile
<1> QED BY <1>1, <1>2, <1>3 DEF Init, TypeInv, ImageFits

(* The process ends with an image that fits.                               *)
LEMMA EndType ==
    ASSUME TypeInv, NEW how \in {"status 0", "status 1", "shutdown", "killed"}, End(how),
           UNCHANGED <<program, bin, file>>, image' \in {image, NoImage, SavedVm}
    PROVE  TypeInv'
<1>1. UNCHANGED Buffers
  BY DEF Buffers
<1>2. image' \in VmStates \cup {NoImage} /\ ImageFits'
  <2>1. SavedVm \in VmStates /\ SavedVm.regs.next <= Len(program)
    BY DEF TypeInv, TypeOK, SavedVm, VmStates
  <2> QED BY <2>1 DEF TypeInv, TypeOK, ImageFits
<1>3. TypeOK'
  <2>1. regs' \in RegFiles /\ regs'.next <= Len(program')
    <3>1. regs' = ResetRegs /\ program' = program
      BY DEF End
    <3> QED BY <3>1, ProgramType, ResetTypes
  <2>2. fds' \in [Fds -> Descriptors] /\ mem' \in Memories
    BY ResetTypes DEF End
  <2>3. file' \in Seq(Buffers') /\ bin' \in {"save", "restore"}
    BY <1>1 DEF TypeInv, TypeOK
  <2> QED BY <1>2, <2>1, <2>2, <2>3 DEF TypeOK, End, Modes
<1>4. PositionsInFile'
  <2>1. fds' = NoFds /\ file' = file
    BY DEF End
  <2> QED BY <2>1, FdsType DEF PositionsInFile
<1> QED BY <1>2, <1>3, <1>4 DEF TypeInv

LEMMA TypeNext == TypeInv /\ [Next]_vars => TypeInv'
<1> SUFFICES ASSUME TypeInv, [Next]_vars PROVE TypeInv'
  OBVIOUS
<1>0. TypeOK /\ PositionsInFile /\ ImageFits /\ program \in Programs
  BY DEF TypeInv
<1>a. UNCHANGED program => UNCHANGED Buffers
  BY DEF Buffers
<1> USE <1>a DEF TypeInv
<1>1. CASE UNCHANGED vars
  BY <1>0, <1>1 DEF vars, TypeOK, PositionsInFile, ImageFits, RegFiles
<1>2. CASE CreateVm
  <2>1. 3 \in Fds /\ 4 \in Fds
    BY LimitsAssumption DEF Fds
  <2>2. fds' = [fds EXCEPT ![3] = Opened("kvm"), ![4] = Opened("vm")]
    BY <1>2 DEF CreateVm
  <2>3. \A n \in Fds : fds'[n] = IF n = 4 THEN Opened("vm")
                                 ELSE IF n = 3 THEN Opened("kvm") ELSE fds[n]
    BY <1>0, <2>1, <2>2 DEF TypeOK
  <2>4. fds' \in [Fds -> Descriptors]
    BY <1>0, <2>1, <2>2, OpenedType DEF TypeOK
  <2>5. \A n \in Fds : fds'[n].pos <= Len(file)
    BY <2>3, FdsType, OpenedType
  <2> QED BY <1>0, <1>2, <2>4, <2>5 DEF CreateVm, cpu, TypeOK, PositionsInFile, ImageFits
<1>3. ASSUME NEW k \in {"vcpu", "elf", "image"}, Install(k),
             UNCHANGED <<program, bin, cpu, trap, file, ended>>,
             mem' \in Memories, image' \in {image, NoImage},
             stage' \in {"vcpu", "boot", "app", "dumping"}
      PROVE  TypeInv'
  <2>1. NewFd \in Fds /\ fds' = [fds EXCEPT ![NewFd] = Opened(k)]
    BY <1>3, NewFdType DEF Install
  <2>2. fds' \in [Fds -> Descriptors] /\ \A n \in Fds : fds'[n].pos <= Len(file)
    BY <2>1, OpenedType, FdsType, FdsChange
  <2> QED BY <1>0, <1>3, <2>2 DEF cpu, TypeOK, PositionsInFile, ImageFits
<1>4. CASE CreateBootstrap
  BY <1>0, <1>3, <1>4 DEF CreateBootstrap, TypeOK
<1>5. CASE AddMemory
  BY <1>0, <1>5, ResetTypes DEF AddMemory, cpu, TypeOK, PositionsInFile, ImageFits
<1>6. CASE CreateStack
  BY <1>0, <1>6 DEF CreateStack, cpu, Memories, TypeOK, PositionsInFile, ImageFits
<1>7. CASE LoadBoot
  <2>1. mem' \in Memories
    BY <1>0, <1>7 DEF LoadBoot, Memories, TypeOK
  <2> QED BY <1>3, <1>7, <2>1 DEF LoadBoot
<1>8. CASE LoadApp
  <2>1. mem' \in Memories
    BY <1>0, <1>8 DEF LoadApp, Memories, TypeOK
  <2> QED BY <1>3, <1>8, <2>1 DEF LoadApp
<1>9. CASE Launch
  BY <1>0, <1>9 DEF Launch, RegFiles, Places, TypeOK, PositionsInFile, ImageFits
<1>10. CASE Restore
  <2>1. /\ image \in VmStates /\ image.regs.next <= Len(program)
    BY <1>0, <1>10 DEF Restore, TypeOK, ImageFits
  <2> QED BY <1>0, <1>10, <2>1 DEF Restore, VmStates, TypeOK, PositionsInFile, ImageFits
<1>11. CASE RestoreFails
  BY <1>11, EndType DEF RestoreFails
<1>12. CASE SetupOrRunFails
  BY <1>12, EndType DEF SetupOrRunFails
<1>13. CASE BootProtected
  BY <1>0, <1>13 DEF BootProtected, Modes, TypeOK, PositionsInFile, ImageFits
<1>14. CASE BootLong
  BY <1>0, <1>14 DEF BootLong, Modes, TypeOK, PositionsInFile, ImageFits
<1>15. CASE BootUser
  BY <1>0, <1>15 DEF BootUser, RegFiles, Places, TypeOK, PositionsInFile, ImageFits
<1>16. CASE GuestSyscall
  BY <1>0, <1>16 DEF GuestSyscall, RegFiles, Places, TypeOK, PositionsInFile, ImageFits
<1>17. CASE GuestHlt
  BY <1>0, <1>17 DEF GuestHlt, RegFiles, Places, TypeOK, PositionsInFile, ImageFits
<1>18. CASE GuestSysret
  <2>1. mem' \in Memories
    BY <1>0, <1>18 DEF GuestSysret, RegFiles, Results, Memories, TypeOK
  <2>2. regs' \in RegFiles /\ regs'.next <= Len(program)
    <3>1. regs' = [regs EXCEPT !.rip = "user",
                               !.next = IF regs.next = Len(program) THEN regs.next
                                        ELSE regs.next + 1]
      BY <1>18 DEF GuestSysret
    <3>2. /\ regs \in RegFiles /\ regs.next \in Nat \ {0} /\ Len(program) \in Nat
          /\ regs.next <= Len(program)
      BY <1>0, ProgramType DEF RegFiles, TypeOK
    <3> DEFINE k == IF regs.next = Len(program) THEN regs.next ELSE regs.next + 1
    <3>3. k \in Nat \ {0} /\ k <= Len(program)
      BY <3>2
    <3>4. regs' = [regs EXCEPT !.rip = "user", !.next = k]
      BY <3>1
    <3> HIDE DEF k
    <3> QED BY <3>2, <3>3, <3>4 DEF RegFiles, Places
  <2> QED BY <1>0, <1>18, <2>1, <2>2 DEF GuestSysret, TypeOK, PositionsInFile, ImageFits
<1>19. CASE GuestFault
  BY <1>0, <1>19 DEF GuestFault, cpu, TypeOK, PositionsInFile, ImageFits
<1>20. ASSUME NEW r \in Results, Complete(r) PROVE regs' \in RegFiles /\ regs'.next = regs.next
  BY <1>0, <1>20 DEF Complete, Advance, RegFiles, Places, TypeOK
<1>21. ASSUME NEW r \in Results, Resume(r), UNCHANGED file,
              fds' \in [Fds -> Descriptors],
              \A n \in Fds : fds'[n].pos <= Len(file)
       PROVE  TypeInv'
  BY <1>0, <1>20, <1>21 DEF Resume, TypeOK, PositionsInFile, ImageFits
<1>22. 1 \in Results /\ 0 \in Results /\ -1 \in Results /\ Len(file) \in Nat
  BY FdsType, LimitsAssumption DEF Results
<1>23. CASE SysWrite
  <2>1. CASE IsGuestFile(mem.fd)
    <3>1. /\ file' = Put(file, fds[mem.fd].pos, program[regs.next].buf)
          /\ fds' = [fds EXCEPT ![mem.fd].pos = @ + 1]
          /\ Resume(1)
      BY <1>23, <2>1 DEF SysWrite
    <3>2. mem.fd \in Fds /\ fds[mem.fd].pos \in 0..Len(file)
      BY <2>1, FdsType DEF IsGuestFile
    <3>3. file \in Seq(Buffers) /\ program[regs.next].buf \in Buffers
      BY <1>0, ProgramType DEF TypeOK
    <3>4. /\ file' \in Seq(Buffers) /\ Len(file') >= Len(file)
          /\ Len(file') > fds[mem.fd].pos
      BY <3>1, <3>2, <3>3, PutType
    <3>5. fds' \in [Fds -> Descriptors] /\ PositionsInFile'
      <4> DEFINE d == [fds[mem.fd] EXCEPT !.pos = @ + 1]
      <4>1. fds' = [fds EXCEPT ![mem.fd] = d]
        BY <3>1
      <4>2. d \in Descriptors /\ d.pos = fds[mem.fd].pos + 1
        BY <3>2, FdsType DEF Descriptors
      <4>3. Len(file') \in Nat /\ d.pos <= Len(file') /\ Len(file) <= Len(file')
        BY <1>22, <3>2, <3>4, <4>2
      <4> HIDE DEF d
      <4> QED BY <3>2, <4>1, <4>2, <4>3, FdsChange DEF PositionsInFile
    <3>7. UNCHANGED program
      BY <3>1 DEF Resume
    <3> QED BY <1>0, <1>20, <1>22, <3>1, <3>4, <3>5, <3>7 DEF Resume, TypeOK, ImageFits
  <2>2. CASE ~IsGuestFile(mem.fd)
    BY <1>0, <1>21, <1>22, <1>23, <2>2 DEF SysWrite, TypeOK, PositionsInFile
  <2> QED BY <2>1, <2>2
<1>24. CASE SysOpen
  <2>1. /\ fds' \in [Fds -> Descriptors]
        /\ \A n \in Fds : fds'[n].pos <= Len(file)
    <3>1. CASE Install("file")
      <4>1. NewFd \in Fds /\ fds' = [fds EXCEPT ![NewFd] = Opened("file")]
        BY <3>1, NewFdType DEF Install
      <4> QED BY <4>1, OpenedType, FdsType, FdsChange
    <3>2. CASE UNCHANGED fds
      BY <1>0, <3>2 DEF TypeOK, PositionsInFile
    <3> QED BY <1>24, <3>1, <3>2 DEF SysOpen
  <2> QED BY <1>21, <1>22, <1>24, <2>1, NewFdType DEF SysOpen
<1>25. CASE SysClose
  <2>1. /\ fds' \in [Fds -> Descriptors]
        /\ \A n \in Fds : fds'[n].pos <= Len(file)
    <3>1. CASE mem.fd \in Fds /\ fds' = [fds EXCEPT ![mem.fd] = Free]
      BY <3>1, OpenedType, FdsType, FdsChange
    <3>2. CASE UNCHANGED fds
      BY <1>0, <3>2 DEF TypeOK, PositionsInFile
    <3> QED BY <1>25, <3>1, <3>2 DEF SysClose
  <2> QED BY <1>21, <1>22, <1>25, <2>1 DEF SysClose
<1>26. CASE SysUnserved
  BY <1>0, <1>21, <1>22, <1>26 DEF SysUnserved, TypeOK, PositionsInFile
<1>27. ASSUME StopVm PROVE TypeInv'
  BY <1>0, <1>20, <1>22, <1>27 DEF StopVm, TypeOK, PositionsInFile, ImageFits
<1>28. CASE Shutdown
  BY <1>28, EndType DEF Shutdown
<1>29. CASE DumpOpen
  BY <1>0, <1>3, <1>29 DEF DumpOpen, TypeOK
<1>30. CASE DumpOpenFails
  BY <1>30, EndType DEF DumpOpenFails
<1>31. CASE Dump
  BY <1>31, EndType DEF Dump
<1>32. CASE Killed
  BY <1>32, EndType DEF Killed
<1> QED BY <1>1, <1>2, <1>4, <1>5, <1>6, <1>7, <1>8, <1>9, <1>10, <1>11, <1>12, <1>13,
           <1>14, <1>15, <1>16, <1>17, <1>18, <1>19, <1>23, <1>24, <1>25, <1>26, <1>27,
           <1>28, <1>29, <1>30, <1>31, <1>32
        DEF Next, Setup, Guest, Serve, SysSave, SysExit

(* Every variable keeps its type, whatever the guest programs are.         *)
THEOREM TypeCorrect == Spec => []TypeOK
<1>1. TypeInv => TypeOK
  BY DEF TypeInv
<1> QED BY <1>1, TypeInit, TypeNext, PTL DEF Spec

----------------------------------------------------------------------------
(* What an image is worth, when KVM leaves RIP at the HLT                  *)

(* A VM that was stopped behind the HLT of its save or exit call.          *)
Resumable(s) == /\ s.regs.rip = "sysret" /\ s.regs.rax = 0
                /\ program[s.regs.next].call \in {"save", "exit"}
                /\ s.sregs = "long"
                /\ s.mem.tables /\ s.mem.boot /\ s.mem.app

(* Memory is filled in the order of main, and full when the vCPU runs.     *)
Built == /\ stage \in {"stack", "boot", "app", "run"} => mem.tables
         /\ stage \in {"boot", "app", "run"} => mem.boot
         /\ stage \in {"app", "run"} => mem.app

(* Only the boot code runs in another mode than long mode.                 *)
LongMode == stage = "run" /\ regs.rip # "boot" => sregs = "long"

(* A HLT that the VMM has not handled yet is the one of syscall_handler.   *)
TrapAtHlt == trap = "hlt" => stage = "run" /\ regs.rip = "hlt"

Stopped == stage \in {"saving", "dumping"} => Resumable(SavedVm)

IInv == /\ TypeInv /\ Built /\ LongMode /\ TrapAtHlt /\ Stopped
        /\ ImageIsResumable /\ CallsReturnToSysret

LEMMA IInvInit == Init => IInv
BY TypeInit DEF Init, ResetRegs, IInv, Built, LongMode, TrapAtHlt, Stopped,
                ImageIsResumable, CallsReturnToSysret

(* The process ends: nothing is left but the image.                        *)
LEMMA EndKeepsIInv ==
    ASSUME IInv, TypeInv', NEW how, End(how), UNCHANGED program,
           \/ image' \in {image, NoImage}
           \/ image' = SavedVm /\ stage = "dumping"
    PROVE  IInv'
<1>1. /\ stage' = "off" /\ regs'.rip = "reset" /\ trap' = "none"
  BY DEF End, ResetRegs
<1>2. Built' /\ LongMode' /\ TrapAtHlt' /\ Stopped' /\ CallsReturnToSysret'
  BY <1>1 DEF Built, LongMode, TrapAtHlt, Stopped, CallsReturnToSysret
<1>3. ImageIsResumable'
  BY DEF IInv, ImageIsResumable, Stopped, Resumable
<1> QED BY <1>2, <1>3 DEF IInv

(* A call is complete: the vCPU is behind the HLT, with the result in RAX. *)
LEMMA Completed ==
    ASSUME IInv, NEW call, Serving(call), NEW r, Complete(r)
    PROVE  /\ regs'.rip = "sysret" /\ regs'.rax = r /\ regs'.next = regs.next
           /\ sregs = "long" /\ mem.tables /\ mem.boot /\ mem.app
           /\ program[regs.next].call = call
<1>1. regs \in RegFiles /\ regs.rip = "hlt" /\ stage = "run"
  BY DEF IInv, TypeInv, TypeOK, TrapAtHlt, Serving
<1>2. regs' = [regs EXCEPT !.rax = r, !.rip = "sysret"]
  BY <1>1 DEF Complete, Advance
<1> QED BY <1>1, <1>2 DEF RegFiles, IInv, Built, LongMode, Serving

LEMMA IInvNext == ASSUME ~KvmSkipsHlt, IInv, [Next]_vars PROVE IInv'
<1>0. TypeInv'
  BY TypeNext DEF IInv
<1>a. regs \in RegFiles /\ mem \in Memories
  BY DEF IInv, TypeInv, TypeOK
<1>1. CASE UNCHANGED vars
  BY <1>0, <1>1 DEF vars, IInv, Built, LongMode, TrapAtHlt, Stopped, Resumable, SavedVm,
                    ImageIsResumable, CallsReturnToSysret
<1> USE <1>0 DEF IInv, ImageIsResumable, CallsReturnToSysret
(* Before the vCPU runs: the image is as it was, and so is RIP.            *)
<1>2. ASSUME UNCHANGED <<program, regs, trap, image>>, trap # "hlt", Built',
             stage' \notin {"run", "saving", "dumping"}
      PROVE  IInv'
  BY <1>2 DEF LongMode, TrapAtHlt, Stopped
<1>3. CASE CreateVm
  BY <1>2, <1>3 DEF CreateVm, cpu, Built, TrapAtHlt
<1>4. CASE CreateBootstrap
  BY <1>2, <1>4 DEF CreateBootstrap, cpu, Built, TrapAtHlt
<1>5. CASE AddMemory
  BY <1>2, <1>5 DEF AddMemory, cpu, Built, TrapAtHlt
<1>6. CASE CreateStack
  BY <1>2, <1>6, <1>a DEF CreateStack, cpu, Memories, Built, TrapAtHlt
<1>7. CASE LoadBoot
  BY <1>2, <1>7, <1>a DEF LoadBoot, cpu, Memories, Built, TrapAtHlt
<1>8. CASE LoadApp
  BY <1>2, <1>8, <1>a DEF LoadApp, cpu, Memories, Built, TrapAtHlt
<1>9. CASE Launch
  BY <1>9, <1>a DEF Launch, RegFiles, Built, LongMode, TrapAtHlt, Stopped
<1>10. CASE Restore
  BY <1>10 DEF Restore, Built, LongMode, TrapAtHlt, Stopped
(* In KVM_RUN: the memory stays loaded, the image as it was.               *)
<1>11. ASSUME Running, stage' = "run", UNCHANGED <<program, image>>, LongMode', TrapAtHlt',
              mem'.tables = mem.tables, mem'.boot = mem.boot, mem'.app = mem.app,
              regs'.rip # "inside"
       PROVE  IInv'
  BY <1>11 DEF Running, Built, Stopped
<1>12. CASE BootProtected
  BY <1>11, <1>12 DEF BootProtected, Running, LongMode, TrapAtHlt
<1>13. CASE BootLong
  BY <1>11, <1>13 DEF BootLong, Running, LongMode, TrapAtHlt
<1>14. CASE BootUser
  BY <1>11, <1>14, <1>a DEF BootUser, Running, RegFiles, LongMode, TrapAtHlt
<1>15. CASE GuestSyscall
  BY <1>11, <1>15, <1>a DEF GuestSyscall, Running, RegFiles, LongMode, TrapAtHlt
<1>16. CASE GuestHlt
  BY <1>11, <1>16, <1>a, LimitsAssumption DEF GuestHlt, Running, RegFiles, LongMode, TrapAtHlt
<1>17. CASE GuestSysret
  BY <1>11, <1>17, <1>a DEF GuestSysret, Running, RegFiles, Memories, LongMode, TrapAtHlt
<1>18. CASE GuestFault
  BY <1>11, <1>18 DEF GuestFault, Running, cpu, LongMode, TrapAtHlt
(* A call after which the guest goes on.                                   *)
<1>19. ASSUME NEW call, Serving(call), NEW r, Resume(r) PROVE IInv'
  <2>1. /\ regs'.rip = "sysret" /\ sregs = "long" /\ mem.tables /\ mem.boot /\ mem.app
    BY <1>19, Completed DEF Resume
  <2>2. /\ stage' = "run" /\ trap' = "none" /\ UNCHANGED <<program, sregs, mem, image>>
    BY <1>19 DEF Resume, Serving
  <2> QED BY <2>1, <2>2 DEF Built, LongMode, TrapAtHlt, Stopped
<1>20. CASE SysWrite
  BY <1>19, <1>20 DEF SysWrite
<1>21. CASE SysOpen
  BY <1>19, <1>21 DEF SysOpen
<1>22. CASE SysClose
  BY <1>19, <1>22 DEF SysClose
<1>23. CASE SysUnserved
  BY <1>19, <1>23 DEF SysUnserved
(* A call after which the VM is dumped.                                    *)
<1>24. ASSUME NEW call \in {"save", "exit"}, Serving(call), StopVm PROVE IInv'
  <2>1. /\ regs'.rip = "sysret" /\ regs'.rax = 0 /\ regs'.next = regs.next
        /\ sregs = "long" /\ mem.tables /\ mem.boot /\ mem.app
        /\ program[regs.next].call = call
    BY <1>24, Completed DEF StopVm
  <2>2. /\ stage' = "saving" /\ trap' = "none" /\ UNCHANGED <<program, sregs, mem, image>>
    BY <1>24 DEF StopVm
  <2>3. Stopped'
    BY <1>24, <2>1, <2>2 DEF Stopped, Resumable, SavedVm
  <2> QED BY <2>1, <2>2, <2>3 DEF Built, LongMode, TrapAtHlt
<1>25. CASE SysSave
  BY <1>24, <1>25 DEF SysSave
<1>26. CASE SysExit
  BY <1>24, <1>26 DEF SysExit
<1>27. CASE DumpOpen
  <2>1. /\ stage' = "dumping" /\ image' = NoImage
        /\ UNCHANGED <<program, regs, sregs, mem, trap>>
    BY <1>27 DEF DumpOpen, cpu
  <2>2. Resumable(SavedVm)
    BY <1>27 DEF DumpOpen, Stopped
  <2>3. Stopped'
    BY <2>1, <2>2 DEF Stopped, Resumable, SavedVm
  <2> QED BY <1>27, <2>1, <2>3 DEF DumpOpen, Built, LongMode, TrapAtHlt
<1>28. CASE RestoreFails
  BY <1>28, EndKeepsIInv DEF RestoreFails
<1>29. CASE SetupOrRunFails
  BY <1>29, EndKeepsIInv DEF SetupOrRunFails
<1>30. CASE Shutdown
  BY <1>30, EndKeepsIInv DEF Shutdown
<1>31. CASE DumpOpenFails
  BY <1>31, EndKeepsIInv DEF DumpOpenFails
<1>32. CASE Dump
  BY <1>32, EndKeepsIInv DEF Dump
<1>33. CASE Killed
  BY <1>33, EndKeepsIInv DEF Killed
<1> QED BY <1>1, <1>3, <1>4, <1>5, <1>6, <1>7, <1>8, <1>9, <1>10, <1>12, <1>13, <1>14,
           <1>15, <1>16, <1>17, <1>18, <1>20, <1>21, <1>22, <1>23, <1>25, <1>26, <1>27,
           <1>28, <1>29, <1>30, <1>31, <1>32, <1>33
        DEF Next, Setup, Guest, Serve

(* A VM that a restore accepts was stopped between two instructions of its *)
(* program, with the call that stopped it complete, when KVM leaves RIP at *)
(* the HLT (syscall_handler.c:66-69; the dump reads what SET_REGS set).    *)
THEOREM ImageTheorem == ASSUME ~KvmSkipsHlt PROVE Spec => []ImageIsResumable
<1>1. IInv /\ [Next]_vars => IInv'
  BY IInvNext
<1>2. IInv => ImageIsResumable
  BY DEF IInv
<1> QED BY <1>1, <1>2, IInvInit, PTL DEF Spec

(* RIP is never inside the SYSRET, when KVM leaves it at the HLT: the      *)
(* run migration_hlt is the only way to get there (syscall_handler.c:75).  *)
THEOREM SysretTheorem == ASSUME ~KvmSkipsHlt PROVE Spec => []CallsReturnToSysret
<1>1. IInv /\ [Next]_vars => IInv'
  BY IInvNext
<1>2. IInv => CallsReturnToSysret
  BY DEF IInv
<1> QED BY <1>1, <1>2, IInvInit, PTL DEF Spec

----------------------------------------------------------------------------
(* The descriptor of the guest, in a VM that was not restored              *)

(* The guest's variable is the file's, when the program holds its file.    *)
OpenHeld == IsOpenAt(regs.next) /\ mem.fd # -1 => IsGuestFile(mem.fd)

(* Between the HLT and the SYSRET the result of an open is still in RAX,   *)
(* and a close has already been done.                                      *)
Held == /\ regs.rip # "sysret" \/ program[regs.next].call \notin {"open", "close"} => OpenHeld
        /\ regs.rip = "sysret" /\ program[regs.next].call = "open" =>
              regs.rax = -1 \/ IsGuestFile(regs.rax)

(* Until a vCPU is launched its registers are those of its reset.          *)
Fresh == stage \notin {"run", "saving", "dumping"} => regs = ResetRegs

FInv == IInv /\ Fresh /\ (bin = "save" /\ stage = "run" => Held)

LEMMA FInvInit == Init => FInv
BY IInvInit DEF Init, FInv, Fresh

(* The program holds its file at the next call if this call opens it, or   *)
(* if it holds it at this one and this one does not close it.              *)
LEMMA OpenAtNext ==
    ASSUME NEW i \in Nat \ {0}, IsOpenAt(i + 1)
    PROVE  program[i].call = "open" \/ (IsOpenAt(i) /\ program[i].call # "close")
<1>1. PICK j \in 1..i : program[j].call = "open" /\ \A k \in j..i : program[k].call # "close"
  BY DEF IsOpenAt
<1>2. CASE j = i
  BY <1>1, <1>2
<1>3. CASE j # i
  <2>1. j \in 1..i - 1 /\ i \in j..i
    BY <1>3
  <2>2. \A k \in j..i - 1 : k \in j..i
    OBVIOUS
  <2> QED BY <1>1, <2>1, <2>2 DEF IsOpenAt
<1> QED BY <1>2, <1>3

LEMMA OpenHeldSame ==
    ASSUME UNCHANGED program, regs'.next = regs.next, mem'.fd = mem.fd,
           \A n \in Fds : fds'[n].kind = fds[n].kind, OpenHeld
    PROVE  OpenHeld'
<1>1. IsOpenAt(regs.next)' => IsOpenAt(regs.next)
  BY DEF IsOpenAt
<1>2. IsGuestFile(mem.fd) => IsGuestFile(mem.fd)'
  BY DEF IsGuestFile
<1> QED BY <1>1, <1>2 DEF OpenHeld

(* A new descriptor is not one that the guest holds.                       *)
LEMMA InstalledFile ==
    ASSUME TypeInv, Install("file")
    PROVE  /\ NewFd # -1 /\ NewFd \in Fds
           /\ fds' = [fds EXCEPT ![NewFd] = Opened("file")]
           /\ fds'[NewFd].kind = "file"
BY NewFdType DEF Install, Opened, TypeInv, TypeOK

LEMMA FInvNext == ASSUME ~KvmSkipsHlt, FInv, [Next]_vars PROVE FInv'
<1>0. IInv'
  BY IInvNext DEF FInv
<1>a. /\ regs \in RegFiles /\ mem \in Memories /\ fds \in [Fds -> Descriptors]
      /\ regs.next \in Nat \ {0} /\ TypeInv
  BY DEF FInv, IInv, TypeInv, TypeOK, RegFiles
<1> USE <1>0 DEF FInv, Fresh
<1>1. CASE UNCHANGED vars
  <2>1. OpenHeld => OpenHeld'
    BY <1>1, OpenHeldSame DEF vars
  <2>2. IsGuestFile(regs.rax) => IsGuestFile(regs.rax)'
    BY <1>1 DEF vars, IsGuestFile
  <2> QED BY <1>1, <2>1, <2>2 DEF vars, Held
(* No vCPU runs after the step.                                            *)
<1>2. CASE CreateVm \/ CreateBootstrap \/ AddMemory \/ CreateStack \/ LoadBoot \/ LoadApp
  BY <1>2 DEF CreateVm, CreateBootstrap, AddMemory, CreateStack, LoadBoot, LoadApp, cpu
<1>3. CASE Launch
  <2>1. regs = ResetRegs
    BY <1>3 DEF Launch
  <2>2. regs'.next = 1 /\ regs'.rip = "boot"
    BY <1>3, <2>1 DEF Launch, ResetRegs
  <2>3. ~IsOpenAt(regs.next)'
    BY <2>2 DEF IsOpenAt
  <2>4. Held'
    BY <2>2, <2>3 DEF Held, OpenHeld
  <2> QED BY <1>3, <2>4 DEF Launch
<1>4. CASE Restore
  BY <1>4 DEF Restore
<1>5. ASSUME NEW how, End(how) PROVE FInv'
  BY <1>5 DEF End
<1>6. CASE RestoreFails \/ SetupOrRunFails \/ Shutdown \/ DumpOpenFails \/ Dump \/ Killed
  BY <1>5, <1>6 DEF RestoreFails, SetupOrRunFails, Shutdown, DumpOpenFails, Dump, Killed
<1>7. CASE DumpOpen \/ SysSave \/ SysExit
  BY <1>7 DEF DumpOpen, SysSave, SysExit, StopVm
(* The guest runs, and neither its call nor its variable changes.          *)
<1>8. ASSUME Running, UNCHANGED <<program, bin, stage, mem, fds>>, regs'.next = regs.next,
             regs.rip # "sysret", regs'.rip # "sysret"
      PROVE  FInv'
  <2>1. OpenHeld => OpenHeld'
    BY <1>8, OpenHeldSame
  <2> QED BY <1>8, <2>1 DEF Running, Held
<1>9. CASE BootProtected
  BY <1>8, <1>9 DEF BootProtected
<1>10. CASE BootLong
  BY <1>8, <1>10 DEF BootLong
<1>11. CASE BootUser
  BY <1>8, <1>11, <1>a DEF BootUser, RegFiles
<1>12. CASE GuestSyscall
  BY <1>8, <1>12, <1>a DEF GuestSyscall, RegFiles
<1>13. CASE GuestHlt
  BY <1>8, <1>13, <1>a, LimitsAssumption DEF GuestHlt, RegFiles
<1>14. CASE GuestFault
  BY <1>8, <1>14 DEF GuestFault, cpu
<1>15. CASE GuestSysret
  <2>1. /\ regs.rip = "sysret" /\ regs'.rip = "user"
        /\ regs'.next = IF regs.next = Len(program) THEN regs.next ELSE regs.next + 1
        /\ mem'.fd = IF program[regs.next].call = "open" THEN regs.rax ELSE mem.fd
        /\ UNCHANGED <<program, bin, stage, fds>>
    BY <1>15, <1>a DEF GuestSysret, RegFiles, Memories
  <2>2. bin = "save" => OpenHeld'
    <3> SUFFICES ASSUME bin = "save", IsOpenAt(regs.next)', mem'.fd # -1
                 PROVE  IsGuestFile(mem.fd)'
      BY DEF OpenHeld
    <3> DEFINE i == regs.next
    <3>1. Held
      BY <1>15, <2>1 DEF GuestSysret, Running
    <3>2. IsGuestFile(mem'.fd) => IsGuestFile(mem.fd)'
      BY <2>1 DEF IsGuestFile
    <3>3. CASE i = Len(program)
      <4>1. program[i].call = "exit"
        BY <1>a, <3>3, ProgramsAssumption DEF TypeInv
      <4>2. IsOpenAt(i)
        BY <2>1, <3>3 DEF IsOpenAt
      <4> QED BY <2>1, <3>1, <3>2, <4>1, <4>2 DEF Held, OpenHeld
    <3>4. CASE i # Len(program)
      <4>1. IsOpenAt(i + 1)
        BY <2>1, <3>4 DEF IsOpenAt
      <4>2. program[i].call = "open" \/ (IsOpenAt(i) /\ program[i].call # "close")
        BY <1>a, <4>1, OpenAtNext
      <4> QED BY <2>1, <3>1, <3>2, <4>2 DEF Held, OpenHeld
    <3> QED BY <3>3, <3>4
  <2> QED BY <1>15, <2>1, <2>2 DEF GuestSysret, Running, Held
(* A call is served: the vCPU is at the SYSRET.                            *)
<1>16. ASSUME NEW call, Serving(call), NEW r, Resume(r)
       PROVE  /\ regs'.rip = "sysret" /\ regs'.rax = r /\ regs'.next = regs.next
              /\ program'[regs'.next].call = call /\ stage' = "run"
              /\ UNCHANGED <<program, bin, stage, mem>>
              /\ bin = "save" => OpenHeld
  <2>1. regs.rip = "hlt" /\ stage = "run"
    BY <1>16 DEF IInv, TrapAtHlt, Serving
  <2>2. /\ regs'.rip = "sysret" /\ regs'.rax = r /\ regs'.next = regs.next
        /\ program[regs.next].call = call
    BY <1>16, Completed DEF Resume
  <2> QED BY <1>16, <2>1, <2>2 DEF Resume, Held
<1>17. ASSUME NEW call, Serving(call), NEW r, Resume(r), call \notin {"open", "close"},
              \A n \in Fds : fds'[n].kind = fds[n].kind
       PROVE  FInv'
  <2>1. bin = "save" => OpenHeld'
    BY <1>16, <1>17, OpenHeldSame
  <2> QED BY <1>16, <1>17, <2>1 DEF Held
<1>18. CASE SysWrite
  <2>1. \A n \in Fds : fds'[n].kind = fds[n].kind
    BY <1>18, <1>a DEF SysWrite, IsGuestFile, Descriptors
  <2> QED BY <1>17, <1>18, <2>1 DEF SysWrite
<1>19. CASE SysUnserved
  BY <1>17, <1>19 DEF SysUnserved
<1>20. CASE SysClose
  <2>1. PICK r : Serving("close") /\ Resume(r)
    BY <1>20 DEF SysClose
  <2> QED BY <1>16, <2>1 DEF Held
<1>21. CASE SysOpen
  <2>1. CASE Install("file") /\ Resume(NewFd)
    <3>1. regs'.rax = NewFd /\ Serving("open")
      BY <1>16, <1>21, <2>1 DEF SysOpen
    <3>2. IsGuestFile(regs.rax)'
      BY <1>a, <2>1, <3>1, InstalledFile DEF IsGuestFile
    <3> QED BY <1>16, <2>1, <3>1, <3>2 DEF Held
  <2>2. CASE Resume(-1)
    BY <1>16, <1>21, <2>2 DEF SysOpen, Held
  <2> QED BY <1>21, <2>1, <2>2 DEF SysOpen
<1> QED BY <1>1, <1>2, <1>3, <1>4, <1>6, <1>7, <1>9, <1>10, <1>11, <1>12, <1>13, <1>14,
           <1>15, <1>18, <1>19, <1>20, <1>21
        DEF Next, Setup, Guest, Serve

----------------------------------------------------------------------------
(* The calls that write to the file, and where they write                  *)

LEMMA WrittenType ==
    ASSUME NEW n \in Nat
    PROVE  IsFiniteSet(WritesBy(n)) /\ Written(n) \in Nat
<1>1. IsFiniteSet(1..n) /\ WritesBy(n) \subseteq 1..n
  BY FS_Interval DEF WritesBy
<1>2. IsFiniteSet(WritesBy(n))
  BY <1>1, FS_Subset
<1> QED BY <1>2, FS_CardinalityType DEF Written

(* A call that writes is one more than those before it.                    *)
LEMMA WrittenNext ==
    ASSUME NEW n \in Nat \ {0}
    PROVE  /\ WritesAt(n)  => Written(n) = Written(n - 1) + 1
           /\ ~WritesAt(n) => Written(n) = Written(n - 1)
<1>1. IsFiniteSet(WritesBy(n - 1)) /\ n \notin WritesBy(n - 1)
  BY WrittenType DEF WritesBy
<1>2. WritesAt(n) => WritesBy(n) = WritesBy(n - 1) \cup {n}
  BY DEF WritesBy
<1>3. ~WritesAt(n) => WritesBy(n) = WritesBy(n - 1)
  BY DEF WritesBy
<1> QED BY <1>1, <1>2, <1>3, FS_AddElement DEF Written

(* The places of the writes are in the order of the calls.                 *)
LEMMA WrittenOrder ==
    ASSUME NEW d \in Nat, NEW i \in Nat \ {0}, WritesAt(i)
    PROVE  Written(i) <= Written(d) <=> i <= d
<1>1. ASSUME NEW a \in Nat, NEW b \in Nat, a <= b PROVE Written(a) <= Written(b)
  <2>1. WritesBy(a) \subseteq WritesBy(b)
    BY <1>1 DEF WritesBy
  <2> QED BY <2>1, WrittenType, FS_Subset DEF Written
<1>2. ASSUME d < i PROVE Written(d) < Written(i)
  <2>1. Written(d) <= Written(i - 1)
    BY <1>1, <1>2
  <2> QED BY <2>1, WrittenNext, WrittenType
<1> QED BY <1>1, <1>2, WrittenType

(* Two calls of open are one.                                              *)
LEMMA OneOpen ==
    ASSUME TypeInv, OpensOnce, NEW i \in DOMAIN program, NEW j \in DOMAIN program,
           program[i].call = "open", program[j].call = "open"
    PROVE  i = j
<1> DEFINE S == {k \in DOMAIN program : program[k].call = "open"}
<1>1. DOMAIN program = 1..Len(program) /\ Len(program) \in Nat
  BY ProgramType, ProgramsAssumption DEF TypeInv
<1>2. IsFiniteSet(S)
  <2>1. IsFiniteSet(1..Len(program)) /\ S \subseteq 1..Len(program)
    BY <1>1, FS_Interval
  <2> QED BY <2>1, FS_Subset
<1>3. Cardinality(S) <= 1 /\ S # {}
  BY DEF OpensOnce
<1> HIDE DEF S
<1>4. Cardinality(S) = 1
  BY <1>2, <1>3, FS_CardinalityType, FS_EmptySet
<1>5. PICK x : S = {x}
  BY <1>2, <1>4, FS_Singleton
<1> QED BY <1>5 DEF S

(* Nothing is written before the open, and nothing is open.                *)
LEMMA BeforeOpen ==
    ASSUME TypeInv, OpensOnce, NEW o \in DOMAIN program, program[o].call = "open"
    PROVE  ~IsOpenAt(o) /\ Written(o) = 0
<1>1. DOMAIN program = 1..Len(program) /\ Len(program) \in Nat
  BY ProgramType, ProgramsAssumption DEF TypeInv
<1>2. \A i \in 1..o : ~IsOpenAt(i)
  <2> SUFFICES ASSUME NEW i \in 1..o, NEW j \in 1..i - 1, program[j].call = "open" PROVE FALSE
    BY DEF IsOpenAt
  <2>1. j \in DOMAIN program /\ j # o
    BY <1>1
  <2> QED BY <2>1, OneOpen
<1>3. WritesBy(o) = {}
  BY <1>2 DEF WritesBy, WritesAt
<1> QED BY <1>1, <1>2, <1>3, FS_EmptySet DEF Written

----------------------------------------------------------------------------
(* The guest's file, when KVM leaves RIP at the HLT                        *)

(* A restored guest makes no call: its STAR and LSTAR are those of a reset.*)
NoFile == \A k \in Fds : fds[k].kind # "file"

RestoredCallsNothing ==
    /\ stage \notin {"run", "saving", "dumping"} => msrs = "reset" /\ NoFile
    /\ stage \in {"stack", "boot", "app", "saving", "dumping"} => bin = "save"
    /\ bin = "restore" /\ stage = "run" =>
          msrs = "reset" /\ regs.rip \in {"sysret", "user", "zero"}

(* The calls that are complete, the one whose result is in RAX included.   *)
CallsDone      == IF regs.rip = "sysret" THEN regs.next ELSE regs.next - 1
AtResult(call) == regs.rip = "sysret" /\ program[regs.next].call = call

(* The guest's own descriptor is the only one that is open on its file.    *)
IsOnly(k) == /\ AtResult("open")  => k = regs.rax
             /\ ~AtResult("close")
             /\ ~AtResult("open") => k = mem.fd /\ IsOpenAt(regs.next)

(* It is behind the last write that the guest has made, and the file has   *)
(* all of them.                                                            *)
Deployed   == bin = "save" /\ stage = "run"
PositionAt == Deployed => \A k \in Fds : fds[k].kind = "file" =>
                              fds[k].pos = Written(CallsDone) /\ IsOnly(k)
FileCovers == Deployed \/ stage \in {"saving", "dumping"} =>
                  (mem.fd # -1 => Len(file) >= Written(CallsDone))

WritesInv == PositionAt /\ FileCovers /\ FileIsRunPrefix /\ FileCoversImage

WInv == FInv /\ RestoredCallsNothing /\ (OpensOnce => WritesInv)

LEMMA RestoredInit == Init => RestoredCallsNothing
BY DEF Init, RestoredCallsNothing, NoFile, NoFds, Free

LEMMA RestoredNext ==
    ASSUME ~KvmSkipsHlt, FInv, RestoredCallsNothing, [Next]_vars
    PROVE  RestoredCallsNothing'
<1>a. /\ regs \in RegFiles /\ fds \in [Fds -> Descriptors]
      /\ TypeInv /\ IInv /\ bin \in {"save", "restore"}
  BY DEF FInv, IInv, TypeInv, TypeOK
<1>1. CASE UNCHANGED vars
  BY <1>1 DEF vars, RestoredCallsNothing, NoFile
<1>2. CASE CreateVm
  <2>1. NoFile'
    BY <1>2, <1>a DEF CreateVm, RestoredCallsNothing, NoFile, Opened
  <2> QED BY <1>2, <2>1 DEF CreateVm, RestoredCallsNothing, cpu
<1>3. ASSUME NEW k \in {"vcpu", "elf"}, Install(k), NoFile PROVE NoFile'
  BY <1>3, <1>a DEF Install, NoFile, Opened
<1>4. CASE CreateBootstrap
  BY <1>3, <1>4 DEF CreateBootstrap, RestoredCallsNothing, cpu
<1>5. CASE AddMemory \/ CreateStack
  BY <1>5 DEF AddMemory, CreateStack, RestoredCallsNothing, NoFile, cpu
<1>6. CASE LoadBoot \/ LoadApp
  BY <1>3, <1>6 DEF LoadBoot, LoadApp, RestoredCallsNothing, cpu
<1>7. CASE Launch
  BY <1>7 DEF Launch, RestoredCallsNothing
<1>8. CASE Restore
  <2>1. regs'.rip = "sysret"
    BY <1>8, <1>a DEF Restore, IInv, ImageIsResumable
  <2> QED BY <1>8, <2>1 DEF Restore, RestoredCallsNothing
<1>9. ASSUME NEW how, End(how) PROVE RestoredCallsNothing'
  BY <1>9 DEF End, RestoredCallsNothing, NoFile, NoFds, Free
<1>10. CASE RestoreFails \/ SetupOrRunFails \/ Shutdown \/ DumpOpenFails \/ Dump \/ Killed
  BY <1>9, <1>10 DEF RestoreFails, SetupOrRunFails, Shutdown, DumpOpenFails, Dump, Killed
<1>11. CASE DumpOpen
  BY <1>11 DEF DumpOpen, RestoredCallsNothing, cpu
<1>12. CASE BootProtected \/ BootLong
  BY <1>12 DEF BootProtected, BootLong, Running, RestoredCallsNothing
<1>13. CASE BootUser
  BY <1>13, <1>a DEF BootUser, Running, RestoredCallsNothing
<1>14. CASE GuestSyscall \/ GuestSysret
  BY <1>14, <1>a DEF GuestSyscall, GuestSysret, Running, RestoredCallsNothing, RegFiles
<1>15. CASE GuestHlt \/ GuestFault
  BY <1>15, <1>a DEF GuestHlt, GuestFault, Running, RestoredCallsNothing, RegFiles, cpu
(* Only a guest that was not restored is at a HLT.                         *)
<1>16. ASSUME NEW call, Serving(call) PROVE bin = "save" /\ stage = "run"
  BY <1>16, <1>a DEF Serving, IInv, TrapAtHlt, RestoredCallsNothing
<1>17. CASE SysWrite \/ SysOpen \/ SysClose \/ SysUnserved
  BY <1>16, <1>17 DEF SysWrite, SysOpen, SysClose, SysUnserved, Resume, RestoredCallsNothing
<1>18. CASE SysSave \/ SysExit
  BY <1>16, <1>18 DEF SysSave, SysExit, StopVm, RestoredCallsNothing
<1> QED BY <1>1, <1>2, <1>4, <1>5, <1>6, <1>7, <1>8, <1>10, <1>11, <1>12, <1>13, <1>14,
           <1>15, <1>17, <1>18
        DEF Next, Setup, Guest, Serve

LEMMA SameWrites ==
    ASSUME UNCHANGED program
    PROVE  /\ OpensOnce' <=> OpensOnce
           /\ \A n : /\ WritesBy(n)' = WritesBy(n) /\ Written(n)' = Written(n)
                     /\ IsOpenAt(n)' <=> IsOpenAt(n)
<1>1. \A n : IsOpenAt(n)' <=> IsOpenAt(n)
  BY DEF IsOpenAt
<1>2. \A n : WritesAt(n)' <=> WritesAt(n)
  BY <1>1 DEF WritesAt
<1>3. \A n : WritesBy(n)' = WritesBy(n)
  BY <1>2 DEF WritesBy
<1> QED BY <1>1, <1>3 DEF Written, OpensOnce

LEMMA PrefixSame == ASSUME FileIsRunPrefix, UNCHANGED <<program, file>> PROVE FileIsRunPrefix'
BY SameWrites DEF FileIsRunPrefix

LEMMA CoversSame ==
    ASSUME TypeInv, FileCoversImage, UNCHANGED program, image' \in {image, NoImage},
           Len(file') \in Nat, Len(file') >= Len(file)
    PROVE  FileCoversImage'
<1>1. CASE image' = NoImage
  BY <1>1 DEF FileCoversImage
<1>2. CASE image' = image /\ image # NoImage
  <2>1. image.regs.next \in Nat
    BY <1>2 DEF TypeInv, TypeOK, VmStates, RegFiles
  <2>2. Written(image.regs.next) \in Nat /\ Len(file) \in Nat
    BY <2>1, WrittenType, FdsType
  <2>3. IsOpenAt(image.regs.next)' <=> IsOpenAt(image.regs.next)
    BY <1>2 DEF IsOpenAt
  <2>4. Written(image.regs.next)' = Written(image.regs.next)
    BY <1>2 DEF Written, WritesBy, WritesAt, IsOpenAt
  <2> QED BY <1>2, <2>2, <2>4, SameWrites DEF FileCoversImage
<1> QED BY <1>1, <1>2

(* A call that does not write to the file is not counted.                  *)
LEMMA NotCounted ==
    ASSUME TypeInv, ~WritesAt(regs.next)
    PROVE  Written(regs.next) = Written(regs.next - 1)
<1>1. regs.next \in Nat \ {0}
  BY DEF TypeInv, TypeOK, RegFiles
<1> QED BY <1>1, WrittenNext

(* Nothing has been written.                                               *)
LEMMA NothingYet == ASSUME TypeInv, file = <<>> PROVE FileIsRunPrefix
<1>1. Len(program) \in Nat /\ Len(file) = 0
  BY ProgramType
<1>2. WritesBy(0) = {}
  BY DEF WritesBy
<1>3. Written(0) = 0
  BY <1>2, FS_EmptySet DEF Written
<1> QED BY <1>1, <1>2, <1>3 DEF FileIsRunPrefix

LEMMA WInvInit == Init => WInv
<1> SUFFICES ASSUME Init PROVE WInv
  OBVIOUS
<1>1. FInv /\ TypeInv /\ RestoredCallsNothing
  BY FInvInit, RestoredInit DEF FInv, IInv
<1>2. PositionAt /\ FileCovers /\ FileCoversImage
  BY DEF Init, PositionAt, FileCovers, Deployed, FileCoversImage
<1>3. FileIsRunPrefix
  BY <1>1, NothingYet DEF Init
<1> QED BY <1>1, <1>2, <1>3 DEF WInv, WritesInv

(* The file after a write of the guest to its place.                       *)
LEMMA PutAtPlace ==
    ASSUME TypeInv, OpensOnce, FileIsRunPrefix, WritesAt(regs.next), UNCHANGED program,
           Written(regs.next - 1) <= Len(file),
           file' = Put(file, Written(regs.next - 1), program[regs.next].buf)
    PROVE  FileIsRunPrefix'
<1> DEFINE n == regs.next
           p == Written(n - 1)
           b == program[n].buf
<1>a. program \in Seq([call : Calls, buf : Nat])
  BY ProgramsAssumption DEF TypeInv
<1>b. n \in Nat \ {0} /\ Len(file) \in Nat /\ file \in Seq(Buffers)
  BY FdsType DEF TypeInv, TypeOK, RegFiles
<1>1. /\ n \in Nat \ {0} /\ n \in DOMAIN program
      /\ DOMAIN program = 1..Len(program) /\ Len(program) \in Nat
      /\ Len(file) \in Nat /\ file \in Seq(Buffers)
  BY <1>a, <1>b, ProgramType
<1>2. p \in Nat /\ Written(n) = p + 1 /\ p <= Len(file)
  <2>1. n - 1 \in Nat
    BY <1>1
  <2>2. p \in Nat
    BY <2>1, WrittenType
  <2>3. Written(n) = p + 1
    BY <1>1, WrittenNext
  <2> QED BY <2>2, <2>3
<1>3. PICK d \in 0..Len(program) : /\ Len(file) = Written(d)
                                   /\ \A i \in WritesBy(d) : file[Written(i)] = program[i].buf
  BY DEF FileIsRunPrefix
<1>4. file' = Put(file, p, b)
  OBVIOUS
<1> HIDE DEF p, b
<1>5. ASSUME NEW i \in Nat \ {0}, WritesAt(i)
      PROVE  Written(i) \in Nat /\ (Written(i) <= Written(d) <=> i <= d)
  <2>1. d \in Nat /\ i \in Nat
    BY <1>1, <1>3
  <2> QED BY <1>5, <2>1, WrittenOrder, WrittenType
<1>6. \A i, k : i \in WritesBy(k) <=> i \in 1..k /\ WritesAt(i)
  BY DEF WritesBy
(* The file grows by this write.                                           *)
<1>7. CASE p = Len(file)
  <2>1. Max({Len(file), p + 1}) = p + 1
    BY <1>1, <1>2, <1>7, MaxPair
  <2>2. file' = [i \in 1..p + 1 |-> IF i = p + 1 THEN b ELSE file[i]]
    BY <1>4, <2>1 DEF Put
  <2>3. Len(file') = Written(n)
    BY <1>2, <2>2
  <2>4. ASSUME NEW i \in WritesBy(n) PROVE file'[Written(i)] = program[i].buf
    <3>1. i \in 1..n /\ WritesAt(i) /\ i \in Nat \ {0}
      BY <1>1, <1>6
    <3>2. CASE i = n
      BY <1>2, <2>2, <3>2 DEF b
    <3>3. CASE i # n
      <4>1. i <= n - 1 /\ n - 1 \in Nat
        BY <1>1, <3>1, <3>3
      <4>2. Written(i) <= p /\ Written(i) \in Nat
        BY <3>1, <4>1, WrittenOrder, WrittenType DEF p
      <4>3. i \in WritesBy(d)
        BY <1>3, <1>5, <1>6, <1>7, <3>1, <4>2
      <4>4. Written(i) # 0
        BY <3>1, WrittenNext, WrittenType
      <4> QED BY <1>2, <1>3, <2>2, <4>2, <4>3, <4>4
    <3> QED BY <3>2, <3>3
  <2>5. n \in 0..Len(program)
    BY <1>1
  <2>6. \E k \in 0..Len(program) : /\ Len(file') = Written(k)
                                   /\ \A i \in WritesBy(k) : file'[Written(i)] = program[i].buf
    BY <2>3, <2>4, <2>5
  <2> QED BY <2>6, SameWrites DEF FileIsRunPrefix
(* Or it is a write of an earlier run, repeated.                           *)
<1>8. CASE p < Len(file)
  <2>1. Max({Len(file), p + 1}) = Len(file)
    BY <1>1, <1>2, <1>8, MaxPair
  <2>2. file' = [i \in 1..Len(file) |-> IF i = p + 1 THEN b ELSE file[i]]
    BY <1>4, <2>1 DEF Put
  <2>3. Written(n) <= Written(d)
    BY <1>1, <1>2, <1>3, <1>8
  <2>4. n \in WritesBy(d)
    BY <1>1, <1>3, <1>5, <1>6, <2>3
  <2>5. file[p + 1] = b
    BY <1>2, <1>3, <2>4 DEF b
  <2>6. file' = file
    BY <1>1, <2>2, <2>5
  <2> QED BY <2>6, PrefixSame
<1> QED BY <1>1, <1>2, <1>7, <1>8

LEMMA ProgramSame == ASSUME [Next]_vars PROVE UNCHANGED program
BY DEF Next, Setup, Guest, Serve, vars, CreateVm, CreateBootstrap, AddMemory, CreateStack,
       LoadBoot, LoadApp, Launch, Restore, RestoreFails, SetupOrRunFails, BootProtected, BootLong,
       BootUser, GuestSyscall, GuestHlt, GuestSysret, GuestFault, SysWrite, SysOpen, SysClose,
       SysUnserved, SysSave, SysExit, Resume, StopVm, Shutdown, DumpOpen, DumpOpenFails, Dump,
       Killed

(* The program still holds its file behind a call that does not close it.  *)
LEMMA StillOpen ==
    ASSUME NEW i \in Nat \ {0}, program[i].call # "close",
           program[i].call = "open" \/ IsOpenAt(i)
    PROVE  IsOpenAt(i + 1)
<1>1. CASE program[i].call = "open"
  <2>1. i \in 1..(i + 1) - 1 /\ \A k \in i..(i + 1) - 1 : k = i
    OBVIOUS
  <2> QED BY <1>1, <2>1 DEF IsOpenAt
<1>2. CASE IsOpenAt(i)
  <2>1. PICK j \in 1..i - 1 : /\ program[j].call = "open"
                              /\ \A k \in j..i - 1 : program[k].call # "close"
    BY <1>2 DEF IsOpenAt
  <2>2. j \in 1..(i + 1) - 1 /\ \A k \in j..(i + 1) - 1 : k = i \/ k \in j..i - 1
    OBVIOUS
  <2> QED BY <2>1, <2>2 DEF IsOpenAt
<1> QED BY <1>1, <1>2

(* Between two calls nothing of this changes.                              *)
LEMMA WritesSame ==
    ASSUME UNCHANGED <<program, bin, stage, mem, fds, file>>, regs'.next = regs.next,
           stage = "run", regs.rip # "sysret", regs'.rip # "sysret", PositionAt, FileCovers
    PROVE  PositionAt' /\ FileCovers'
<1>1. CallsDone' = regs.next - 1 /\ CallsDone = regs.next - 1
  BY DEF CallsDone
<1>2. Written(CallsDone)' = Written(CallsDone)
  BY <1>1 DEF Written, WritesBy, WritesAt, IsOpenAt
<1>3. IsOpenAt(regs.next)' <=> IsOpenAt(regs.next)
  BY DEF IsOpenAt
<1>4. \A k : IsOnly(k)' <=> IsOnly(k)
  BY <1>3 DEF IsOnly, AtResult
<1>5. Deployed' <=> Deployed
  BY DEF Deployed
<1> QED BY <1>2, <1>4, <1>5 DEF PositionAt, FileCovers

(* The result of a call: nothing that the guest writes to the file.        *)
LEMMA ServedSame ==
    ASSUME FInv, NEW call, Serving(call), NEW r, Resume(r), ~WritesAt(regs.next)
    PROVE  /\ regs.rip = "hlt" /\ regs'.rip = "sysret" /\ regs'.rax = r
           /\ regs'.next = regs.next /\ regs.next \in Nat \ {0}
           /\ CallsDone = regs.next - 1 /\ CallsDone' = regs.next
           /\ Written(CallsDone)' = Written(CallsDone)
           /\ (IsOpenAt(regs.next)' <=> IsOpenAt(regs.next))
           /\ \A c : AtResult(c)' <=> c = call
           /\ ~AtResult("open") /\ ~AtResult("close")
<1>1. TypeInv /\ regs \in RegFiles /\ regs.next \in Nat \ {0}
  BY DEF FInv, IInv, TypeInv, TypeOK, RegFiles
<1>2. regs.rip = "hlt" /\ stage = "run"
  BY DEF FInv, IInv, TrapAtHlt, Serving
<1>3. regs'.rip = "sysret" /\ regs'.rax = r /\ regs'.next = regs.next
  BY <1>1, <1>2, Completed DEF Resume, FInv
<1>4. CallsDone = regs.next - 1 /\ CallsDone' = regs.next
  BY <1>2, <1>3 DEF CallsDone
<1>5. UNCHANGED program
  BY DEF Resume
<1>6. Written(regs.next) = Written(regs.next - 1)
  BY <1>1, NotCounted
<1>7. Written(CallsDone)' = Written(regs.next)
  BY <1>4, <1>5 DEF Written, WritesBy, WritesAt, IsOpenAt
<1>8. IsOpenAt(regs.next)' <=> IsOpenAt(regs.next)
  BY <1>3, <1>5 DEF IsOpenAt
<1>9. \A c : AtResult(c)' <=> c = call
  BY <1>3, <1>5 DEF AtResult, Serving
<1> QED BY <1>1, <1>2, <1>3, <1>4, <1>6, <1>7, <1>8, <1>9 DEF AtResult

LEMMA WritesNext ==
    ASSUME ~KvmSkipsHlt, FInv, RestoredCallsNothing, OpensOnce, WritesInv,
           RestoredCallsNothing', FInv', [Next]_vars
    PROVE  WritesInv'
<1>a. /\ TypeInv /\ regs \in RegFiles /\ mem \in Memories /\ fds \in [Fds -> Descriptors]
      /\ regs.next \in Nat \ {0} /\ Len(file) \in Nat
  BY FdsType DEF FInv, IInv, TypeInv, TypeOK, RegFiles
<1>b. UNCHANGED program
  BY ProgramSame
<1>c. PositionAt /\ FileCovers /\ FileIsRunPrefix /\ FileCoversImage
  BY DEF WritesInv
(* The VM is not deployed after the step, and not being saved.             *)
<1>1. ASSUME ~Deployed', stage' \notin {"saving", "dumping"}, file' = file,
             image' \in {image, NoImage}
      PROVE  WritesInv'
  BY <1>1, <1>a, <1>b, <1>c, CoversSame, PrefixSame DEF WritesInv, PositionAt, FileCovers
<1>2. CASE UNCHANGED vars
  <2>1. CallsDone' = CallsDone
    BY <1>2 DEF vars, CallsDone
  <2>2. Written(CallsDone)' = Written(CallsDone)
    BY <1>2, <2>1 DEF vars, Written, WritesBy, WritesAt, IsOpenAt
  <2>3. IsOpenAt(regs.next)' <=> IsOpenAt(regs.next)
    BY <1>2 DEF vars, IsOpenAt
  <2>4. \A k : IsOnly(k)' <=> IsOnly(k)
    BY <1>2, <2>3 DEF vars, IsOnly, AtResult
  <2>5. PositionAt' /\ FileCovers'
    BY <1>2, <1>c, <2>2, <2>4 DEF vars, PositionAt, FileCovers, Deployed
  <2> QED BY <1>2, <1>a, <1>c, <2>5, CoversSame, PrefixSame DEF vars, WritesInv
<1>3. CASE CreateVm \/ CreateBootstrap \/ AddMemory \/ CreateStack \/ LoadBoot \/ LoadApp
  BY <1>1, <1>3
     DEF CreateVm, CreateBootstrap, AddMemory, CreateStack, LoadBoot, LoadApp, Deployed
<1>4. CASE Restore
  BY <1>1, <1>4 DEF Restore, Deployed
<1>5. CASE RestoreFails \/ SetupOrRunFails \/ Shutdown \/ DumpOpenFails
  BY <1>1, <1>5 DEF RestoreFails, SetupOrRunFails, Shutdown, DumpOpenFails, End, Deployed
(* No descriptor is on the file, and no call has been made.                *)
<1>6. CASE Launch
  <2>1. regs = ResetRegs /\ NoFile /\ mem.fd \in -1..MaxFd /\ UNCHANGED <<mem, fds, file, image>>
    BY <1>6, <1>a DEF Launch, FInv, Fresh, RestoredCallsNothing, Memories
  <2>2. regs'.next = 1 /\ regs'.rip = "boot" /\ stage' = "run"
    BY <1>6, <2>1 DEF Launch, ResetRegs
  <2>3. CallsDone' = 0
    BY <2>2 DEF CallsDone
  <2>4. WritesBy(CallsDone)' = {}
    BY <2>3 DEF WritesBy
  <2>5. Written(CallsDone)' = 0
    BY <2>4, FS_EmptySet DEF Written
  <2>6. PositionAt' /\ FileCovers'
    BY <1>a, <2>1, <2>5 DEF PositionAt, FileCovers, NoFile
  <2> QED BY <1>a, <1>b, <1>c, <2>1, <2>6, CoversSame, PrefixSame DEF WritesInv
<1>7. ASSUME Running, UNCHANGED <<bin, stage, mem, fds, file, image>>, regs'.next = regs.next,
             regs.rip # "sysret", regs'.rip # "sysret"
      PROVE  WritesInv'
  <2>1. PositionAt' /\ FileCovers'
    BY <1>7, <1>b, <1>c, WritesSame DEF Running
  <2> QED BY <1>7, <1>a, <1>b, <1>c, <2>1, CoversSame, PrefixSame DEF WritesInv
<1>8. CASE BootProtected \/ BootLong
  BY <1>7, <1>8 DEF BootProtected, BootLong
<1>9. CASE BootUser
  BY <1>7, <1>9, <1>a DEF BootUser, RegFiles
<1>10. CASE GuestSyscall
  BY <1>7, <1>10, <1>a DEF GuestSyscall, RegFiles
<1>11. CASE GuestHlt
  BY <1>7, <1>11, <1>a, LimitsAssumption DEF GuestHlt, RegFiles
<1>12. CASE GuestFault
  BY <1>7, <1>12 DEF GuestFault, cpu
<1>13. CASE GuestSysret
  <2> DEFINE n == regs.next
  <2>1. /\ Running /\ regs.rip = "sysret" /\ regs'.rip = "user"
        /\ regs'.next = IF n = Len(program) THEN n ELSE n + 1
        /\ mem'.fd = IF program[n].call = "open" THEN regs.rax ELSE mem.fd
        /\ UNCHANGED <<program, bin, stage, fds, file, image>>
    BY <1>13, <1>a DEF GuestSysret, RegFiles, Memories
  <2>2. CallsDone = n /\ CallsDone' = regs'.next - 1
    BY <2>1 DEF CallsDone
  <2>3. n = Len(program) => program[n].call = "exit"
    BY <1>a, ProgramsAssumption DEF TypeInv
  <2>4. Written(CallsDone)' = Written(n)
    <3>1. Written(CallsDone)' = Written(regs'.next - 1)
      BY <2>1, <2>2 DEF Written, WritesBy, WritesAt, IsOpenAt
    <3>2. CASE n # Len(program)
      BY <1>a, <2>1, <3>1, <3>2
    <3>3. CASE n = Len(program)
      <4>1. ~WritesAt(n)
        BY <2>3, <3>3 DEF WritesAt
      <4> QED BY <1>a, <2>1, <3>1, <3>3, <4>1, NotCounted
    <3> QED BY <3>2, <3>3
  <2>5. Written(n) \in Nat
    BY <1>a, WrittenType
  <2>6. ASSUME Deployed', NEW k \in Fds, fds'[k].kind = "file"
        PROVE  fds'[k].pos = Written(CallsDone)' /\ IsOnly(k)'
    <3>1. Deployed
      BY <2>1, <2>6 DEF Deployed
    <3>2. fds[k].pos = Written(n) /\ IsOnly(k)
      BY <1>c, <2>1, <2>2, <2>6, <3>1 DEF PositionAt
    <3>3. /\ k = mem'.fd /\ program[n].call # "close"
          /\ program[n].call = "open" \/ IsOpenAt(n)
      BY <2>1, <3>2 DEF IsOnly, AtResult
    <3>4. IsOpenAt(regs.next)'
      <4>1. IsOpenAt(regs.next)' <=> IsOpenAt(regs'.next)
        BY <2>1 DEF IsOpenAt
      <4> QED BY <1>a, <2>1, <2>3, <3>3, <4>1, StillOpen
    <3>5. IsOnly(k)'
      BY <2>1, <3>3, <3>4 DEF IsOnly, AtResult
    <3> QED BY <2>1, <2>4, <3>2, <3>5
  <2>7. FileCovers'
    <3> SUFFICES ASSUME Deployed', mem'.fd # -1 PROVE Len(file') >= Written(CallsDone)'
      BY <2>1 DEF FileCovers, Running
    <3>1. CASE program[n].call = "open"
      <4>1. Written(n) = 0
        BY <1>a, <3>1, BeforeOpen, ProgramType
      <4> QED BY <1>a, <2>1, <2>4, <4>1
    <3>2. CASE program[n].call # "open"
      <4>1. Deployed /\ mem.fd # -1
        BY <2>1, <3>2 DEF Deployed
      <4> QED BY <1>c, <2>1, <2>2, <2>4, <4>1 DEF FileCovers
    <3> QED BY <3>1, <3>2
  <2>8. PositionAt'
    BY <2>6 DEF PositionAt
  <2> QED BY <1>a, <1>c, <2>1, <2>7, <2>8, CoversSame, PrefixSame DEF WritesInv
(* A call is served: the guest was not restored.                           *)
<1>14. ASSUME NEW call, Serving(call)
       PROVE  Deployed /\ regs.rip = "hlt" /\ CallsDone = regs.next - 1
  <2>1. bin \in {"save", "restore"}
    BY <1>a DEF TypeInv, TypeOK
  <2> QED BY <1>14, <2>1
          DEF FInv, IInv, Serving, TrapAtHlt, RestoredCallsNothing, Deployed, CallsDone
<1>15. CASE SysWrite /\ ~IsGuestFile(mem.fd)
  <2>1. Serving("write") /\ Resume(-1) /\ UNCHANGED <<file, fds>>
    BY <1>15 DEF SysWrite
  <2>2. Deployed /\ CallsDone = regs.next - 1 /\ regs.rip = "hlt"
    BY <1>14, <2>1
  <2>3. NoFile
    BY <1>15, <1>c, <2>2 DEF PositionAt, IsOnly, AtResult, NoFile, IsGuestFile
  <2>4. mem.fd # -1 => ~WritesAt(regs.next)
    BY <1>15, <2>2 DEF FInv, Held, OpenHeld, WritesAt, Deployed
  <2>5. PositionAt'
    BY <2>1, <2>3 DEF PositionAt, NoFile
  <2>6. FileCovers'
    <3> SUFFICES ASSUME mem.fd # -1 PROVE Len(file') >= Written(CallsDone)'
      BY <2>1 DEF FileCovers, Resume
    <3>1. Written(CallsDone)' = Written(CallsDone)
      BY <2>1, <2>4, ServedSame
    <3> QED BY <1>c, <2>1, <2>2, <3>1 DEF FileCovers
  <2> QED BY <1>a, <1>b, <1>c, <2>1, <2>5, <2>6, CoversSame, PrefixSame DEF WritesInv, Resume
<1>16. CASE SysWrite /\ IsGuestFile(mem.fd)
  <2> DEFINE n == regs.next
             f == mem.fd
             b == program[n].buf
  <2>1. /\ Serving("write") /\ Resume(1)
        /\ file' = Put(file, fds[f].pos, b)
        /\ fds' = [fds EXCEPT ![f].pos = @ + 1]
        /\ f \in Fds /\ fds[f].kind = "file"
    BY <1>16 DEF SysWrite, IsGuestFile
  <2>2. Deployed /\ CallsDone = n - 1 /\ regs.rip = "hlt"
    BY <1>14, <2>1
  <2>3. \A k \in Fds : fds[k].kind = "file" => fds[k].pos = Written(n - 1) /\ k = f /\ IsOpenAt(n)
    BY <1>c, <2>2 DEF PositionAt, IsOnly, AtResult
  <2>4. WritesAt(n)
    BY <2>1, <2>3 DEF WritesAt, Serving
  <2>5. fds[f].pos = Written(n - 1) /\ Written(n - 1) \in Nat /\ Written(n - 1) <= Len(file)
    BY <1>a, <2>1, <2>3, FdsType
  <2>6. Written(n) = Written(n - 1) + 1
    BY <1>a, <2>4, WrittenNext
  <2>7. FileIsRunPrefix'
    BY <1>a, <1>b, <1>c, <2>1, <2>4, <2>5, PutAtPlace
  <2>8. Len(file') \in Nat /\ Len(file') >= Len(file) /\ Len(file') >= Written(n)
    <3>1. file \in Seq(Buffers) /\ b \in Buffers
      BY <1>a, ProgramType DEF TypeInv, TypeOK
    <3>2. fds[f].pos \in 0..Len(file)
      BY <1>a, <2>5
    <3>3. /\ file' \in Seq(Buffers) /\ Len(file') >= Len(file) /\ Len(file') > fds[f].pos
      BY <2>1, <3>1, <3>2, PutType
    <3> QED BY <1>a, <2>5, <2>6, <3>3
  <2>9. /\ regs'.rip = "sysret" /\ regs'.next = n /\ mem' = mem /\ image' = image
        /\ program'[n].call = "write"
    BY <1>16, <2>1, Completed DEF FInv, Resume
  <2>10. Written(CallsDone)' = Written(n) /\ (IsOpenAt(regs.next)' <=> IsOpenAt(n))
    <3>1. CallsDone' = n
      BY <2>9 DEF CallsDone
    <3> QED BY <1>b, <2>9, <3>1 DEF Written, WritesBy, WritesAt, IsOpenAt
  <2>11. \A k \in Fds : fds'[k] = IF k = f THEN [fds[f] EXCEPT !.pos = @ + 1] ELSE fds[k]
    BY <1>a, <2>1
  <2>12. fds[f] \in Descriptors
    BY <1>a, <2>1
  <2>13. fds'[f].pos = fds[f].pos + 1
    BY <2>1, <2>11, <2>12 DEF Descriptors
  <2>14. \A k \in Fds \ {f} : fds'[k].kind # "file"
    BY <2>3, <2>11
  <2>15. PositionAt'
    <3>1. fds'[f].pos = Written(CallsDone)'
      BY <2>5, <2>6, <2>10, <2>13
    <3>2. ASSUME NEW k \in Fds, fds'[k].kind = "file"
          PROVE  fds'[k].pos = Written(CallsDone)' /\ IsOnly(k)'
      <4>1. k = f
        BY <2>14, <3>2
      <4>2. IsOnly(k)'
        BY <2>1, <2>3, <2>9, <2>10, <4>1 DEF IsOnly, AtResult
      <4> QED BY <3>1, <4>1, <4>2
    <3> QED BY <3>2 DEF PositionAt
  <2>16. FileCovers'
    BY <2>8, <2>10 DEF FileCovers
  <2>17. FileCoversImage'
    BY <1>a, <1>b, <1>c, <2>8, <2>9, CoversSame
  <2> QED BY <2>7, <2>15, <2>16, <2>17 DEF WritesInv
<1>17. CASE SysUnserved
  <2>1. Serving("unserved") /\ Resume(1) /\ UNCHANGED <<file, fds>>
    BY <1>17 DEF SysUnserved
  <2>2. Deployed /\ ~WritesAt(regs.next)
    BY <1>14, <2>1 DEF Serving, WritesAt
  <2>3. /\ Written(CallsDone)' = Written(CallsDone)
        /\ IsOpenAt(regs.next)' <=> IsOpenAt(regs.next)
        /\ \A c : AtResult(c)' <=> c = "unserved"
        /\ ~AtResult("open")
    BY <2>1, <2>2, ServedSame
  <2>4. \A k : IsOnly(k) => IsOnly(k)'
    BY <2>1, <2>3 DEF IsOnly, Resume
  <2>5. PositionAt'
    BY <1>c, <2>1, <2>2, <2>3, <2>4 DEF PositionAt
  <2>6. FileCovers'
    BY <1>c, <2>1, <2>2, <2>3 DEF FileCovers, Resume
  <2> QED BY <1>a, <1>b, <1>c, <2>1, <2>5, <2>6, CoversSame, PrefixSame DEF WritesInv, Resume
<1>18. CASE SysClose
  <2>1. PICK r : Serving("close") /\ Resume(r) /\ UNCHANGED file
    BY <1>18 DEF SysClose
  <2>2. Deployed /\ ~WritesAt(regs.next)
    BY <1>14, <2>1 DEF Serving, WritesAt
  <2>3. Written(CallsDone)' = Written(CallsDone) /\ ~AtResult("open")
    BY <2>1, <2>2, ServedSame
  <2>4. ASSUME NEW k \in Fds, fds'[k].kind = "file" PROVE FALSE
    <3>1. CASE mem.fd \in Fds /\ fds[mem.fd].kind # "free"
      <4>1. fds' = [fds EXCEPT ![mem.fd] = Free]
        BY <1>18, <3>1 DEF SysClose
      <4>2. k # mem.fd /\ fds[k].kind = "file"
        BY <1>a, <2>4, <3>1, <4>1 DEF Free
      <4> QED BY <1>c, <2>2, <2>3, <4>2 DEF PositionAt, IsOnly
    <3>2. CASE ~(mem.fd \in Fds /\ fds[mem.fd].kind # "free")
      <4>1. fds' = fds
        BY <1>18, <3>2 DEF SysClose
      <4> QED BY <1>c, <2>2, <2>3, <2>4, <3>2, <4>1 DEF PositionAt, IsOnly
    <3> QED BY <3>1, <3>2
  <2>5. PositionAt'
    BY <2>4 DEF PositionAt
  <2>6. FileCovers'
    BY <1>c, <2>1, <2>2, <2>3 DEF FileCovers, Resume
  <2> QED BY <1>a, <1>b, <1>c, <2>1, <2>5, <2>6, CoversSame, PrefixSame DEF WritesInv, Resume
<1>19. CASE SysOpen
  <2>1. PICK r : Serving("open") /\ Resume(r) /\ UNCHANGED file
    BY <1>19 DEF SysOpen
  <2>2. Deployed /\ ~WritesAt(regs.next) /\ program[regs.next].call = "open"
    BY <1>14, <2>1 DEF Serving, WritesAt
  <2>3. ~IsOpenAt(regs.next) /\ Written(regs.next) = 0
    BY <1>a, <2>2, BeforeOpen, ProgramType
  <2>4. /\ Written(CallsDone)' = 0
        /\ \A c : AtResult(c)' <=> c = "open"
        /\ ~AtResult("open")
        /\ regs'.rax = r
    <3>1. /\ Written(CallsDone)' = Written(CallsDone) /\ CallsDone = regs.next - 1
          /\ \A c : AtResult(c)' <=> c = "open"
          /\ ~AtResult("open")
          /\ regs'.rax = r
      BY <2>1, <2>2, ServedSame
    <3> QED BY <1>a, <2>2, <2>3, <3>1, NotCounted
  <2>5. NoFile
    BY <1>c, <2>2, <2>3, <2>4 DEF PositionAt, IsOnly, NoFile
  <2>6. ASSUME NEW k \in Fds, fds'[k].kind = "file" PROVE fds'[k].pos = 0 /\ k = regs'.rax
    <3>1. CASE Install("file") /\ Resume(NewFd)
      <4>1. regs'.rax = NewFd
        BY <2>1, <2>2, <3>1, ServedSame
      <4>2. fds' = [fds EXCEPT ![NewFd] = Opened("file")] /\ NewFd \in Fds
        BY <1>a, <3>1, InstalledFile
      <4>3. k = NewFd
        BY <1>a, <2>5, <2>6, <4>2 DEF NoFile
      <4> QED BY <1>a, <4>1, <4>2, <4>3 DEF Opened
    <3>2. CASE UNCHANGED fds
      BY <2>5, <2>6, <3>2 DEF NoFile
    <3> QED BY <1>19, <3>1, <3>2 DEF SysOpen
  <2>7. PositionAt'
    BY <2>4, <2>6 DEF PositionAt, IsOnly
  <2>8. FileCovers'
    BY <1>a, <2>1, <2>4 DEF FileCovers
  <2> QED BY <1>a, <1>b, <1>c, <2>1, <2>7, <2>8, CoversSame, PrefixSame DEF WritesInv, Resume
<1>20. CASE SysSave \/ SysExit
  <2>1. PICK call \in {"save", "exit"} : Serving(call) /\ StopVm
    BY <1>20 DEF SysSave, SysExit
  <2>2. Deployed /\ ~WritesAt(regs.next) /\ CallsDone = regs.next - 1
    BY <1>14, <2>1 DEF Serving, WritesAt
  <2>3. regs'.rip = "sysret" /\ regs'.next = regs.next
    BY <2>1, Completed DEF FInv, StopVm
  <2>4. Written(CallsDone)' = Written(CallsDone)
    <3>1. CallsDone' = regs.next
      BY <2>3 DEF CallsDone
    <3>2. Written(CallsDone)' = Written(regs.next)
      BY <1>b, <3>1 DEF Written, WritesBy, WritesAt, IsOpenAt
    <3> QED BY <1>a, <2>2, <3>2, NotCounted
  <2>5. PositionAt' /\ FileCovers'
    BY <1>c, <2>1, <2>2, <2>4 DEF StopVm, PositionAt, FileCovers, Deployed
  <2> QED BY <1>a, <1>b, <1>c, <2>1, <2>5, CoversSame, PrefixSame DEF WritesInv, StopVm
<1>21. CASE DumpOpen
  <2>1. /\ UNCHANGED <<mem, file>> /\ regs' = regs
        /\ stage = "saving" /\ stage' = "dumping" /\ image' = NoImage
    BY <1>21 DEF DumpOpen, cpu
  <2>2. CallsDone' = CallsDone
    BY <1>b, <2>1 DEF CallsDone
  <2>3. Written(CallsDone)' = Written(CallsDone)
    BY <1>b, <2>2 DEF Written, WritesBy, WritesAt, IsOpenAt
  <2>4. PositionAt' /\ FileCovers'
    BY <1>c, <2>1, <2>3 DEF PositionAt, FileCovers, Deployed
  <2> QED BY <1>a, <1>b, <1>c, <2>1, <2>4, CoversSame, PrefixSame DEF WritesInv
(* The new image is of a VM whose writes are all in the file.              *)
<1>22. CASE (Dump \/ Killed) /\ image' \in {image, NoImage}
  BY <1>1, <1>22 DEF Dump, Killed, End, Deployed
<1>23. CASE (Dump \/ Killed) /\ image' \notin {image, NoImage}
  <2>1. stage = "dumping" /\ image' = SavedVm /\ stage' = "off" /\ file' = file
    BY <1>23 DEF Dump, Killed, End
  <2>2. regs.rip = "sysret"
    BY <2>1 DEF FInv, IInv, Stopped, Resumable, SavedVm
  <2>3. image'.regs = regs /\ image'.mem = mem
    BY <2>1 DEF SavedVm
  <2>4. Written(image.regs.next)' = Written(regs.next)
    BY <1>b, <2>3 DEF Written, WritesBy, WritesAt, IsOpenAt
  <2>5. FileCoversImage'
    BY <1>c, <2>1, <2>2, <2>3, <2>4 DEF FileCovers, CallsDone, FileCoversImage
  <2>6. PositionAt' /\ FileCovers'
    BY <2>1 DEF PositionAt, FileCovers, Deployed
  <2> QED BY <1>b, <1>c, <2>1, <2>5, <2>6, PrefixSame DEF WritesInv
<1> QED BY <1>2, <1>3, <1>4, <1>5, <1>6, <1>8, <1>9, <1>10, <1>11, <1>12, <1>13, <1>15, <1>16,
           <1>17, <1>18, <1>19, <1>20, <1>21, <1>22, <1>23
        DEF Next, Setup, Guest, Serve

LEMMA WInvNext == ASSUME ~KvmSkipsHlt, WInv, [Next]_vars PROVE WInv'
<1>1. FInv' /\ RestoredCallsNothing'
  BY FInvNext, RestoredNext DEF WInv
<1>2. OpensOnce' <=> OpensOnce
  BY ProgramSame, SameWrites
<1> QED BY <1>1, <1>2, WritesNext DEF WInv

LEMMA WInvHolds ==
    ASSUME ~KvmSkipsHlt
    PROVE  Spec => [](DeployedGuestKeepsFile /\ FileIsRunPrefix /\ FileCoversImage)
<1>1. WInv /\ [Next]_vars => WInv'
  BY WInvNext
<1>2. WInv => DeployedGuestKeepsFile
  BY DEF WInv, FInv, Held, OpenHeld, HoldsFile, DeployedGuestKeepsFile
<1>3. WInv => FileIsRunPrefix /\ FileCoversImage
  BY DEF WInv, WritesInv, FileIsRunPrefix, FileCoversImage
<1> QED BY <1>1, <1>2, <1>3, WInvInit, PTL DEF Spec

----------------------------------------------------------------------------
(* The guest's file, when KVM skips the HLT                                *)

(* The first call that the VMM serves for a guest sets RIP inside the      *)
(* SYSRET: no guest ever has the result of a call.                         *)
NoResult ==
    /\ TypeInv
    /\ trap = "hlt" => stage = "run" /\ regs.rip = "sysret"
    /\ regs.rip = "sysret" => trap = "hlt"
    /\ stage \in {"saving", "dumping"} => regs.rip = "inside"
    /\ mem.fd = -1
    /\ image # NoImage => image.regs.rip = "inside" /\ image.mem.fd = -1
    /\ file = <<>>

LEMMA NoResultInit == Init => NoResult
BY TypeInit DEF Init, NoResult, ResetRegs, EmptyMem

LEMMA NoResultNext == ASSUME KvmSkipsHlt, NoResult, [Next]_vars PROVE NoResult'
<1>0. TypeInv' /\ TypeInv
  BY TypeNext DEF NoResult
<1>a. regs \in RegFiles /\ mem \in Memories /\ mem.fd \notin Fds
  <2>1. regs \in RegFiles /\ mem \in Memories
    BY <1>0 DEF TypeInv, TypeOK
  <2>2. mem.fd = -1 /\ MaxFd \in Nat
    BY LimitsAssumption DEF NoResult
  <2> QED BY <2>1, <2>2 DEF Fds
<1> USE <1>0 DEF NoResult
<1>1. CASE UNCHANGED vars
  BY <1>1 DEF vars
<1>2. CASE CreateVm \/ CreateBootstrap \/ AddMemory
  BY <1>2 DEF CreateVm, CreateBootstrap, AddMemory, cpu, EmptyMem
<1>3. CASE CreateStack \/ LoadBoot \/ LoadApp
  BY <1>3, <1>a DEF CreateStack, LoadBoot, LoadApp, cpu, Memories
<1>4. CASE Launch \/ Restore
  BY <1>4, <1>a DEF Launch, Restore, RegFiles
<1>5. ASSUME NEW how, End(how), file' = file, image' \in {image, NoImage, SavedVm},
             image' = SavedVm => image' = image \/ stage = "dumping"
      PROVE  NoResult'
  BY <1>5 DEF End, ResetRegs, EmptyMem, SavedVm
<1>6. CASE RestoreFails \/ SetupOrRunFails \/ Shutdown \/ DumpOpenFails
  BY <1>5, <1>6 DEF RestoreFails, SetupOrRunFails, Shutdown, DumpOpenFails
<1>7. CASE Dump \/ Killed
  BY <1>5, <1>7 DEF Dump, Killed
<1>8. CASE DumpOpen
  BY <1>8 DEF DumpOpen, cpu
<1>9. CASE BootProtected \/ BootLong \/ BootUser \/ GuestSyscall \/ GuestHlt \/ GuestFault
  BY <1>9, <1>a
     DEF BootProtected, BootLong, BootUser, GuestSyscall, GuestHlt, GuestFault, Running,
         RegFiles, cpu
<1>10. CASE GuestSysret
  BY <1>10 DEF GuestSysret, Running
<1>11. ASSUME NEW call, Serving(call), NEW r, Complete(r) PROVE regs'.rip = "inside"
  BY <1>11, <1>a DEF Serving, Complete, Advance, RegFiles
<1>12. CASE SysWrite \/ SysOpen \/ SysClose \/ SysUnserved
  <2>1. file' = file
    BY <1>12, <1>a DEF SysWrite, SysOpen, SysClose, SysUnserved, IsGuestFile
  <2>2. PICK call, r : Serving(call) /\ Resume(r)
    BY <1>12 DEF SysWrite, SysOpen, SysClose, SysUnserved
  <2> QED BY <1>11, <2>1, <2>2 DEF Resume
<1>13. CASE SysSave \/ SysExit
  BY <1>11, <1>13 DEF SysSave, SysExit, StopVm
<1> QED BY <1>1, <1>2, <1>3, <1>4, <1>6, <1>7, <1>8, <1>9, <1>10, <1>12, <1>13
        DEF Next, Setup, Guest, Serve

LEMMA NoResultHolds ==
    ASSUME KvmSkipsHlt
    PROVE  Spec => [](DeployedGuestKeepsFile /\ FileIsRunPrefix /\ FileCoversImage)
<1>1. NoResult /\ [Next]_vars => NoResult'
  BY NoResultNext
<1>2. NoResult => DeployedGuestKeepsFile /\ FileIsRunPrefix /\ FileCoversImage
  BY NothingYet DEF NoResult, DeployedGuestKeepsFile, HoldsFile, FileCoversImage
<1> QED BY <1>1, <1>2, NoResultInit, PTL DEF Spec

----------------------------------------------------------------------------
(* The guest's file                                                        *)

LEMMA FileHolds == Spec => [](DeployedGuestKeepsFile /\ FileIsRunPrefix /\ FileCoversImage)
<1>1. CASE KvmSkipsHlt
  BY <1>1, NoResultHolds
<1>2. CASE ~KvmSkipsHlt
  BY <1>2, WInvHolds
<1> QED BY <1>1, <1>2

(* While a guest that was not restored holds its file, its descriptor is   *)
(* the file's, for every program, every limit on descriptors and whatever  *)
(* KVM does with RIP at a HLT (syscall_handler.c:39, 45, 49).              *)
THEOREM DescriptorTheorem == Spec => []DeployedGuestKeepsFile
BY FileHolds, PTL

(* The guest's file is the beginning of what one run of the program        *)
(* writes, for every program that opens it once, after any number of       *)
(* saves, restores, kills and starts (syscall_handler.c:38-45).            *)
THEOREM FilePrefixTheorem == Spec => []FileIsRunPrefix
BY FileHolds, PTL

(* Image and file agree: what the VM in the image has written is in the    *)
(* file, whatever VMMs have done with it since (manager.c:273-312).        *)
THEOREM FileCoversTheorem == Spec => []FileCoversImage
BY FileHolds, PTL

----------------------------------------------------------------------------
(* Refinement                                                              *)

(* Between the truncation of the image and the end of the dump there is no *)
(* image: this is what makes the end of a dump an abstract End.            *)
RInv == TypeInv /\ (stage = "dumping" => image = NoImage)

LEMMA RInvInit == Init => RInv
BY TypeInit DEF Init, RInv

LEMMA RInvNext == RInv /\ [Next]_vars => RInv'
<1> SUFFICES ASSUME RInv, [Next]_vars PROVE RInv'
  OBVIOUS
<1>1. TypeInv'
  BY TypeNext DEF RInv
<1>2. CASE UNCHANGED vars
  BY <1>1, <1>2 DEF RInv, vars
<1>3. CASE CreateVm \/ Setup \/ Killed
  BY <1>1, <1>3 DEF RInv, Setup, CreateVm, CreateBootstrap, AddMemory, CreateStack, LoadBoot,
                    LoadApp, Launch, Restore, RestoreFails, SetupOrRunFails, Killed, End
<1>4. CASE Guest
  BY <1>1, <1>4 DEF RInv, Guest, Running, BootProtected, BootLong, BootUser, GuestSyscall,
                    GuestHlt, GuestSysret, GuestFault
<1>5. CASE Serve
  BY <1>1, <1>5 DEF RInv, Serve, Serving, Resume, StopVm, End, SysWrite, SysOpen, SysClose,
                    SysUnserved, SysSave, SysExit, Shutdown, DumpOpen, DumpOpenFails, Dump
<1> QED BY <1>2, <1>3, <1>4, <1>5 DEF Next

LEMMA SavedType == ASSUME TypeInv' PROVE SavedVm' \in VmStates
BY DEF TypeInv, TypeOK, SavedVm, VmStates

(* What the abstract variables are when the VM is in a mode.               *)
LEMMA MapMode ==
    /\ AbsMode["vmm"] = Mode
    /\ AbsVm["vmm"] = IF Mode = "none" THEN NoImage ELSE SavedVm
    /\ AbsMode' = [AbsMode EXCEPT !["vmm"] = Mode']
    /\ AbsVm' = [AbsVm EXCEPT !["vmm"] = AbsVm'["vmm"]]
    /\ AbsVm'["vmm"] = IF Mode' = "none" THEN NoImage ELSE SavedVm'
    /\ Mode' = Mode => UNCHANGED AbsMode
    /\ Mode' = Mode /\ (Mode = "none" \/ UNCHANGED SavedVm) => UNCHANGED AbsVm
BY DEF AbsMode, AbsVm

LEMMA MapIdle == ASSUME Mode = "none", Mode' = "none", UNCHANGED image
                 PROVE  [CM!Next]_CM!vars
BY MapMode DEF CM!vars

LEMMA MapRun == ASSUME TypeInv', Mode = "live", Mode' = "live", UNCHANGED image
                PROVE  [CM!Next]_CM!vars
BY MapMode, SavedType DEF CM!Next, CM!Run, CM!Change

LEMMA MapEnd ==
    ASSUME NEW how, End(how),
           \/ UNCHANGED image
           \/ stage = "dumping" /\ image = NoImage /\ image' = SavedVm
    PROVE  [CM!Next]_CM!vars
<1>1. Mode' = "none"
  BY DEF End, Mode
<1>2. CASE Mode = "none"
  BY <1>1, <1>2, MapIdle DEF Mode
<1>3. CASE Mode # "none"
  <2>1. stage = "dumping" => Mode = "saving"
    BY DEF Mode
  <2> QED BY <1>1, <1>3, <2>1, MapMode DEF CM!Next, CM!End
<1> QED BY <1>2, <1>3

LEMMA MapStep == ASSUME RInv, RInv', [Next]_vars PROVE [CM!Next]_CM!vars
<1>0. TypeInv'
  BY DEF RInv
<1>1. CASE UNCHANGED vars
  <2>1. UNCHANGED <<Mode, SavedVm, image>>
    BY <1>1 DEF vars, Mode, SavedVm
  <2> QED BY <2>1, MapMode DEF CM!vars
<1>2. CASE CreateVm \/ CreateBootstrap \/ AddMemory \/ CreateStack \/ LoadBoot \/ LoadApp
  BY <1>2, MapIdle DEF CreateVm, CreateBootstrap, AddMemory, CreateStack, LoadBoot, LoadApp, Mode
<1>3. CASE Launch
  <2>1. Mode = "none" /\ Mode' = "live" /\ UNCHANGED image
    BY <1>3 DEF Launch, Mode
  <2> QED BY <1>0, <2>1, MapMode, SavedType DEF CM!Next, CM!Deploy, CM!Change
<1>4. CASE Restore
  <2>1. Mode = "none" /\ Mode' = "live" /\ UNCHANGED image /\ image # NoImage
    BY <1>4 DEF Restore, Mode
  <2>2. SavedVm' = image
    BY <1>4 DEF Restore, SavedVm, RInv, TypeInv, TypeOK, VmStates
  <2> QED BY <2>1, <2>2, MapMode DEF CM!Next, CM!Resume
<1>5. CASE Guest
  <2>1. Mode = "live" /\ Mode' = "live" /\ UNCHANGED image
    BY <1>5 DEF Guest, Running, Mode, BootProtected, BootLong, BootUser, GuestSyscall,
                GuestHlt, GuestSysret, GuestFault
  <2> QED BY <1>0, <2>1, MapRun
<1>6. CASE SysWrite \/ SysOpen \/ SysClose \/ SysUnserved
  <2>1. Mode = "live" /\ Mode' = "live" /\ UNCHANGED image
    BY <1>6 DEF SysWrite, SysOpen, SysClose, SysUnserved, Serving, Resume, Mode
  <2> QED BY <1>0, <2>1, MapRun
<1>7. CASE SysSave \/ SysExit
  <2>1. Mode = "live" /\ Mode' = "saving" /\ UNCHANGED image
    BY <1>7 DEF SysSave, SysExit, Serving, StopVm, Mode
  <2> QED BY <1>0, <2>1, MapMode, SavedType DEF CM!Next, CM!StopToSave, CM!Change
<1>8. CASE DumpOpen
  <2>1. Mode = "saving" /\ Mode' = Mode /\ image' = NoImage /\ UNCHANGED SavedVm
    BY <1>8 DEF DumpOpen, cpu, Mode, SavedVm
  <2> QED BY <2>1, MapMode DEF CM!Next, CM!Discard
<1>9. CASE Dump
  BY <1>9, MapEnd DEF Dump, RInv
<1>10. CASE RestoreFails \/ SetupOrRunFails \/ Shutdown \/ DumpOpenFails
  BY <1>10, MapEnd DEF RestoreFails, SetupOrRunFails, Shutdown, DumpOpenFails
<1>11. CASE Killed
  BY <1>11, MapEnd DEF Killed, RInv
<1> QED BY <1>1, <1>2, <1>3, <1>4, <1>5, <1>6, <1>7, <1>8, <1>9, <1>10, <1>11
        DEF Next, Setup, Serve

(* The VMM, its guest, the calls it serves and the image implement the     *)
(* abstract cold migration, whatever the guest programs are and whether or *)
(* not KVM leaves RIP at the HLT (manager.c:103-138, save.c, restore.c).   *)
THEOREM Refinement == Spec => ImplementsColdMigration
<1>1. Init => CM!Init
  <2> SUFFICES ASSUME Init PROVE CM!Init
    OBVIOUS
  <2>1. Mode = "none" /\ image = NoImage
    BY DEF Init, Mode
  <2> QED BY <2>1 DEF CM!Init, AbsMode, AbsVm
<1>2. RInv /\ RInv' /\ [Next]_vars => [CM!Next]_CM!vars
  BY MapStep
<1> QED BY <1>1, <1>2, RInvInit, RInvNext, PTL DEF Spec, ImplementsColdMigration, CM!Spec
=============================================================================
