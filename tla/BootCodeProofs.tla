--------------------------- MODULE BootCodeProofs ---------------------------
(***************************************************************************)
(* Theorems about BootCode, for every layout of the files, every stack and *)
(* every program: the types of the registers, and that the privilege level *)
(* of the vCPU is that of the code it runs.                                *)
(***************************************************************************)
EXTENDS BootCode, TLAPS

----------------------------------------------------------------------------
(* A HLT that the VMM has not handled yet is that of syscall_handler, and  *)
(* a vCPU that was stopped is one instruction, or with a KVM that skips the*)
(* HLT one byte more, behind it.                                           *)
AfterHlt   == IF KvmSkipsHlt THEN "sysret" ELSE "syscall_handler"
ExitAtCall == /\ vcpu.exit = "hlt" => vcpu.pc = AfterHlt
              /\ vcpu.exit = "stopped" => vcpu.pc = Advance(AfterHlt)

BInv == TypeOK /\ program \in Programs /\ ExitAtCall /\ RingsApart

LEMMA ProgramLength == ASSUME program \in Programs
                       PROVE  Len(program) \in Nat \ {0}
BY ProgramsAssumption

LEMMA BInvInit == Init => BInv
<1> SUFFICES ASSUME Init PROVE BInv
  OBVIOUS
<1>1. vcpu = ResetCpu /\ program \in Programs
  BY DEF Init
<1>2. ResetCpu \in Vcpus
  BY DEF ResetCpu, Vcpus, Segments, Code, NoMsrs, Places, Root
<1> QED BY <1>1, <1>2, ProgramLength DEF BInv, TypeOK, ExitAtCall, RingsApart, ResetCpu, Code

(* What the instructions at a place can do: the vCPU is new and goes on to *)
(* another place, or it is shut down.                                      *)
Steps(to, new) == /\ program' = program
                  /\ \/ vcpu' = [new EXCEPT !.pc = to]
                     \/ vcpu' = [vcpu EXCEPT !.exit = "shutdown"]

LEMMA ExecSteps ==
    \A from, to, allowed, new : Exec(from, to, allowed, new) =>
        vcpu.exit = "none" /\ vcpu.pc = from /\ Steps(to, new)
BY DEF Exec, Steps

(* What they make of the vCPU has its type, and its ring is that of the    *)
(* place they go on to.                                                    *)
LEMMA StepsKeep ==
    ASSUME BInv, NEW to \in Places, NEW new \in Vcpus, Steps(to, new),
           new.next <= Len(program),
           new.exit = "none" \/ (new.exit = "hlt" /\ to = AfterHlt),
           to = "user" <=> new.cs.ring = 3
    PROVE  BInv'
<1>1. program' = program
  BY DEF Steps
<1>2. CASE vcpu' = [new EXCEPT !.pc = to]
  <2>1. /\ vcpu' \in Vcpus /\ vcpu'.next = new.next /\ vcpu'.exit = new.exit
        /\ vcpu'.pc = to /\ vcpu'.cs = new.cs
    BY <1>2 DEF Vcpus
  <2> QED BY <1>1, <2>1 DEF BInv, TypeOK, ExitAtCall, RingsApart
<1>3. CASE vcpu' = [vcpu EXCEPT !.exit = "shutdown"]
  BY <1>1, <1>3 DEF BInv, TypeOK, Vcpus, ExitAtCall, RingsApart
<1> QED BY <1>2, <1>3 DEF Steps

LEMMA BInvNext == BInv /\ [Next]_vars => BInv'
<1> SUFFICES ASSUME BInv, [Next]_vars PROVE BInv'
  OBVIOUS
<1>0. /\ vcpu \in Vcpus /\ vcpu.next <= Len(program) /\ vcpu.next \in Nat \ {0}
      /\ Len(program) \in Nat \ {0}
      /\ vcpu.exit # "shutdown" => (vcpu.pc = "user" <=> vcpu.cs.ring = 3)
  BY ProgramLength DEF BInv, TypeOK, Vcpus, RingsApart
<1>1. CASE UNCHANGED <<program, vcpu>>
  BY <1>1 DEF BInv, TypeOK, ExitAtCall, RingsApart
<1>2. CASE Launch
  <2>1. vcpu' = [vcpu EXCEPT !.pc = "_start"] /\ program' = program /\ vcpu.pc = "reset"
    BY <1>2 DEF Launch
  <2>2. vcpu' \in Vcpus /\ vcpu'.exit = vcpu.exit /\ vcpu'.cs = vcpu.cs /\ vcpu'.pc = "_start"
        /\ vcpu'.next = vcpu.next
    BY <1>0, <2>1 DEF Vcpus, Places, BootPlaces
  <2> QED BY <2>1, <2>2 DEF BInv, TypeOK, ExitAtCall, RingsApart,
            AfterHlt, Advance
(* An instruction of the boot code that does not change CS.                *)
<1>3. ASSUME NEW to \in BootPlaces, NEW new \in Vcpus, Steps(to, new),
             vcpu.exit = "none", vcpu.pc \in BootPlaces,
             new.cs = vcpu.cs /\ new.next = vcpu.next /\ new.exit = vcpu.exit
      PROVE  BInv'
  <2>1. vcpu.pc # "user" /\ to # "user" /\ to \in Places
    BY <1>3 DEF BootPlaces, Places
  <2> QED BY <1>0, <1>3, <2>1, StepsKeep
<1>4. CASE LoadGdt32
  <2> DEFINE new == [vcpu EXCEPT !.gdt = "gdt32"]
  <2>1. new \in Vcpus /\ new.cs = vcpu.cs /\ new.next = vcpu.next /\ new.exit = vcpu.exit
    BY <1>0 DEF Vcpus
  <2> HIDE DEF new
  <2>2. vcpu.exit = "none" /\ vcpu.pc = "_start" /\ Steps("protect", new)
    BY <1>4, ExecSteps DEF LoadGdt32, LoadGdt, new
  <2> QED BY <1>3, <2>1, <2>2 DEF BootPlaces
<1>5. CASE ProtectOn
  <2> DEFINE new == [vcpu EXCEPT !.cr0 = @ \cup {"PE"}]
  <2>1. new \in Vcpus /\ new.cs = vcpu.cs /\ new.next = vcpu.next /\ new.exit = vcpu.exit
    BY <1>0 DEF Vcpus
  <2> HIDE DEF new
  <2>2. vcpu.exit = "none" /\ vcpu.pc = "protect" /\ Steps("jump32", new)
    BY <1>5, ExecSteps DEF ProtectOn, new
  <2> QED BY <1>3, <2>1, <2>2 DEF BootPlaces
(* A far jump: the selector is that of ring 0 in both tables.              *)
<1>6. ASSUME NEW from, NEW to \in BootPlaces, NEW bits, FarJump(from, to, bits)
      PROVE  BInv'
  <2> DEFINE new == [vcpu EXCEPT !.cs = Segment(vcpu.gdt, 8)]
  <2>1. Segment(vcpu.gdt, 8) \in Segments /\ Segment(vcpu.gdt, 8).ring = 0
    BY DEF Segment, Segments, Code
  <2>2. new \in Vcpus /\ new.cs = Segment(vcpu.gdt, 8) /\ new.next = vcpu.next
        /\ new.exit = vcpu.exit
    BY <1>0, <2>1 DEF Vcpus
  <2>3. to # "user" /\ to \in Places
    BY DEF BootPlaces, Places
  <2> HIDE DEF new
  <2>4. vcpu.exit = "none" /\ Steps(to, new)
    BY <1>6, ExecSteps DEF FarJump, new
  <2> QED BY <1>0, <2>1, <2>2, <2>3, <2>4, StepsKeep
<1>7. CASE Jump32 \/ Jump64
  BY <1>6, <1>7 DEF Jump32, Jump64, BootPlaces
<1>8. CASE PaeOn
  <2> DEFINE new == [vcpu EXCEPT !.cr4 = @ \cup {"PAE"}]
  <2>1. new \in Vcpus /\ new.cs = vcpu.cs /\ new.next = vcpu.next /\ new.exit = vcpu.exit
    BY <1>0 DEF Vcpus
  <2> HIDE DEF new
  <2>2. vcpu.exit = "none" /\ vcpu.pc = "main32" /\ Steps("long", new)
    BY <1>8, ExecSteps DEF PaeOn, new
  <2> QED BY <1>3, <2>1, <2>2 DEF BootPlaces
<1>9. CASE LongOn
  <2> DEFINE new == [vcpu EXCEPT !.efer = @ \cup {"LME", "NXE"}]
  <2>1. new \in Vcpus /\ new.cs = vcpu.cs /\ new.next = vcpu.next /\ new.exit = vcpu.exit
    BY <1>0 DEF Vcpus
  <2> HIDE DEF new
  <2>2. vcpu.exit = "none" /\ vcpu.pc = "long" /\ Steps("cr3", new)
    BY <1>9, ExecSteps DEF LongOn, new
  <2> QED BY <1>3, <2>1, <2>2 DEF BootPlaces
<1>10. CASE SetCr3
  <2> DEFINE new == [vcpu EXCEPT !.cr3 = Root]
  <2>1. new \in Vcpus /\ new.cs = vcpu.cs /\ new.next = vcpu.next /\ new.exit = vcpu.exit
    BY <1>0 DEF Vcpus
  <2> HIDE DEF new
  <2>2. vcpu.exit = "none" /\ vcpu.pc = "cr3" /\ Steps("paging", new)
    BY <1>10, ExecSteps DEF SetCr3, new
  <2> QED BY <1>3, <2>1, <2>2 DEF BootPlaces
<1>11. CASE PagingOn
  <2> DEFINE new == [vcpu EXCEPT !.cr0 = @ \cup {"PG"}]
  <2>1. new \in Vcpus /\ new.cs = vcpu.cs /\ new.next = vcpu.next /\ new.exit = vcpu.exit
    BY <1>0 DEF Vcpus
  <2> HIDE DEF new
  <2>2. vcpu.exit = "none" /\ vcpu.pc = "paging" /\ Steps("gdt64", new)
    BY <1>11, ExecSteps DEF PagingOn, new
  <2> QED BY <1>3, <2>1, <2>2 DEF BootPlaces
<1>12. CASE LoadGdt64
  <2> DEFINE new == [vcpu EXCEPT !.gdt = "gdt64"]
  <2>1. new \in Vcpus /\ new.cs = vcpu.cs /\ new.next = vcpu.next /\ new.exit = vcpu.exit
    BY <1>0 DEF Vcpus
  <2> HIDE DEF new
  <2>2. vcpu.exit = "none" /\ vcpu.pc = "gdt64" /\ Steps("jump64", new)
    BY <1>12, ExecSteps DEF LoadGdt64, LoadGdt, new
  <2> QED BY <1>3, <2>1, <2>2 DEF BootPlaces
<1>13. CASE SetStack
  <2> DEFINE new == [vcpu EXCEPT !.sp = StackTop]
  <2>1. new \in Vcpus /\ new.cs = vcpu.cs /\ new.next = vcpu.next /\ new.exit = vcpu.exit
    BY <1>0 DEF Vcpus
  <2> HIDE DEF new
  <2>2. vcpu.exit = "none" /\ vcpu.pc = "main64" /\ Steps("sse", new)
    BY <1>13, ExecSteps DEF SetStack, new
  <2> QED BY <1>3, <2>1, <2>2 DEF BootPlaces
<1>14. CASE SseOn
  <2> DEFINE new == [vcpu EXCEPT !.cr4 = @ \cup {"SSE"}]
  <2>1. new \in Vcpus /\ new.cs = vcpu.cs /\ new.next = vcpu.next /\ new.exit = vcpu.exit
    BY <1>0 DEF Vcpus
  <2> HIDE DEF new
  <2>2. vcpu.exit = "none" /\ vcpu.pc = "sse" /\ Steps("sce", new)
    BY <1>14, ExecSteps DEF SseOn, new
  <2> QED BY <1>3, <2>1, <2>2 DEF BootPlaces
<1>15. CASE SceOn
  <2> DEFINE new == [vcpu EXCEPT !.efer = @ \cup {"SCE"}]
  <2>1. new \in Vcpus /\ new.cs = vcpu.cs /\ new.next = vcpu.next /\ new.exit = vcpu.exit
    BY <1>0 DEF Vcpus
  <2> HIDE DEF new
  <2>2. vcpu.exit = "none" /\ vcpu.pc = "sce" /\ Steps("lstar", new)
    BY <1>15, ExecSteps DEF SceOn, new
  <2> QED BY <1>3, <2>1, <2>2 DEF BootPlaces
<1>16. CASE SetLstar
  <2> DEFINE new == [vcpu EXCEPT !.lstar = "syscall_handler"]
  <2>1. new \in Vcpus /\ new.cs = vcpu.cs /\ new.next = vcpu.next /\ new.exit = vcpu.exit
    BY <1>0 DEF Vcpus
  <2> HIDE DEF new
  <2>2. vcpu.exit = "none" /\ vcpu.pc = "lstar" /\ Steps("star", new)
    BY <1>16, ExecSteps DEF SetLstar, new
  <2> QED BY <1>3, <2>1, <2>2 DEF BootPlaces
<1>17. CASE SetStar
  <2> DEFINE new == [vcpu EXCEPT !.star = [sysret |-> 24, syscall |-> 8]]
  <2>1. new \in Vcpus /\ new.cs = vcpu.cs /\ new.next = vcpu.next /\ new.exit = vcpu.exit
    BY <1>0 DEF Vcpus
  <2> HIDE DEF new
  <2>2. vcpu.exit = "none" /\ vcpu.pc = "star" /\ Steps("vmcall", new)
    BY <1>17, ExecSteps DEF SetStar, new
  <2> QED BY <1>3, <2>1, <2>2 DEF BootPlaces
<1>18. CASE Vmcall
  <2>1. vcpu.exit = "none" /\ vcpu.pc = "vmcall" /\ Steps("enter", vcpu)
    BY <1>18, ExecSteps DEF Vmcall
  <2> QED BY <1>0, <1>3, <2>1 DEF BootPlaces
(* SYSRET, in the boot code and behind a call: ring 3, in the program.     *)
<1>19. UserCs \in Segments /\ UserCs.ring = 3
  <2>1. vcpu.star.sysret \in {0, 24}
    BY <1>0 DEF Vcpus
  <2>2. vcpu.star.sysret + 16 + 3 \in 0..255
    BY <2>1
  <2> QED BY <2>2 DEF UserCs, Code, Segments
<1>20. CASE BootSysret
  <2> DEFINE new == [vcpu EXCEPT !.cs = UserCs]
  <2>1. new \in Vcpus /\ new.cs = UserCs /\ new.next = vcpu.next /\ new.exit = vcpu.exit
    BY <1>0, <1>19 DEF Vcpus
  <2> HIDE DEF new
  <2>2. vcpu.exit = "none" /\ Steps("user", new) /\ "user" \in Places
    BY <1>20, ExecSteps DEF BootSysret, new, Places
  <2> QED BY <1>0, <1>19, <2>1, <2>2, StepsKeep
<1>21. CASE Sysret
  <2> DEFINE k   == IF vcpu.next = Len(program) THEN vcpu.next ELSE vcpu.next + 1
             new == [vcpu EXCEPT !.cs = UserCs, !.next = k]
  <2>1. k \in Nat \ {0} /\ k <= Len(program)
    BY <1>0
  <2>2. vcpu.exit = "none" /\ Steps("user", new)
    BY <1>21, ExecSteps DEF Sysret
  <2> HIDE DEF k
  <2>3. new \in Vcpus /\ new.cs = UserCs /\ new.next = k /\ new.exit = vcpu.exit
    BY <1>0, <1>19, <2>1 DEF Vcpus
  <2>4. "user" \in Places
    BY DEF Places
  <2> HIDE DEF new
  <2> QED BY <1>0, <1>19, <2>1, <2>2, <2>3, <2>4, StepsKeep
(* SYSCALL: ring 0, in syscall_handler or at address 0.                    *)
<1>22. CASE Syscall
  <2> DEFINE cs  == Code(vcpu.star.syscall, 64, 0)
             new == [vcpu EXCEPT !.cs = cs]
  <2>1. cs \in Segments /\ cs.ring = 0
    BY <1>0 DEF Code, Segments, Vcpus
  <2> HIDE DEF cs
  <2>2. new \in Vcpus /\ new.cs = cs /\ new.next = vcpu.next /\ new.exit = vcpu.exit
    BY <1>0, <2>1 DEF Vcpus
  <2>3. vcpu.lstar \in Places /\ vcpu.lstar # "user"
    BY <1>0 DEF Places, Vcpus
  <2> HIDE DEF new
  <2>4. vcpu.exit = "none" /\ Steps(vcpu.lstar, new)
    BY <1>22, ExecSteps DEF Syscall, cs, new
  <2> QED BY <1>0, <2>1, <2>2, <2>3, <2>4, StepsKeep
<1>23. CASE Exec("zero", "zero", FALSE, vcpu)
  <2>1. vcpu.exit = "none" /\ vcpu.pc = "zero" /\ Steps("zero", vcpu)
    BY <1>23, ExecSteps
  <2> QED BY <1>0, <2>1, StepsKeep DEF Places
<1>29. CASE Exec("inside", "inside", FALSE, vcpu)
  <2>1. vcpu.exit = "none" /\ vcpu.pc = "inside" /\ Steps("inside", vcpu)
    BY <1>29, ExecSteps
  <2> QED BY <1>0, <2>1, StepsKeep DEF Places
<1>24. CASE Hlt
  <2> DEFINE new == [vcpu EXCEPT !.exit = "hlt"]
  <2>1. new \in Vcpus /\ new.cs = vcpu.cs /\ new.next = vcpu.next /\ new.exit = "hlt"
    BY <1>0 DEF Vcpus
  <2>2. AfterHlt \in Places /\ AfterHlt # "user"
    BY DEF Places, AfterHlt
  <2> HIDE DEF new
  <2>3. /\ vcpu.exit = "none" /\ vcpu.pc = "syscall_handler"
        /\ Steps(AfterHlt, new)
    BY <1>24, ExecSteps DEF Hlt, new, AfterHlt
  <2> QED BY <1>0, <2>1, <2>2, <2>3, StepsKeep
(* The VMM: the vCPU is at the HLT of syscall_handler, or behind it, in    *)
(* ring 0.                                                                 *)
<1>25. ASSUME NEW r \in {0, 1}, NEW exit \in {"none", "stopped"}, vcpu.exit = "hlt",
              Handled(r, exit)
       PROVE  BInv'
  <2>1. vcpu.pc = AfterHlt
    BY <1>25 DEF BInv, ExitAtCall
  <2>2. Advance(AfterHlt) \in Places \ {"user"} /\ AfterHlt # "user"
    BY DEF Advance, AfterHlt, Places
  <2>3. vcpu' = [vcpu EXCEPT !.pc = Advance(AfterHlt), !.rax = r, !.exit = exit] /\ program' = program
    BY <1>0, <1>25, <2>1 DEF Handled, Vcpus
  <2>4. vcpu' \in Vcpus /\ vcpu'.cs = vcpu.cs /\ vcpu'.pc = Advance(AfterHlt) /\ vcpu'.exit = exit
        /\ vcpu'.next = vcpu.next
    BY <1>0, <2>2, <2>3 DEF Vcpus
  <2> QED BY <1>0, <1>25, <2>1, <2>2, <2>3, <2>4 DEF BInv, TypeOK, ExitAtCall, RingsApart
<1>26. CASE Serve \/ Stop
  BY <1>25, <1>26 DEF Serve, Stop
<1>27. CASE Restore
  <2>1. vcpu' = [vcpu EXCEPT !.star = NoMsrs, !.lstar = "zero", !.exit = "none",
                             !.bin = "restore"] /\ program' = program
    BY <1>27 DEF Restore, ResetCpu
  <2>2. vcpu' \in Vcpus /\ vcpu'.cs = vcpu.cs /\ vcpu'.pc = vcpu.pc /\ vcpu'.exit = "none"
        /\ vcpu'.next = vcpu.next
    BY <1>0, <2>1 DEF Vcpus, NoMsrs
  <2> QED BY <1>0, <1>27, <2>1, <2>2 DEF Restore, BInv, TypeOK, ExitAtCall, RingsApart
<1>28. CASE Load
  BY <1>1, <1>28 DEF Load
<1> QED BY <1>1, <1>2, <1>4, <1>5, <1>7, <1>8, <1>9, <1>10, <1>11, <1>12, <1>13, <1>14,
           <1>15, <1>16, <1>17, <1>18, <1>20, <1>21, <1>22, <1>23, <1>24, <1>26, <1>27, <1>28,
           <1>29
        DEF Next, Boot, Run, Lost, vars

(* The registers of the vCPU keep their types, whatever was loaded.        *)
THEOREM TypeTheorem == Spec => []TypeOK
<1>1. BInv => TypeOK
  BY DEF BInv
<1> QED BY <1>1, BInvInit, BInvNext, PTL DEF Spec

(* The program runs in ring 3 and nothing else does, for every layout of   *)
(* the files, every stack and every program, however often the vCPU is     *)
(* restored (boot.asm:79-87).                                              *)
THEOREM RingsTheorem == Spec => []RingsApart
<1>1. BInv => RingsApart
  BY DEF BInv
<1> QED BY <1>1, BInvInit, BInvNext, PTL DEF Spec
=============================================================================
