------------------------------- MODULE VmImage -------------------------------
(***************************************************************************)
(* The VM image file vm_state.img and the two pipelines that go through    *)
(* it: dump_vm_state and restore_vm_state of lab_3/vm_manager/manager.c,   *)
(* with the stdio stream between them and the file, as run by VMM          *)
(* processes that can be killed at any point.                              *)
(*                                                                         *)
(* The file is cut into cells, in the order the dump functions write them: *)
(* header, regs, sregs, fpu, one cell per page of guest memory, the count  *)
(* of descriptors, the count of pending requests.  Every dump has the same *)
(* layout, so a cell is always at the same offset.  A missing image file   *)
(* and an empty one are the same here: restore_vm_state returns -1 on both.*)
(***************************************************************************)
EXTENDS Integers

CONSTANTS Vmms,        \* VMM processes: the runs of bin/save and bin/restore
          Pages,       \* pages of guest memory (15 in the code, 0xF000 bytes)
          Values,      \* what a register file or a page can contain
          Blank,       \* what a new vCPU and new memory contain
          Hole,        \* the zeros of a hole in a file
          Eof,         \* past the end of the file
          None,        \* no VM, no image (abstract specification)
          Exclusive    \* one VMM at a time, as the Makefile targets run them

ASSUME ConstantsAssumption ==
    /\ Pages \in Nat \ {0}
    /\ Blank \in Values
    /\ Exclusive \in BOOLEAN
    /\ None \notin [2..4 + Pages -> Values]

ASSUME SentinelsAssumption ==
    /\ Hole \notin Values
    /\ Eof \notin Values \cup {Hole, "vmimg", "magic", "version", "size", "zero"}
    /\ Hole \notin {"vmimg", "magic", "version", "size", "zero"}

----------------------------------------------------------------------------
(* Layout of the file                                                      *)

Header     == 1
Regs       == 2
ImageLen   == 6 + Pages
Cells      == 1..ImageLen
StateCells == Regs..4 + Pages      \* regs, sregs, fpu and the memory pages

(* A header with the right magic, version and memory size, or one that     *)
(* restore_vm_state refuses because one of them differs.                   *)
Good    == "vmimg"
Headers == {Good, "magic", "version", "size"}

Contents == Values \cup Headers \cup {"zero", Hole, Eof}

(* End of the fwrite or fread call that starts after cell c: the whole     *)
(* guest memory is one call, any other cell is one call.                   *)
PartEnd(c) == IF c = 4 THEN 4 + Pages ELSE c + 1

(* The file a complete dump of VM state s leaves.                          *)
Image(h, s) == [k \in Cells |-> IF k = Header THEN h
                                ELSE IF k \in StateCells THEN s[k] ELSE "zero"]

VmStates == [StateCells -> Values]

VARIABLES pc,       \* pc[v]: where VMM v is; "off" before it starts and after it ends
          vm,       \* vm[v]: vCPU registers and memory of the VM of v
          cur,      \* cur[v]: cells the calls of v have passed to or taken from stdio
          off,      \* off[v]: cells moved between stdio and the file
          rd,       \* rd[v]: the cells that v has read from the file
          status,   \* status[v]: how the process ended: status 0 after a dump or
                    \* without one, or another end
          disk      \* the contents of vm_state.img

vars == <<pc, vm, cur, off, rd, status, disk>>

Phases == {"off", "run", "saving", "dump", "restore"}

TypeOK == /\ pc \in [Vmms -> Phases]
          /\ vm \in [Vmms -> [StateCells -> Contents]]
          /\ cur \in [Vmms -> 0..ImageLen]
          /\ off \in [Vmms -> 0..ImageLen]
          /\ rd \in [Vmms -> [Cells -> Contents]]
          /\ status \in [Vmms -> {"none", "saved", "ended", "failed"}]
          /\ disk \in [Cells -> Contents]

EmptyFile == [k \in Cells |-> Eof]
BlankVm   == [k \in StateCells |-> Blank]

(* What earlier runs of this or of another build of the program left.      *)
InitialImages == {[k \in Cells |-> IF k <= n THEN Image(h, s)[k] ELSE Eof] :
                    h \in Headers, n \in 0..ImageLen,
                    s \in {[k \in StateCells |-> x] : x \in Values}}

Init == /\ pc = [v \in Vmms |-> "off"]
        /\ vm = [v \in Vmms |-> BlankVm]
        /\ cur = [v \in Vmms |-> 0]
        /\ off = [v \in Vmms |-> 0]
        /\ rd = [v \in Vmms |-> EmptyFile]
        /\ status = [v \in Vmms |-> "none"]
        /\ disk \in InitialImages

Alone(v) == Exclusive => \A w \in Vmms : w # v => pc[w] = "off"

----------------------------------------------------------------------------
(* The process ends: the kernel frees the VM, stdio buffers are gone.      *)
Exit(v, st) == /\ pc' = [pc EXCEPT ![v] = "off"]
               /\ vm' = [vm EXCEPT ![v] = BlankVm]
               /\ cur' = [cur EXCEPT ![v] = 0]
               /\ off' = [off EXCEPT ![v] = 0]
               /\ rd' = [rd EXCEPT ![v] = EmptyFile]
               /\ status' = [status EXCEPT ![v] = st]

(* main of save.c up to the vCPU loop: a new VM, loaded and launched.      *)
Deploy(v) == /\ pc[v] = "off"
             /\ Alone(v)
             /\ pc' = [pc EXCEPT ![v] = "run"]
             /\ vm' = [vm EXCEPT ![v] = BlankVm]
             /\ status' = [status EXCEPT ![v] = "none"]
             /\ UNCHANGED <<cur, off, rd, disk>>

(* Mutant: the vCPU is not stopped while its state is dumped.              *)
GuestRunsOn(v) == /\ pc[v] \in {"run", "dump"}
                  /\ \E k \in StateCells, x \in Values :
                        vm' = [vm EXCEPT ![v][k] = x]
                  /\ UNCHANGED <<pc, cur, off, rd, status, disk>>

(* The guest runs in KVM_RUN, or a system call that neither saves nor      *)
(* exits is handled: some of the VM state changes.                         *)
GuestRun(v) == /\ pc[v] = "run"
               /\ \E k \in StateCells, x \in Values :
                     vm' = [vm EXCEPT ![v][k] = x]
               /\ UNCHANGED <<pc, cur, off, rd, status, disk>>

(* A HLT exit for which syscall_handler returns 0: the registers are set   *)
(* for the return of the call and the vCPU does not run again.             *)
RequestSave(v) == /\ pc[v] = "run"
                  /\ pc' = [pc EXCEPT ![v] = "saving"]
                  /\ \E x \in Values : vm' = [vm EXCEPT ![v][Regs] = x]
                  /\ UNCHANGED <<cur, off, rd, status, disk>>

(* The VMM ends without a dump: with status 1, by errx on an exit it does  *)
(* not handle or err on KVM_RUN; with 0, when an output byte ends the loop.*)
StopWithoutSave(v) == /\ pc[v] = "run"
                      /\ \E st \in {"ended", "failed"} : Exit(v, st)
                      /\ UNCHANGED disk

----------------------------------------------------------------------------
(* dump_vm_state                                                           *)

(* write(2) of cells i+1..j of an image at their place in file f.  Behind  *)
(* the end of a file that was truncated meanwhile it leaves a hole.        *)
FileWrite(f, img, i, j) ==
    [k \in Cells |-> IF i < k /\ k <= j THEN img[k]
                     ELSE IF k <= i /\ i < j /\ f[k] = Eof THEN Hole ELSE f[k]]

(* The stream of v has written its first j cells to the file.              *)
Flush(v, j) == disk' = FileWrite(disk, Image(Good, vm[v]), off[v], j)

(* Mutant: the file is opened without truncation ("r+b").                  *)
DumpOpenInPlace(v) == /\ pc[v] = "saving"
                      /\ pc' = [pc EXCEPT ![v] = "dump"]
                      /\ UNCHANGED <<vm, cur, off, rd, status, disk>>

(* fopen "wb" truncates the file in place.                                 *)
DumpOpen(v) == /\ pc[v] = "saving"
               /\ pc' = [pc EXCEPT ![v] = "dump"]
               /\ disk' = EmptyFile
               /\ UNCHANGED <<vm, cur, off, rd, status>>

(* Mutant: the failure of fopen is not reported.                           *)
DumpOpenFailsSilently(v) == pc[v] = "saving" /\ Exit(v, "saved") /\ UNCHANGED disk

DumpOpenFails(v) == pc[v] = "saving" /\ Exit(v, "failed") /\ UNCHANGED disk

(* Mutant: one dump function too many is called.                           *)
DumpOnePartMore(v) == /\ pc[v] = "dump"
                      /\ cur' = [cur EXCEPT ![v] = PartEnd(cur[v])]
                      /\ \E j \in off[v]..PartEnd(cur[v]) :
                            Flush(v, j) /\ off' = [off EXCEPT ![v] = j]
                      /\ UNCHANGED <<pc, vm, rd, status>>

(* One fwrite that succeeds, the header's or one of dump_vcpu_regs to      *)
(* dump_io_requests: its cells are in the stream, and the stream has       *)
(* written any part of what it holds.                                      *)
DumpPart(v) == /\ pc[v] = "dump"
               /\ cur[v] < ImageLen
               /\ cur' = [cur EXCEPT ![v] = PartEnd(cur[v])]
               /\ \E j \in off[v]..PartEnd(cur[v]) :
                     Flush(v, j) /\ off' = [off EXCEPT ![v] = j]
               /\ UNCHANGED <<pc, vm, rd, status>>

(* A KVM_GET_* or an fwrite that fails: the stream is closed, the VMM      *)
(* exits with status 1.                                                    *)
DumpFails(v) == /\ pc[v] = "dump"
                /\ cur[v] < ImageLen
                /\ \E j \in off[v]..PartEnd(cur[v]) - 1 : Flush(v, j)
                /\ Exit(v, "failed")

(* fclose writes out the rest.  Its result is not looked at: the VMM exits *)
(* with status 0 whether or not the last write succeeds.                   *)
DumpClose(v) == /\ pc[v] = "dump"
                /\ cur[v] = ImageLen
                /\ \E j \in off[v]..ImageLen : Flush(v, j)
                /\ Exit(v, "saved")

----------------------------------------------------------------------------
(* restore_vm_state                                                        *)

(* main of restore.c: a blank VM, then fopen "rb".                         *)
RestoreOpen(v) == /\ pc[v] = "off"
                  /\ Alone(v)
                  /\ pc' = [pc EXCEPT ![v] = "restore"]
                  /\ vm' = [vm EXCEPT ![v] = BlankVm]
                  /\ status' = [status EXCEPT ![v] = "none"]
                  /\ UNCHANGED <<cur, off, rd, disk>>

(* The cells v has once its stream has read up to cell j.                  *)
Got(v, j) == [k \in Cells |-> IF off[v] < k /\ k <= j THEN disk[k] ELSE rd[v][k]]

(* fread of the cells up to e, the stream reading ahead up to cell j.      *)
Fread(v, e, j) == /\ j >= e
                  /\ \A k \in Cells : off[v] < k /\ k <= j => disk[k] # Eof
                  /\ rd' = [rd EXCEPT ![v] = Got(v, j)]
                  /\ off' = [off EXCEPT ![v] = j]
                  /\ cur' = [cur EXCEPT ![v] = e]

(* Mutant: the header is read and not verified.                            *)
RestoreAnyHeader(v) == /\ pc[v] = "restore"
                       /\ cur[v] = 0
                       /\ \E j \in off[v]..ImageLen : Fread(v, Header, j)
                       /\ UNCHANGED <<pc, vm, status, disk>>

(* The header is read and its magic, version and memory size are right.    *)
RestoreHeader(v) == /\ pc[v] = "restore"
                    /\ cur[v] = 0
                    /\ \E j \in off[v]..ImageLen :
                          Fread(v, Header, j) /\ Got(v, j)[Header] = Good
                    /\ UNCHANGED <<pc, vm, status, disk>>

(* One of restore_vcpu_regs to restore_io_requests succeeds: registers go  *)
(* to the vCPU and pages to guest memory at once.  The counts of           *)
(* descriptors and requests are read and dropped.                          *)
RestorePart(v) ==
    /\ pc[v] = "restore"
    /\ cur[v] \in Header..ImageLen - 1
    /\ \E j \in off[v]..ImageLen :
          /\ Fread(v, PartEnd(cur[v]), j)
          /\ vm' = [vm EXCEPT ![v] =
                      [k \in StateCells |-> IF cur[v] < k /\ k <= PartEnd(cur[v])
                                            THEN Got(v, j)[k] ELSE vm[v][k]]]
    /\ UNCHANGED <<pc, status, disk>>

(* Mutant: the counts behind the memory are not read.                      *)
RestoreCloseEarly(v) == /\ pc[v] = "restore"
                        /\ cur[v] \in 4 + Pages..ImageLen
                        /\ pc' = [pc EXCEPT ![v] = "run"]
                        /\ cur' = [cur EXCEPT ![v] = 0]
                        /\ off' = [off EXCEPT ![v] = 0]
                        /\ rd' = [rd EXCEPT ![v] = EmptyFile]
                        /\ UNCHANGED <<vm, status, disk>>

(* fclose, return 0: main enters the vCPU loop.                            *)
RestoreClose(v) == /\ pc[v] = "restore"
                   /\ cur[v] = ImageLen
                   /\ pc' = [pc EXCEPT ![v] = "run"]
                   /\ cur' = [cur EXCEPT ![v] = 0]
                   /\ off' = [off EXCEPT ![v] = 0]
                   /\ rd' = [rd EXCEPT ![v] = EmptyFile]
                   /\ UNCHANGED <<vm, status, disk>>

(* Mutant: a restore that fails is tried again.                            *)
RestoreRetries(v) == /\ pc[v] = "restore"
                     /\ cur[v] < ImageLen
                     /\ cur' = [cur EXCEPT ![v] = 0]
                     /\ off' = [off EXCEPT ![v] = 0]
                     /\ rd' = [rd EXCEPT ![v] = EmptyFile]
                     /\ UNCHANGED <<pc, vm, status, disk>>

(* A short fread, a header that does not match or a KVM_SET_* that fails:  *)
(* main returns 1 and the VM never runs.                                   *)
RestoreFails(v) == /\ pc[v] = "restore"
                   /\ cur[v] < ImageLen
                   /\ Exit(v, "failed")
                   /\ UNCHANGED disk

----------------------------------------------------------------------------
Crash(v) == pc[v] # "off" /\ Exit(v, "failed") /\ UNCHANGED disk

Dumping(v)   == DumpOpen(v) \/ DumpOpenFails(v) \/ DumpPart(v) \/ DumpFails(v) \/ DumpClose(v)
Restoring(v) == \/ RestoreHeader(v) \/ RestorePart(v)
                \/ RestoreClose(v) \/ RestoreFails(v)
Running(v)   == GuestRun(v) \/ RequestSave(v) \/ StopWithoutSave(v)

Next == \E v \in Vmms : \/ Deploy(v) \/ RestoreOpen(v) \/ Running(v)
                        \/ Dumping(v) \/ Restoring(v) \/ Crash(v)

(* A VMM that dumps or restores is a process the host schedules.  Nothing  *)
(* makes a user start one, or a guest ask to be saved.                     *)
Fairness == \A v \in Vmms : WF_vars(Dumping(v)) /\ WF_vars(Restoring(v))

Spec == Init /\ [][Next]_vars /\ Fairness

----------------------------------------------------------------------------
(* Properties                                                              *)

(* disk is an image that restore_vm_state accepts to the end.              *)
Complete == disk[Header] = Good /\ \A k \in Cells : disk[k] # Eof

(* The VM state such an image stands for.                                  *)
DiskState == [k \in StateCells |-> disk[k]]

(* While a dump is under way the file is exactly the part of the image of  *)
(* the stopped VM that its stream has written, nothing of an older image   *)
(* and no hole (dump_vm_state: truncation, then writes in order).          *)
DumpIsPrefix == \A v \in Vmms : pc[v] = "dump" =>
    /\ off[v] <= cur[v]
    /\ \A k \in Cells : disk[k] = IF k <= off[v] THEN Image(Good, vm[v])[k] ELSE Eof

(* While a restore is under way everything already put into the VM is what *)
(* the file holds, and the header it was accepted on is still there.       *)
RestoreMatchesDisk == \A v \in Vmms : pc[v] = "restore" =>
    /\ cur[v] <= off[v]
    /\ \A k \in Cells : k <= off[v] => rd[v][k] = disk[k] /\ disk[k] # Eof
    /\ \A k \in StateCells : k <= cur[v] => vm[v][k] = disk[k]
    /\ cur[v] > 0 => disk[Header] = Good

(* A restored VM enters the vCPU loop only with the whole state that one   *)
(* complete image holds: never from a truncated image, one of another      *)
(* version or size, or a mixture (restore.c:19, 28).                       *)
ResumesWholeImage ==
    [][\A v \in Vmms : pc[v] = "restore" /\ pc'[v] = "run" =>
          Complete /\ vm'[v] = DiskState]_vars

(* A dump that reports failure after it opened the file leaves nothing     *)
(* that a later restore accepts (manager.c:132 "Failed to save VM state"). *)
FailedDumpIsRefused ==
    [][\A v \in Vmms : pc[v] = "dump" /\ cur[v] < ImageLen /\ pc'[v] = "off" =>
          ~Complete']_vars

(* A save ends with status 0 only when the image is complete on disk       *)
(* (INSTRUCTIONS.md:50 "Save the VM state dump on the disk and exit").     *)
SavedMeansComplete ==
    [][\A v \in Vmms : status[v] # "saved" /\ status'[v] = "saved" =>
          Complete' /\ DiskState' = vm[v]]_vars

(* An image that is accepted after a save that exits with 0, or after any   *)
(* end of a dump that has opened the file, is the image of that VM: an     *)
(* older one can stay only when fopen fails, and then the VMM says so      *)
(* (manager.c:275-280, 128-133).                                           *)
NoStaleImage ==
    [][\A v \in Vmms :
          \/ pc[v] = "dump" /\ pc'[v] = "off"
          \/ status[v] # "saved" /\ status'[v] = "saved"
          => ~Complete' \/ DiskState' = vm[v]]_vars

(* A VM that was stopped for a save, or a restore that was begun, does not *)
(* stay half way: the dump ends in an exit, the restore in a running VM or *)
(* an exit.                                                                *)
PipelinesEnd == \A v \in Vmms :
    /\ pc[v] \in {"saving", "dump"} ~> pc[v] = "off"
    /\ pc[v] = "restore" ~> pc[v] \in {"off", "run"}

(* The pipelines implement the abstract specification of a migration.      *)
ModeOf(p)  == IF p \in {"saving", "dump"} THEN "saving"
              ELSE IF p = "run" THEN "live" ELSE "none"
AbsMode    == [v \in Vmms |-> ModeOf(pc[v])]
AbsVm      == [v \in Vmms |-> IF ModeOf(pc[v]) = "none" THEN None ELSE vm[v]]
SavedState == IF Complete THEN DiskState ELSE None

CM == INSTANCE ColdMigration
        WITH States <- VmStates, mode <- AbsMode, vm <- AbsVm, saved <- SavedState

ImplementsColdMigration == CM!Spec
=============================================================================
