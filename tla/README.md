# Verification of the cold-migration virtual machine monitor

The repository is a course project in three stages. `lab_1` is a skeleton with
empty functions, `lab_2` runs a Linux program in a KVM virtual machine, `lab_3`
adds cold migration: the guest asks to be saved, the VMM writes its state to
`vm_state.img` and exits, and a second program resumes it from the file. The
modules here model `lab_3`, which contains the code of the other two; one of
them says what is different in the VMM of `lab_2`.
Paths below are relative to `src/lab_3` unless they start with `lab_`.

## The system

| Part | Source | State | Operations |
|---|---|---|---|
| main programs | `vm_src/src/save.c`, `restore.c` | none | set-up, load or restore, vCPU loop |
| VMM | `vm_manager/manager.c` 4-166 | `kvmfd`, `vmfd`, `vcpufd`, `run`, `memory` | `create_vm`, `create_bootstrap`, `add_memory`, `launch_vm`, `vmexit_handler` |
| image, dump | `manager.c` 168-312 | the stream, the file | `dump_vm_state`, six dump functions |
| image, restore | `manager.c` 315-473 | the stream, the VM | `restore_vm_state`, six restore functions |
| system calls | `syscall_manager/syscall_handler.c` | vCPU registers, the VMM's descriptor table | write, open, close, exit, SAVE, calls not served |
| memory manager | `memory_manager/memory.c` | `page_allocator_dico`, page tables in guest memory | `allocate_page`, `invalidate_page`, `memory_map`, `gva_to_gpa`, `create_stack` |
| loader | `load_manager/loader.c` | `page_dico`, `new_page` | `load_file` |
| boot code | `vm_src/src/boot.asm` | CR0, CR3, CR4, EFER, STAR, LSTAR | real, protected and long mode; `syscall_handler` (HLT, SYSRET) |
| guest program | `vm_src/src/app.c`, `utils/exit.c` | its memory, a descriptor | open, write, SAVE, write, close, exit |
| build | `vm_src/Makefile`, `linker/` | files on disk | runs `bin/save`, then `bin/restore` |

How they interact. `save.c` builds a VM: it creates the vCPU and 15 pages of
memory, `create_stack` and `load_file` write page tables and sections into that
memory, `launch_vm` enters the loop on `KVM_RUN`. The guest boots to long mode,
returns to the program with SYSRET, and each SYSCALL of the program lands, by
LSTAR, on a HLT, which gives control to `vmexit_handler`. `syscall_handler`
serves the call on the host with the VMM's own descriptors and advances RIP to
the SYSRET. A result of 0 (SAVE, and also exit) makes `vmexit_handler` dump the
VM and end the process. `restore.c` creates a blank VM, fills it from the image
and enters the same loop. The two processes share nothing but the image file,
and the files the guest writes.

What is hard here:

- **failure and crash in the middle of a pipeline.** The image is written in
  seven calls through a stdio buffer, in place, over the older image; a failure
  or a signal leaves any prefix of it. A restore writes into the VM as it reads.
- **what counts as the state of a VM.** Registers are spread over classes of
  which some are dumped; descriptors belong to the VMM; the guest's file lives on.
- **ordering.** Results and RIP have to be set before the dump.
- **several VMMs.** Nothing but the habit of running one `make` target after the
  other keeps two of them from using the image at the same time.
- **resources given away blindly.** The page allocator hands out pages before
  the sections that will need them are known.
- **unsigned arithmetic.** `create_stack` counts a size down to exactly 0, and an
  address that can pass below 0;
  addresses are or-ed into entries with their low bits.
- **a machine without a net.** The boot code sets up no IDT, so an instruction
  out of order, or on a page that is not mapped, is a triple fault.

There are no threads and no locks. What makes each part correct:

| Part | Correct when |
|---|---|
| dump | what a failed or killed dump leaves is refused; a successful one is the whole VM |
| restore | nothing runs but the whole state of one image |
| VMM and system calls | the VM is stopped between two instructions of the program; every process ends |
| guest and its file | the file is always what one uninterrupted run would have written so far |
| memory manager | the tables are a tree, apart from the guest's pages, and map every page to itself |
| loader | each section is where it was linked, in mapped memory, with its bytes; loading ends |
| boot code | a well loaded machine gets to the program and back without a fault; ring 3 is the program and nothing else |

## The modules

| Module | Models |
|---|---|
| `ColdMigration` | what save and restore promise: an abstract machine of live, saving and saved VMs |
| `VmImage` | `dump_vm_state` and `restore_vm_state` call by call, the stdio stream, failures and kills, several VMM processes |
| `VmImageHistory` | `VmImage` with the set of VM states that were stopped |
| `Migration` | one VMM after the other: `main`, boot, guest program, system calls, descriptors, exit, image |
| `GuestMemory` | `memory.c` as operators on a memory: allocator and page tables |
| `Loader` | `create_stack` and `load_file` on `GuestMemory`, page by page and section by section |
| `BootCode` | the vCPU on what `Loader` has loaded: `boot.asm`, the calls of the program, a restore |
| `Lab2` | the program of `lab_2`, on the actions of `Migration` |
| `MCVmImage`, `MCVmImageHistory`, `MCMigration`, `MCLoader`, `MCBootCode`, `MCLab2` | instances for TLC |
| `VmImageProofs`, `MigrationProofs`, `GuestMemoryProofs`, `LoaderProofs`, `LoaderLayoutProofs`, `BootCodeProofs`, `BootRunProofs`, `Lab2Proofs` | theorems and their lemmas |

`VmImage` and `Migration` share the abstract specification `ColdMigration`, which
each implements under its own refinement mapping. `Loader` extends `GuestMemory`;
`BootCode` composes `Loader` with the vCPU, and `StepsAsMigration` shows that each
of their steps is a step of `Migration` or none: the four set-up actions
`CreateStack`, `LoadBoot`, `LoadApp` and `Launch`, the three of the boot code, and
the HLT and SYSRET of a call, are what the two modules do in detail.

### VmImage

The file is a function from cells to contents: header, regs, sregs, fpu, one cell
per page of guest memory, the two counts. A cell is the unit of the model, not a
byte. What the dump or restore functions do is one action per call:

- `pc[v]` is where VMM `v` is; `cur[v]` counts the cells that its `fwrite` or
  `fread` calls have moved, `off[v]` those the stream has moved to or from the
  file. The two differ because stdio buffers: a `DumpPart` may write any part of
  what the stream holds, and an `Fread` may read ahead any distance.
- `StopWithoutSave` is every end of the loop without a dump: with status 0 after
  port output (`ended`), or with an error (`failed`).
- `DumpFails`, `DumpOpenFails` and `RestoreFails` are the error returns, each
  followed by the end of the process as in `vmexit_handler` and `restore.c`.
- `DumpClose` ends with status `saved` whatever part of the buffer reaches the
  file, because line 310 ignores `fclose`.
- `Crash` kills a VMM at any point: what its stream had written stays.
- `GuestRun` lets a live VM change any register file or page.
- `Init` allows any file an earlier run or another build may have left: none, a
  whole image, any prefix, a header of another magic, version or size.

`Exclusive` says that a VMM starts only when no other runs, as with `make save`
and then `make restore`.

### Migration

`stage` goes through the calls of `main`, then `run`, `saving` and `dumping`.
Registers are kept by class, because each class has its own dump function:
`regs` (RIP, the position in the program that RCX returns to, RAX), `sregs` (the
mode), `msrs` (STAR and LSTAR). `SavedVm` is what the dump functions write. The
guest program is the sequence of its system calls, chosen in `Init`; it keeps the
result of `open` in `mem.fd` as `app.c` keeps `fd`. `fds` is the descriptor table
of the VMM process with the descriptors that the VMM itself takes: 3, 4, 5 for
KVM, 6 and 7 for the two ELF files that `load_file` leaves open, so the first file
of a deployed guest is 8, as in the output that `INSTRUCTIONS.md` shows. `file` is
the contents of the guest's file, one element a write, with the position kept in
the descriptor (`open` neither truncates nor appends).

`KvmSkipsHlt`, here and in `BootCode`, chooses between the two things the code can
meet when KVM reports a HLT: RIP at the HLT, or behind it. `migration_hlt` and
`lab2` have it TRUE, the other runs FALSE, which is what `lab_3` was written for. For
`boot` the other value is left to the theorems, which hold for both.

What `ImplementsColdMigration` compares is the state that the dump functions write
(`SavedVm`): neither MSRs nor descriptors are a part of it. What a guest loses with
these is the subject of `migration_msrs` and `migration_fds`.

### GuestMemory and Loader

An address is a page and the set of bits in its offset; an entry is a frame and
its flag bits. So an address that `memory_map` or-s into an entry leaves its low
bits there as flags, as `*pte_p = page | PRESENT | ...` does, and
`pointer_to_page` masks them out. The allocator and the tables are exact, level by
level. `Rights` is what the processor makes of the four entries of a walk.
`broken` is set when the code would use a table that is outside guest memory or
was overwritten by a section, marks a page behind the allocator's array, or copies
a section past the end of the memory: then anything can follow.

`create_stack` is three actions: the page at the stack pointer, one page below it
for each turn of the loop, the end of the loop. `size` and `i` are unsigned and
wrap; sizes are in half pages, so that a size can be no multiple of a page.

Nothing in the code says which layouts it can load. `GoodLayout` is the condition
we found: the two files are apart, sections are in the order of their addresses,
a section starts in every page a section reaches, everything is in memory, off
the stack, and above the frames that the tables take. The layout that the two
linker scripts produce (`LabLayout`) satisfies it. A stack is mapped to its end
when it is whole pages and does not go below address 0 (`WholeStack`); a good one
leaves page 0 alone too (`GoodStack`).

`GoodLayout` excludes what `load_file` does badly, so `NeverBroken`, `TablesApart`
and `LoadedWhereLinked` say nothing about it. Three properties do, for every
layout. `AstrayOutOfStep` says which sections `new_page` sends to another page:
exactly those whose page is not the last one of their file that was new, because
one before them, of either file, started there (`InStep`). `MapsOnlyStarts` says
that nothing is mapped but the stack and the pages where sections start, so a page
that a section only reaches is not. `IdentityMapped` is about whatever is mapped.

### BootCode

One action per group of instructions of `boot.asm`: `Exec` checks that the page of
the instruction can be fetched (through the tables of `Loader` once paging is on,
with the file's bytes in the frame it comes to) and what the architecture demands
of it, and otherwise shuts the vCPU down. `vcpu` has the registers that the code
sets: CS with what the processor keeps of its descriptor, the descriptor table,
CR0, CR3, CR4, EFER, STAR, LSTAR, RSP, RAX. A far jump reads the descriptor
table in memory, an LGDT its operand in the same section, SYSRET reads nothing. Programs are sequences of calls: not served,
`save`, `exit`. A call goes SYSCALL, HLT, exit to the VMM (`Serve` or `Stop`),
SYSRET. The handler adds 1 to RIP wherever KVM left it (`Advance`): from the HLT to
the SYSRET, or, when `KvmSkipsHlt`, from the SYSRET to its second byte, where the
guest is lost (`Lost`). After `Stop` another VMM may restore the vCPU,
without STAR and LSTAR.

`StepsAsMigration` has two instances of `Migration`. `M` is the machine as it is; its
MSRs are `set` only when LSTAR is the handler and both selectors of STAR have the
descriptors that `gdt64` has for the kernel and the user. `R` is for the restore: a
stopped vCPU is there the image, `Saved`, and the VM is a new one, so that the step
must be `Restore` of `Migration`: what is in the image comes back, what is not is as
in a new vCPU.

`Bootable` is `GoodLayout` with a stack of at least a page below the first.

### Lab2

`lab_2` has the same `main`, boot code and loop, in files of its own. What is
different is one action: `vmexit_handler` returns the 1 of the stub, so the vCPU
is entered again with its registers as they are (`ServeNothing`). Where RIP is
then depends on `KvmSkipsHlt`: at the HLT, and the guest exits there for ever; or
behind it, and the guest goes on with the call's number for its result, until its
exit returns. `LoopCall` is the call where it stays. The run takes the second case,
in which every action happens; the first is the same with the first call.

## The runs

| Run | Instance | Shows |
|---|---|---|
| `image` | 2 VMMs one at a time, 2 pages, 2 values | `TypeOK`, `DumpIsPrefix`, `RestoreMatchesDisk`, `ResumesWholeImage`, `FailedDumpIsRefused`, `NoStaleImage`, `ImplementsColdMigration`, `PipelinesEnd` hold |
| `migration` | the programs of `lab_2` and `lab_3` and every program of up to 4 calls before its exit, descriptors 3 to 9 | `TypeOK`, `ImageIsResumable`, `FileIsRunPrefix`, `FileCoversImage`, `DeployedGuestKeepsFile`, `VmmEnds`, `ImplementsColdMigration` hold |
| `loader` | one section then up to three, aligned or not, tables of 4 entries; the lab's layout, stacks of 0 to 4 pages in halves and of sizes that wrap | `TypeOK`, `NeverBroken`, `IdentityMapped`, `TablesApart`, `LoadedWhereLinked`, `StackIsWhole`, `AstrayOutOfStep`, `MapsOnlyStarts` hold |
| `boot` | 8 layouts good and bad, 3 stacks, four programs: exit, alone, behind a call that is not served, behind a save, behind both | `TypeOK`, `FaultsOnlyWhenLost`, `RingsApart`, `ProgramRuns`, `StepsAsMigration` hold |
| `lab2` | the programs of the labs and those of `migration` with up to two calls, `KvmSkipsHlt` TRUE | `NothingServed`, `StaysInLoop`, `HltsForEver` hold |
| `image_silent` | as `image` with 1 page | `SavedMeansComplete` is violated |
| `image_torn` | 2 VMMs at the same time, each once | `ResumesSavedVm` is violated |
| `migration_msrs`, `migration_fds` | the program of `lab_3` | `GuestNeverShutsDown`, `RestoredGuestKeepsFile` are violated |
| `migration_exit` | the program of `lab_2` | `OnlySaveWritesImage` is violated |
| `migration_hlt` | `KvmSkipsHlt` TRUE | `CallsReturnToSysret` is violated |
| `loader_data` | the lab's layout, tables of 128 entries | `SectionsHaveTheirData` is violated |

### What the violations say

Each is a place where the program does other than its documents or comments say.

- **A truncated image with status 0** (`image_silent`). The last buffer is written
  by the `fclose` of line 310, whose result is ignored, so a full disk gives a
  VMM that exits with 0 and a file that no restore accepts. The older image is
  gone too.
- **A restore from two saves** (`image_torn`). The file is truncated in place and
  read in parts, without a lock; with two VMMs in one directory a VM can run with
  the registers of one save and the memory of another.
- **A restored guest shuts down at its first call** (`migration_msrs`). `boot.asm`
  sets LSTAR and STAR, no dump function saves them.
- **A restored guest has lost its file** (`migration_fds`). `dump_device_state`
  writes a count of 0. In the program this comes after the shutdown above; the
  run sees it in the states before the first call.
- **exit writes an image** (`migration_exit`). It returns 0 like SAVE.
- **RIP inside SYSRET** (`migration_hlt`). `rip += 1` is right only when KVM leaves
  RIP at the HLT. Which it does is outside the repository; the handler in
  `lab_2/ANSWERS.md` assumes the opposite.
- **Constructor tables are zeroed** (`loader_data`). `sh_type & 0x8` is meant to
  find bss and finds `.init_array` and `.fini_array` as well.

Two more that no run states. A save that fails after `fopen "wb"` leaves neither
its own image nor the older one: `FailedDumpIsRefused` says that nothing is left
to restore, and `ColdMigration` allows it. The program of a guest runs in segment
0x2b, because SYSRET adds 16 to the 0x18 in STAR: that is behind the end of
`gdt64`, whose user code segment is 0x18, and goes well because SYSRET does not
read the descriptor.

### Bounds, and why they are enough

- *Two VMMs*: with one at a time any number behave like a sequence, and two are
  the least that can interleave. *Two pages* give a part of the image that is
  several cells long, so the memory can be cut in the middle; *two values* tell
  an old cell from a new one. The proofs remove all three bounds.
- *Programs of four calls*, and the two applications: enough for open, write, SAVE, write with any of them
  repeated, left out or reordered, close before or after the save, a call the VMM
  does not serve, a second open. Each program can be saved, restored, killed and
  started again without limit, since neither the file nor the image grows.
- *Descriptors 3 to 9*: the five of the VMM and two more, so that two opens fill
  the table and the open of the image fails.
- *Tables of 4 entries* put the pages of the lab into two page tables, which 512
  entries never do; 128 in `loader_data` are as good as 512 for 20 pages. `NbFrames` is the code's 15; the allocator's 0x10000 pages
  are cut to 20, which still lets it give pages outside memory.
- *An address space of 24 pages* (`AddrPages`, 2^52 in the code): where the stack
  wraps to is a page that the allocator does not know, as in the code.
- *Stacks*: every size up to 4 pages in halves, the ones that overlap the files,
  that reach page 0, that go below it, and the odd and even ones that wrap.
- *The four programs* of `boot`: after a save and a restore the next call is the
  last, whatever it is, so that a longer program adds nothing behind it.
- *Offsets*: an aligned address, one that sets a bit with no meaning for the
  checks of a walk, ones that set several.
- `SmallSearch` in `image_torn` only shortens the search for a behaviour.

### Fairness

`VmImage` has weak fairness on the dump and on the restore of each VMM: they are
straight-line code of a process that the host schedules, every call in them
returns. A live VM has none: a guest need not ask to be saved. `Migration` has
weak fairness on what the VMM and the vCPU do together, since its guest programs
end in exit and KVM runs a vCPU that is ready. Starting a VMM is never fair, nor
is a kill. `BootCode` has weak fairness on loading, where `main` runs alone and waits
for nothing, on launching, booting and running, not on a restore, which nobody has
to ask for; `Lab2` on what the VMM and its guest do, as `Migration`.

Deadlock is checked in `VmImage`, `Migration` and `Lab2`. `Loader` is a program that
ends, and a vCPU of `BootCode` can shut down.

## The proofs

`VmImageProofs` is about `VmImage` for every number of VMMs and pages and every
set of values. `ConstantsAssumption` and `SentinelsAssumption` say that there is
a page, that `Blank` is a value, and that the model's own marks (hole, end of
file, no VM) are not values. `MigrationProofs` is about `Migration` for every set
of programs and every limit on descriptors; `ProgramsAssumption` says that a
program ends in exit, `LimitsAssumption` that there are descriptors for the five
the VMM needs.

| Module | Theorem | Says | Assumes |
|---|---|---|---|
| `VmImageProofs` | `TypeCorrect` | `Spec => []TypeOK` | |
| | `DumpTheorem` | `Spec => []DumpIsPrefix` | `Exclusive` |
| | `RestoreTheorem` | `Spec => []RestoreMatchesDisk` | `Exclusive` |
| | `ResumeTheorem` | `Spec => ResumesWholeImage` | `Exclusive` |
| | `FailedDumpTheorem` | `Spec => FailedDumpIsRefused` | `Exclusive` |
| | `NoStaleTheorem` | `Spec => NoStaleImage` | `Exclusive` |
| | `Refinement` | `Spec => ImplementsColdMigration` | `Exclusive` |
| `MigrationProofs` | `TypeCorrect` | `Spec => []TypeOK` | |
| | `ImageTheorem` | `Spec => []ImageIsResumable` | `~KvmSkipsHlt` |
| | `SysretTheorem` | `Spec => []CallsReturnToSysret` | `~KvmSkipsHlt` |
| | `DescriptorTheorem` | `Spec => []DeployedGuestKeepsFile` | |
| | `FilePrefixTheorem` | `Spec => []FileIsRunPrefix` | |
| | `FileCoversTheorem` | `Spec => []FileCoversImage` | |
| | `Refinement` | `Spec => ImplementsColdMigration` | |
| `LoaderProofs` | `LoaderTypes` | `Spec => []TypeOK` | |
| | `IdentityTheorem` | `Spec => []IdentityMapped` | |
| `LoaderLayoutProofs` | `StackTheorem` | `Spec => []StackIsWhole` | |
| | `NeverBrokenTheorem` | `Spec => []NeverBroken` | |
| | `TablesApartTheorem` | `Spec => []TablesApart` | |
| | `LoadedTheorem` | `Spec => []LoadedWhereLinked` | |
| | `AstrayTheorem` | `Spec => []AstrayOutOfStep` | |
| | `StartsTheorem` | `Spec => []MapsOnlyStarts` | |
| `BootCodeProofs` | `TypeTheorem` | `Spec => []TypeOK` | |
| | `RingsTheorem` | `Spec => []RingsApart` | |
| `BootRunProofs` | `FaultsTheorem` | `Spec => []FaultsOnlyWhenLost` | |
| | `StepsTheorem` | `Spec => StepsAsMigration` | |
| `Lab2Proofs` | `NothingServedTheorem` | `Lab2Spec => []NothingServed` | |
| | `LoopTheorem` | `Lab2Spec => StaysInLoop` | |

`Exclusive` and `~KvmSkipsHlt` are needed: `image_torn` and `migration_hlt` are the
counterexamples without them. Where nothing is said of `KvmSkipsHlt` a theorem holds
for both of its values.

**VmImage.** The inductive invariant `IInv` is `TypeOK`, the two invariants, and
three facts they rest on. `OneVmm`: two VMMs are never both on; this is what keeps
the file of a dump or a restore from changing under it. `IdleStreams`: a VMM that
is neither dumping nor restoring has moved nothing, so the next pipeline starts
from cell 0. `NoHoles`: the file has no hole and no zero where a register or a
page should be, since a dump writes in order to a file it truncated; without it
the state a restore takes from an accepted file would not be known to be a VM
state. `DumpIsPrefix` gives that a dump that fails leaves an end of file in the
image and that one that completes it has written the whole VM; `RestoreMatchesDisk`
at the last cell gives `ResumesWholeImage`. The refinement maps each action to
one of the abstract specification or to a stutter, with `saved` being the state of
the file when it is complete: `DumpOpen` is `Discard`, the flush that completes
the file is `Commit`, or `End` when the process ends with it.

**Migration.** Types need `PositionsInFile`: a descriptor's position is never
behind the end of the guest's file, so a write leaves no gap; and `ImageFits`.
`ImageIsResumable` needs to know how a VM comes to be dumped. `Built` follows the
memory through the set-up calls, `LongMode` says that the boot code alone runs in
another mode, and `TrapAtHlt`, which is false when KVM skips the HLT, that a HLT
not yet handled is the one of `syscall_handler`: so a call that completes moves
RIP from the HLT to the SYSRET. `Stopped` carries this from the call to the end
of the dump, and the image takes it from there; a restored VM starts from an image
for which it holds. The refinement needs only the types and that there is no image
between the truncation and the end of a dump.

`DescriptorTheorem` follows the number that `open` gave the guest: while the VMM
was deployed and the guest has not closed it, this number is a descriptor of the
guest's file in the table, and the lowest-free rule never gives it a second time.

What is in the file takes more. `Written(n)` counts the calls up to the n-th that
write to it, and is the place where call n writes; two calls never share a place
(`WrittenOrder`). `WInv` adds to the descriptor's invariant: a restored guest makes
no call (`RestoredCallsNothing`), because it has no LSTAR, so only deployed guests
write, and each starts at the beginning of its program; the one descriptor on the
file is the guest's, and its position is the number of writes so far
(`PositionAt`), which is true at the open because nothing was written before
(`BeforeOpen`); and the file has at least these writes (`FileCovers`). A write then
either adds the next one of the run to the file or repeats one that an earlier
VMM made of the same buffer (`PutAtPlace`), so the file stays the beginning of a
run. It never becomes shorter, so it covers the image for ever after.

This is for a KVM that leaves RIP at the HLT. With one that skips it the invariant
is another and simple one, `NoResult`: the first call that is served leaves RIP
inside the SYSRET, no guest ever has a result or a descriptor, and nothing is
written. `FileHolds` joins the two, so the three theorems about the file need no
assumption on KVM.

**GuestMemory and Loader.** `LoaderProofs` is for every width of a table, number of
frames and pages, set of layouts and stack sizes. `MemoryAssumption` says that a
table has at least two entries, that there are a root and a frame more, and that
four levels tell all pages of the allocator apart (`NbPage <= Width^4`);
`StackAssumption` that the stack pointer is in memory and that the page below
address 0 is told apart from them too.

The inductive invariant `LInv` is `TypeOK`, where `create_stack` is (`StackInv`),
and `TreeInv`: as long as nothing was broken, the tables are a tree. `Tree(m, o)`
of `GuestMemoryProofs` gives each table an owner `o`: its level, and the page
number that the indices above it name so far (`base`). The root has level 4 and
base 0; an entry i of a table with base b leads to a table of the level below with
base b * Width + i, or, on the last level, to the page b * Width + i. `memory_map`
keeps this because the allocator gives a page that no table is in
(`AllocateType`, from the well-foundedness of the intervals it searches), and
because the four indices of a page name this page (`ReachItself`). Then a walk that
ends, ends at the page it was asked for (`TreeIdentity`), which is `IdentityMapped`.
A page that the allocator does not know has indices that name no page an entry can
hold: such a walk breaks, and is why the stack that wraps never goes on for long.
`PageClaimed` follows the two calls of `load_file` for one section, of which the
second changes nothing (`MapMapped`).

`LoaderLayoutProofs` says what comes out when the layout is good. `LoopInv` follows
`create_stack`: behind k turns the pages mapped are the first one and the k below
it. A stack that goes below address 0 walks with a page number that no entry can
hold, and breaks; one that is not whole pages keeps an odd number of half pages
left for ever. So a stack that is mapped to its end is whole (`StackTheorem`).

`LayoutInv` is the invariant of the loader on a good layout. Its first part,
`Packed`, is the count of frames that makes the allocator's ignorance harmless:
pages that share a page table (a group) need at most three tables below the root,
one of each level; the tree has no others, since the owner of a table is one that
some page of the guest needs, and no two tables have one owner. By the pigeonhole
principle the tables are then never more than three for each group and the root,
and as the allocator takes the lowest free page and the guest's pages are all
above this number (`Room`, which `OffTables` of `GoodLayout` says), tables always
fill the first frames from the root on: `NeverBroken`, and with `Tree`
`TablesApart`. The other parts are that only pages of the layout are mapped, that
`page_dico` has the first pages of the sections passed, that `new_page` is the page
of the last one, and that each frame has the sections that reach it and no other.
The order of the sections is needed there: `load_file` copies to `new_page`, and a
section that starts in an older page than the last new one would go astray.

`AnyInv` is the invariant without that condition. As long as nothing is broken,
`new_page` is the page of the last new section of this file, or 0 (`NewPageIs`); a
section passed is where it was linked exactly when it is in step (`CopiesAre`), since
a copy to any other page misses its first or its last page; and the pages mapped are
those of the stack and the first pages of the sections passed (`PagesAre`), since
`PageClaimed` adds the one page of the section and `memory_map` takes none away.

**BootCode.** `RingsApart` is inductive with the types of the registers: only
SYSRET makes a ring 3, and only SYSCALL leaves it, whatever memory holds.

`BootRunProofs` composes. It instantiates `LoaderLayoutProofs` with the variables of
`BootCode`, where every step is a step of the loader or leaves its state alone, and
takes from it `LoadedWell`: sections in their pages, pages mapped to themselves
with all rights. `EntriesAssumption` (two files that each begin with a section that
is loaded, where the entry points are) and `LoadAssumption` (what `Loader` assumes
of its constants) are the conditions. `Registers` says at each place of `boot.asm`
what the instructions before it have set up: the descriptor table before each far
jump, PAE before LME before PG, CR3 before PG, the width of CS, the stack pointer,
SCE before the program, STAR and LSTAR unless the vCPU was restored. `NoFault` is
that the vCPU starts only when all is loaded, and `FaultsOnlyWhenLost`; with the
other two each instruction finds what it demands, so the only faults left are the
fetch at address 0, where only a vCPU without LSTAR goes, and the bytes inside
SYSRET, where only `Advance` behind a skipped HLT goes. `KvmAssumption` says that
KVM does one or the other.

`StepsTheorem` then maps each step: the set-up calls to the four actions of
`Migration` that stand for them, turns of their loops to stutters, the
instructions of `boot.asm` to `BootProtected`, `BootLong`, `BootUser` or a stutter,
SYSCALL, HLT, the handler and SYSRET to theirs. A restore is the step of the second
instance (`RestoreStep`): what `Restore` of `BootCode` keeps is what is in the image,
and STAR and LSTAR are what `ResetCpu` has.

**Lab2.** `NothingServed` needs to know what a guest finds in RAX when its open
returns: `RaxIsNumber` says that a guest at the SYSRET that the VMM has not stopped
has the number of its call there, since the stub left it. `StaysInLoop` needs
`SkippedHlt`: only a HLT that KVM has skipped leads to the SYSRET, so where KVM
leaves RIP the guest stays at its first call, and elsewhere its last call is
repeated. Both are for both values of `KvmSkipsHlt`; the run takes TRUE.

Every safety invariant and every action property of the passing runs is proved.
Only model-checked, and for good: `PipelinesEnd`, `VmmEnds`, `ProgramRuns` and
`HltsForEver`, which are liveness under fairness, out of these tools' reach
(`ProgramRuns` is about a KVM that leaves RIP at the HLT; with the other no call
returns). That
`LabLayout` is a good layout is TLC's too: the theorems are about layouts, the
runs evaluate `GoodLayout` on this one.

## Not modelled

- `lab_1`: empty functions, an exit handler, and a `main` that opens nothing.
- Port output and entry failures in `Lab2`. `memory.c` and `loader.c` of `lab_2` are
  the files of `lab_3`.
- Guest pointers outside memory, short writes, paths: the guest program opens one
  file and passes good buffers.
- `page_dico` with its 0x1000 pages: a section further up is out of memory anyhow.
- ELF parsing, musl, `test_memory.c`, prototypes, printed output.
- KVM, the host kernel and stdio, except as far as the VMM depends on them; of the
  processor only what `boot.asm` sets and what SYSCALL, SYSRET, far jumps and page
  walks demand. Interrupts and EFLAGS are not modelled.
- The failure of `KVM_GET_REGS` and `KVM_SET_REGS` in `syscall_handler`, whose results
  it ignores: it would serve a call from registers it has not read.
- Layouts outside `GoodLayout` are explored, and nothing is claimed of them except
  `TypeOK`, `AstrayOutOfStep`, `StackIsWhole` (whose stack is of any size), `RingsApart`,
  and, while the tables are intact, `IdentityMapped` and `MapsOnlyStarts`. What the
  code does behind the end of guest memory is undefined, and no property is about it.

## Plan

Done: all modules, with every safety property proved.

1. `Migration` with two VMMs on one guest file: two restores of one image at the
   same time, and what each has written.
2. Guest buffers that cross a page or leave memory, short writes.
3. Proofs: that `VmImage` and `Migration` agree on the image, by a common refinement
   of the two dump pipelines; a restored guest whose MSRs were saved, as the
   correction of `boot.asm:67-78` would have it.
