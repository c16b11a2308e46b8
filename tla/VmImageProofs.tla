---------------------------- MODULE VmImageProofs ----------------------------
(***************************************************************************)
(* Theorems about the dump and restore pipelines, for every set of VMMs,   *)
(* every number of pages and every set of values.                          *)
(*                                                                         *)
(* Type correctness holds however many VMMs run at once.  Everything that  *)
(* ties the file to a VM needs Exclusive: two VMMs that use the file       *)
(* together can break all of it.  The argument is the invariant IInv:      *)
(*   - at most one VMM is alive (OneVmm), so nobody else moves the file;   *)
(*   - a VMM outside the two pipelines has no stream (IdleStreams), so a   *)
(*     pipeline starts at the beginning of the file;                       *)
(*   - the file never has a hole and the VM only values (NoHoles), so what *)
(*     a complete file holds is a state of a VM;                           *)
(*   - the two invariants of VmImage, about a dump and a restore under way.*)
(***************************************************************************)
EXTENDS VmImage, TLAPS

(* The layout, as the provers use it.                                      *)
LEMMA Layout ==
    /\ ImageLen \in Nat /\ ImageLen > 6
    /\ Cells = 1..ImageLen
    /\ Header \in Cells /\ ImageLen \in Cells /\ Header \notin StateCells
    /\ StateCells \subseteq Cells /\ Regs \in StateCells
    /\ ImageLen \notin StateCells
BY ConstantsAssumption DEF ImageLen, Cells, Header, StateCells, Regs

(* A call of the pipelines moves forward and stays in the file.            *)
LEMMA PartEndBounds ==
    ASSUME NEW c \in 0..ImageLen - 1
    PROVE  PartEnd(c) \in 0..ImageLen /\ PartEnd(c) > c
BY ConstantsAssumption DEF PartEnd, ImageLen

(* A complete dump is a file of the right layout.                          *)
LEMMA ImageType ==
    ASSUME NEW h \in Headers, NEW s \in [StateCells -> Contents]
    PROVE  Image(h, s) \in [Cells -> Contents]
BY DEF Image, Contents

LEMMA FileWriteType ==
    ASSUME NEW f \in [Cells -> Contents], NEW img \in [Cells -> Contents],
           NEW i, NEW j
    PROVE  FileWrite(f, img, i, j) \in [Cells -> Contents]
BY DEF FileWrite, Contents

LEMMA GoodHeader == Good \in Headers
BY DEF Headers

LEMMA BlankTypes == /\ BlankVm \in VmStates
                    /\ BlankVm \in [StateCells -> Contents]
                    /\ EmptyFile \in [Cells -> Contents]
BY ConstantsAssumption DEF BlankVm, VmStates, EmptyFile, Contents

----------------------------------------------------------------------------
(* Every variable keeps its type, with any number of VMMs on the file.     *)
LEMMA TypeInit == Init => TypeOK
<1> SUFFICES ASSUME Init PROVE TypeOK
  OBVIOUS
<1>1. disk \in [Cells -> Contents]
  <2>1. PICK h \in Headers, n \in 0..ImageLen,
             s \in {[k \in StateCells |-> x] : x \in Values} :
          disk = [k \in Cells |-> IF k <= n THEN Image(h, s)[k] ELSE Eof]
    BY DEF Init, InitialImages
  <2>2. s \in [StateCells -> Contents]
    BY DEF Contents
  <2>3. Image(h, s) \in [Cells -> Contents]
    BY <2>2, ImageType
  <2> QED BY <2>1, <2>3 DEF Contents
<1> QED BY <1>1, BlankTypes, Layout DEF Init, TypeOK, Phases

LEMMA ExitType ==
    ASSUME TypeOK, NEW v \in Vmms, NEW st \in {"none", "saved", "ended", "failed"},
           Exit(v, st), disk' \in [Cells -> Contents]
    PROVE  TypeOK'
BY BlankTypes, Layout DEF TypeOK, Exit, Phases

LEMMA FlushType ==
    ASSUME TypeOK, NEW v \in Vmms, NEW j, Flush(v, j)
    PROVE  disk' \in [Cells -> Contents]
<1>1. Image(Good, vm[v]) \in [Cells -> Contents]
  BY GoodHeader, ImageType DEF TypeOK
<1> QED BY <1>1, FileWriteType DEF Flush, TypeOK

LEMMA GotType ==
    ASSUME TypeOK, NEW v \in Vmms, NEW j
    PROVE  Got(v, j) \in [Cells -> Contents]
BY DEF Got, TypeOK

LEMMA TypeNext == TypeOK /\ [Next]_vars => TypeOK'
<1> SUFFICES ASSUME TypeOK, [Next]_vars PROVE TypeOK'
  OBVIOUS
<1>1. CASE UNCHANGED vars
  BY <1>1 DEF vars, TypeOK
<1>2. ASSUME NEW v \in Vmms, Deploy(v) PROVE TypeOK'
  BY <1>2, BlankTypes DEF Deploy, TypeOK, Phases
<1>3. ASSUME NEW v \in Vmms, RestoreOpen(v) PROVE TypeOK'
  BY <1>3, BlankTypes DEF RestoreOpen, TypeOK, Phases
<1>4. ASSUME NEW v \in Vmms, GuestRun(v) PROVE TypeOK'
  BY <1>4 DEF GuestRun, TypeOK, Contents
<1>5. ASSUME NEW v \in Vmms, RequestSave(v) PROVE TypeOK'
  BY <1>5, Layout DEF RequestSave, TypeOK, Contents, Phases
<1>6. ASSUME NEW v \in Vmms, StopWithoutSave(v) PROVE TypeOK'
  BY <1>6, ExitType DEF StopWithoutSave, TypeOK
<1>7. ASSUME NEW v \in Vmms, DumpOpen(v) PROVE TypeOK'
  BY <1>7, BlankTypes DEF DumpOpen, TypeOK, Phases
<1>8. ASSUME NEW v \in Vmms, DumpOpenFails(v) PROVE TypeOK'
  BY <1>8, ExitType DEF DumpOpenFails, TypeOK
<1>9. ASSUME NEW v \in Vmms, DumpPart(v) PROVE TypeOK'
  <2>1. PICK j \in off[v]..PartEnd(cur[v]) :
          Flush(v, j) /\ off' = [off EXCEPT ![v] = j]
    BY <1>9 DEF DumpPart
  <2>2. cur[v] \in 0..ImageLen - 1 /\ off[v] \in 0..ImageLen
    BY <1>9, Layout DEF DumpPart, TypeOK
  <2>3. PartEnd(cur[v]) \in 0..ImageLen
    BY <2>2, PartEndBounds
  <2>4. j \in 0..ImageLen
    BY <2>2, <2>3, Layout
  <2>5. disk' \in [Cells -> Contents]
    BY <2>1, FlushType
  <2> QED BY <1>9, <2>1, <2>3, <2>4, <2>5 DEF DumpPart, TypeOK
<1>10. ASSUME NEW v \in Vmms, DumpFails(v) PROVE TypeOK'
  BY <1>10, FlushType, ExitType DEF DumpFails
<1>11. ASSUME NEW v \in Vmms, DumpClose(v) PROVE TypeOK'
  BY <1>11, FlushType, ExitType DEF DumpClose
<1>12. ASSUME NEW v \in Vmms, RestoreHeader(v) PROVE TypeOK'
  <2>1. PICK j \in off[v]..ImageLen : Fread(v, Header, j)
    BY <1>12 DEF RestoreHeader
  <2>2. j \in 0..ImageLen /\ Header \in 0..ImageLen
    BY Layout DEF TypeOK
  <2> QED BY <1>12, <2>1, <2>2, GotType DEF RestoreHeader, Fread, TypeOK
<1>13. ASSUME NEW v \in Vmms, RestorePart(v) PROVE TypeOK'
  <2>1. PICK j \in off[v]..ImageLen :
          /\ Fread(v, PartEnd(cur[v]), j)
          /\ vm' = [vm EXCEPT ![v] =
                      [k \in StateCells |-> IF cur[v] < k /\ k <= PartEnd(cur[v])
                                            THEN Got(v, j)[k] ELSE vm[v][k]]]
    BY <1>13 DEF RestorePart
  <2>2. cur[v] \in 0..ImageLen - 1 /\ j \in 0..ImageLen
    BY <1>13, Layout DEF RestorePart, TypeOK, Header
  <2>3. PartEnd(cur[v]) \in 0..ImageLen
    BY <2>2, PartEndBounds
  <2>4. Got(v, j) \in [Cells -> Contents]
    BY GotType
  <2>5. vm' \in [Vmms -> [StateCells -> Contents]]
    BY <2>1, <2>4, Layout DEF TypeOK
  <2> QED BY <1>13, <2>1, <2>2, <2>3, <2>4, <2>5 DEF RestorePart, Fread, TypeOK
<1>14. ASSUME NEW v \in Vmms, RestoreClose(v) PROVE TypeOK'
  BY <1>14, BlankTypes, Layout DEF RestoreClose, TypeOK, Phases
<1>15. ASSUME NEW v \in Vmms, RestoreFails(v) PROVE TypeOK'
  BY <1>15, ExitType DEF RestoreFails, TypeOK
<1>16. ASSUME NEW v \in Vmms, Crash(v) PROVE TypeOK'
  BY <1>16, ExitType DEF Crash, TypeOK
<1> QED BY <1>1, <1>2, <1>3, <1>4, <1>5, <1>6, <1>7, <1>8, <1>9, <1>10, <1>11,
           <1>12, <1>13, <1>14, <1>15, <1>16 DEF Next, Running, Dumping, Restoring

(* TypeOK is an invariant.                                                 *)
THEOREM TypeCorrect == Spec => []TypeOK
<1>1. Init => TypeOK BY TypeInit
<1>2. TypeOK /\ [Next]_vars => TypeOK' BY TypeNext
<1> QED BY <1>1, <1>2, PTL DEF Spec

----------------------------------------------------------------------------
(* The inductive invariant of a file that one VMM at a time uses.          *)
OneVmm == \A v, w \in Vmms : pc[v] # "off" /\ pc[w] # "off" => v = w

IdleStreams == \A v \in Vmms : pc[v] \notin {"dump", "restore"} => cur[v] = 0 /\ off[v] = 0

NoHoles == /\ \A v \in Vmms : vm[v] \in VmStates
           /\ \A k \in StateCells : disk[k] \in Values \cup {Eof}

IInv == TypeOK /\ OneVmm /\ IdleStreams /\ NoHoles /\ DumpIsPrefix /\ RestoreMatchesDisk

LEMMA IInvInit == Init => IInv
<1> SUFFICES ASSUME Init PROVE IInv
  OBVIOUS
<1>1. OneVmm /\ IdleStreams /\ DumpIsPrefix /\ RestoreMatchesDisk
  BY DEF Init, OneVmm, IdleStreams, DumpIsPrefix, RestoreMatchesDisk
<1>2. PICK h \in Headers, n \in 0..ImageLen,
           s \in {[k \in StateCells |-> x] : x \in Values} :
        disk = [k \in Cells |-> IF k <= n THEN Image(h, s)[k] ELSE Eof]
  BY DEF Init, InitialImages
<1>3. \A k \in StateCells : disk[k] \in Values \cup {Eof}
  BY <1>2, Layout DEF Image
<1> QED BY <1>1, <1>3, TypeInit, BlankTypes DEF IInv, NoHoles, Init

(* The file after the stream of a dump wrote on, up to cell j: the larger  *)
(* part of the same image.                                                 *)
LEMMA DumpWrites ==
    ASSUME IInv, NEW v \in Vmms, pc[v] = "dump",
           NEW j \in off[v]..ImageLen, Flush(v, j)
    PROVE  /\ \A k \in Cells : disk'[k] = IF k <= j THEN Image(Good, vm[v])[k] ELSE Eof
           /\ \A k \in StateCells : disk'[k] \in Values \cup {Eof}
<1>1. \A k \in Cells : disk[k] = IF k <= off[v] THEN Image(Good, vm[v])[k] ELSE Eof
  BY DEF IInv, DumpIsPrefix
<1>2. off[v] \in 0..ImageLen /\ j \in 0..ImageLen
  BY Layout DEF IInv, TypeOK
<1>3. \A k \in StateCells : Image(Good, vm[v])[k] \in Values
  BY Layout DEF Image, IInv, NoHoles, VmStates
<1>4. \A k \in Cells : Image(Good, vm[v])[k] # Eof
  BY <1>3, SentinelsAssumption DEF Image, Good
<1>5. \A k \in Cells : disk'[k] = IF k <= j THEN Image(Good, vm[v])[k] ELSE Eof
  BY <1>1, <1>2, <1>4, Layout DEF Flush, FileWrite
<1> QED BY <1>3, <1>5, Layout

(* A process that ends leaves the other conjuncts true when it leaves no   *)
(* hole: nobody is in a pipeline afterwards.                               *)
LEMMA ExitKeepsIInv ==
    ASSUME IInv, TypeOK', NEW v \in Vmms, NEW st, Exit(v, st), pc[v] # "off",
           \A k \in StateCells : disk'[k] \in Values \cup {Eof}
    PROVE  IInv'
<1>1. \A w \in Vmms : pc'[w] = "off"
  BY DEF IInv, OneVmm, Exit, TypeOK
<1>2. (OneVmm /\ DumpIsPrefix /\ RestoreMatchesDisk)'
  BY <1>1 DEF OneVmm, DumpIsPrefix, RestoreMatchesDisk
<1>3. IdleStreams'
  BY Layout DEF IInv, OneVmm, IdleStreams, Exit, TypeOK
<1>4. NoHoles'
  BY BlankTypes DEF IInv, NoHoles, Exit, TypeOK
<1> QED BY <1>2, <1>3, <1>4 DEF IInv

(* What a read returns, when the whole file up to cell j is there.         *)
LEMMA ReadsMatch ==
    ASSUME IInv, NEW v \in Vmms, pc[v] = "restore",
           NEW e \in 0..ImageLen, NEW j \in off[v]..ImageLen, Fread(v, e, j)
    PROVE  /\ e <= j
           /\ \A k \in Cells : k <= j => Got(v, j)[k] = disk[k] /\ disk[k] # Eof
           /\ off'[v] = j /\ cur'[v] = e /\ rd'[v] = Got(v, j)
<1>1. \A k \in Cells : k <= off[v] => rd[v][k] = disk[k] /\ disk[k] # Eof
  BY DEF IInv, RestoreMatchesDisk
<1>2. off[v] \in 0..ImageLen /\ j \in 0..ImageLen
  BY Layout DEF IInv, TypeOK
<1>3. \A k \in Cells : k <= j => Got(v, j)[k] = disk[k] /\ disk[k] # Eof
  BY <1>1, <1>2, Layout DEF Got, Fread
<1> QED BY <1>2, <1>3, Layout DEF Fread, IInv, TypeOK

LEMMA IInvNext == ASSUME Exclusive PROVE IInv /\ [Next]_vars => IInv'
<1> SUFFICES ASSUME IInv, [Next]_vars PROVE IInv'
  OBVIOUS
<1>0. TypeOK /\ TypeOK'
  BY TypeNext DEF IInv
<1>1. CASE UNCHANGED vars
  BY <1>1, <1>0 DEF vars, IInv, OneVmm, IdleStreams, NoHoles, DumpIsPrefix, RestoreMatchesDisk
<1>a. ASSUME NEW v \in Vmms, pc[v] # "off", NEW w \in Vmms, w # v PROVE pc[w] = "off"
  BY <1>a DEF IInv, OneVmm
<1>2. ASSUME NEW v \in Vmms, Deploy(v) PROVE IInv'
  <2>1. \A w \in Vmms : pc'[w] = IF w = v THEN "run" ELSE "off"
    BY <1>2, <1>0 DEF Deploy, Alone, TypeOK
  <2>2. (OneVmm /\ IdleStreams /\ DumpIsPrefix /\ RestoreMatchesDisk)'
    BY <1>2, <2>1, <1>0 DEF Deploy, OneVmm, IdleStreams, DumpIsPrefix, RestoreMatchesDisk, IInv, TypeOK
  <2>3. NoHoles'
    BY <1>2, <1>0, BlankTypes DEF Deploy, NoHoles, IInv, TypeOK
  <2> QED BY <2>2, <2>3, <1>0 DEF IInv
<1>3. ASSUME NEW v \in Vmms, RestoreOpen(v) PROVE IInv'
  <2>1. \A w \in Vmms : pc'[w] = IF w = v THEN "restore" ELSE "off"
    BY <1>3, <1>0 DEF RestoreOpen, Alone, TypeOK
  <2>2. cur'[v] = 0 /\ off'[v] = 0
    BY <1>3 DEF RestoreOpen, IInv, IdleStreams
  <2>3. (OneVmm /\ DumpIsPrefix /\ RestoreMatchesDisk)'
    BY <2>1, <2>2, Layout DEF OneVmm, DumpIsPrefix, RestoreMatchesDisk, Cells
  <2>4. IdleStreams'
    BY <1>3, <2>1, <1>0 DEF RestoreOpen, IdleStreams, IInv
  <2>5. NoHoles'
    BY <1>3, <1>0, BlankTypes DEF RestoreOpen, NoHoles, IInv, TypeOK
  <2> QED BY <2>3, <2>4, <2>5, <1>0 DEF IInv
<1>4. ASSUME NEW v \in Vmms, GuestRun(v) PROVE IInv'
  <2>1. (OneVmm /\ IdleStreams)'
    BY <1>4 DEF GuestRun, IInv, OneVmm, IdleStreams
  <2>2. (DumpIsPrefix /\ RestoreMatchesDisk)'
    BY <1>4, <1>a DEF GuestRun, DumpIsPrefix, RestoreMatchesDisk
  <2>3. NoHoles'
    BY <1>4, <1>0 DEF GuestRun, IInv, NoHoles, VmStates, TypeOK
  <2> QED BY <2>1, <2>2, <2>3, <1>0 DEF IInv
<1>5. ASSUME NEW v \in Vmms, RequestSave(v) PROVE IInv'
  <2>1. \A w \in Vmms : pc'[w] = IF w = v THEN "saving" ELSE "off"
    BY <1>5, <1>0, <1>a DEF RequestSave, TypeOK
  <2>2. (OneVmm /\ IdleStreams /\ DumpIsPrefix /\ RestoreMatchesDisk)'
    BY <1>5, <2>1 DEF RequestSave, IInv, OneVmm, IdleStreams, DumpIsPrefix, RestoreMatchesDisk
  <2>3. NoHoles'
    BY <1>5, <1>0 DEF RequestSave, IInv, NoHoles, VmStates, TypeOK
  <2> QED BY <2>2, <2>3, <1>0 DEF IInv
<1>6. ASSUME NEW v \in Vmms, StopWithoutSave(v) PROVE IInv'
  BY <1>6, <1>0, ExitKeepsIInv DEF StopWithoutSave, IInv, NoHoles
<1>7. ASSUME NEW v \in Vmms, DumpOpen(v) PROVE IInv'
  <2>1. \A w \in Vmms : pc'[w] = IF w = v THEN "dump" ELSE "off"
    BY <1>7, <1>0, <1>a DEF DumpOpen, TypeOK
  <2>2. cur'[v] = 0 /\ off'[v] = 0
    BY <1>7 DEF DumpOpen, IInv, IdleStreams
  <2>3. (OneVmm /\ DumpIsPrefix /\ RestoreMatchesDisk)'
    BY <1>7, <2>1, <2>2, Layout
    DEF DumpOpen, EmptyFile, OneVmm, DumpIsPrefix, RestoreMatchesDisk, Cells
  <2>4. IdleStreams'
    BY <1>7, <2>1 DEF DumpOpen, IdleStreams, IInv
  <2>5. NoHoles'
    BY <1>7, Layout DEF DumpOpen, EmptyFile, NoHoles, IInv
  <2> QED BY <2>3, <2>4, <2>5, <1>0 DEF IInv
<1>8. ASSUME NEW v \in Vmms, DumpOpenFails(v) PROVE IInv'
  BY <1>8, <1>0, ExitKeepsIInv DEF DumpOpenFails, IInv, NoHoles
<1>9. ASSUME NEW v \in Vmms, DumpPart(v) PROVE IInv'
  <2>1. PICK j \in off[v]..PartEnd(cur[v]) :
          Flush(v, j) /\ off' = [off EXCEPT ![v] = j]
    BY <1>9 DEF DumpPart
  <2>2. /\ cur[v] \in 0..ImageLen - 1
        /\ PartEnd(cur[v]) \in 0..ImageLen
        /\ off[v] \in 0..ImageLen
        /\ j \in off[v]..ImageLen
    <3>1. cur[v] \in 0..ImageLen - 1 /\ off[v] \in 0..ImageLen
      BY <1>9, <1>0, Layout DEF DumpPart, TypeOK
    <3> QED BY <3>1, PartEndBounds, Layout
  <2>3. pc[v] = "dump" /\ UNCHANGED <<pc, vm>>
    BY <1>9 DEF DumpPart
  <2>4. /\ \A k \in Cells : disk'[k] = IF k <= j THEN Image(Good, vm[v])[k] ELSE Eof
        /\ \A k \in StateCells : disk'[k] \in Values \cup {Eof}
    BY <2>1, <2>2, <2>3, DumpWrites
  <2>5. off'[v] = j /\ cur'[v] = PartEnd(cur[v])
    BY <1>9, <2>1, <1>0 DEF DumpPart, TypeOK
  <2>6. DumpIsPrefix'
    BY <2>2, <2>3, <2>4, <2>5, <1>a DEF DumpIsPrefix
  <2>7. (OneVmm /\ RestoreMatchesDisk /\ NoHoles)'
    BY <2>3, <2>4, <1>a DEF IInv, OneVmm, RestoreMatchesDisk, NoHoles
  <2>8. IdleStreams'
    BY <1>9, <2>1, <2>3, <1>a DEF DumpPart, IInv, IdleStreams
  <2> QED BY <2>6, <2>7, <2>8, <1>0 DEF IInv
<1>10. ASSUME NEW v \in Vmms, DumpFails(v) PROVE IInv'
  <2>1. PICK j \in off[v]..PartEnd(cur[v]) - 1 : Flush(v, j)
    BY <1>10 DEF DumpFails
  <2>2. cur[v] \in 0..ImageLen - 1 /\ off[v] \in 0..ImageLen
    BY <1>10, <1>0, Layout DEF DumpFails, TypeOK
  <2>3. j \in off[v]..ImageLen
    BY <2>1, <2>2, PartEndBounds, Layout
  <2>4. \A k \in StateCells : disk'[k] \in Values \cup {Eof}
    BY <1>10, <2>1, <2>3, DumpWrites DEF DumpFails
  <2> QED BY <1>10, <1>0, <2>4, ExitKeepsIInv DEF DumpFails
<1>11. ASSUME NEW v \in Vmms, DumpClose(v) PROVE IInv'
  <2>1. \A k \in StateCells : disk'[k] \in Values \cup {Eof}
    BY <1>11, DumpWrites DEF DumpClose
  <2> QED BY <1>11, <1>0, <2>1, ExitKeepsIInv DEF DumpClose
<1>12. ASSUME NEW v \in Vmms, RestoreHeader(v) PROVE IInv'
  <2>1. PICK j \in off[v]..ImageLen : Fread(v, Header, j) /\ Got(v, j)[Header] = Good
    BY <1>12 DEF RestoreHeader
  <2>2. pc[v] = "restore" /\ UNCHANGED <<pc, vm, disk>>
    BY <1>12 DEF RestoreHeader
  <2>3. /\ Header <= j
        /\ \A k \in Cells : k <= j => Got(v, j)[k] = disk[k] /\ disk[k] # Eof
        /\ off'[v] = j /\ cur'[v] = Header /\ rd'[v] = Got(v, j)
    BY <2>1, <2>2, ReadsMatch, Layout
  <2>4. RestoreMatchesDisk'
    BY <2>1, <2>2, <2>3, <1>a, Layout DEF RestoreMatchesDisk, StateCells, Header, Regs
  <2>5. (OneVmm /\ NoHoles /\ DumpIsPrefix)'
    BY <2>2, <1>a DEF IInv, OneVmm, NoHoles, DumpIsPrefix
  <2>6. IdleStreams'
    BY <2>1, <2>2, <1>a DEF Fread, IInv, IdleStreams
  <2> QED BY <2>4, <2>5, <2>6, <1>0 DEF IInv
<1>13. ASSUME NEW v \in Vmms, RestorePart(v) PROVE IInv'
  <2>1. PICK j \in off[v]..ImageLen :
          /\ Fread(v, PartEnd(cur[v]), j)
          /\ vm' = [vm EXCEPT ![v] =
                      [k \in StateCells |-> IF cur[v] < k /\ k <= PartEnd(cur[v])
                                            THEN Got(v, j)[k] ELSE vm[v][k]]]
    BY <1>13 DEF RestorePart
  <2>2. /\ pc[v] = "restore" /\ UNCHANGED <<pc, disk>>
        /\ cur[v] \in Header..ImageLen - 1
    BY <1>13 DEF RestorePart
  <2>3. cur[v] \in 0..ImageLen - 1 /\ cur[v] > 0
    BY <2>2, Layout DEF Header
  <2>4. PartEnd(cur[v]) \in 0..ImageLen /\ PartEnd(cur[v]) > cur[v]
    BY <2>3, PartEndBounds
  <2>5. /\ PartEnd(cur[v]) <= j
        /\ \A k \in Cells : k <= j => Got(v, j)[k] = disk[k] /\ disk[k] # Eof
        /\ off'[v] = j /\ cur'[v] = PartEnd(cur[v]) /\ rd'[v] = Got(v, j)
    BY <2>1, <2>2, <2>4, ReadsMatch
  <2>6. vm'[v] = [k \in StateCells |-> IF cur[v] < k /\ k <= PartEnd(cur[v])
                                       THEN Got(v, j)[k] ELSE vm[v][k]]
    BY <2>1, <1>0 DEF TypeOK
  <2>j. j \in 0..ImageLen
    BY <1>0, Layout DEF TypeOK
  <2>7. \A k \in StateCells : k <= PartEnd(cur[v]) => vm'[v][k] = disk[k]
    BY <2>2, <2>4, <2>5, <2>6, <2>j, Layout DEF IInv, RestoreMatchesDisk
  <2>8. disk[Header] = Good
    BY <2>2, <2>3 DEF IInv, RestoreMatchesDisk
  <2>9. RestoreMatchesDisk'
    BY <2>2, <2>5, <2>7, <2>8, <1>a DEF RestoreMatchesDisk
  <2>10. NoHoles'
    <3>1. \A k \in StateCells : vm'[v][k] \in Values
      BY <2>4, <2>5, <2>6, <2>j, Layout DEF IInv, NoHoles, VmStates
    <3>2. vm'[v] \in VmStates
      BY <3>1, <2>6 DEF VmStates
    <3> QED BY <2>1, <2>2, <3>2, <1>0 DEF IInv, NoHoles, TypeOK
  <2>11. (OneVmm /\ DumpIsPrefix)'
    BY <2>2, <1>a DEF IInv, OneVmm, DumpIsPrefix
  <2>12. IdleStreams'
    BY <2>1, <2>2, <1>a DEF Fread, IInv, IdleStreams
  <2> QED BY <2>9, <2>10, <2>11, <2>12, <1>0 DEF IInv
<1>14. ASSUME NEW v \in Vmms, RestoreClose(v) PROVE IInv'
  <2>1. \A w \in Vmms : pc'[w] = IF w = v THEN "run" ELSE "off"
    BY <1>14, <1>0, <1>a DEF RestoreClose, TypeOK
  <2>2. (OneVmm /\ DumpIsPrefix /\ RestoreMatchesDisk)'
    BY <2>1 DEF OneVmm, DumpIsPrefix, RestoreMatchesDisk
  <2>3. (IdleStreams /\ NoHoles)'
    BY <1>14, <1>0 DEF RestoreClose, IInv, IdleStreams, NoHoles, TypeOK
  <2> QED BY <2>2, <2>3, <1>0 DEF IInv
<1>15. ASSUME NEW v \in Vmms, RestoreFails(v) PROVE IInv'
  BY <1>15, <1>0, ExitKeepsIInv DEF RestoreFails, IInv, NoHoles
<1>16. ASSUME NEW v \in Vmms, Crash(v) PROVE IInv'
  BY <1>16, <1>0, ExitKeepsIInv DEF Crash, IInv, NoHoles
<1> QED BY <1>1, <1>2, <1>3, <1>4, <1>5, <1>6, <1>7, <1>8, <1>9, <1>10, <1>11,
           <1>12, <1>13, <1>14, <1>15, <1>16 DEF Next, Running, Dumping, Restoring

(* IInv is an invariant when one VMM at a time uses the file.              *)
THEOREM Invariance == ASSUME Exclusive PROVE Spec => []IInv
<1>1. Init => IInv BY IInvInit
<1>2. IInv /\ [Next]_vars => IInv' BY IInvNext
<1> QED BY <1>1, <1>2, PTL DEF Spec

(* The file under a dump is always the part of the image of the stopped VM *)
(* that the stream has written.                                            *)
THEOREM DumpTheorem == ASSUME Exclusive PROVE Spec => []DumpIsPrefix
<1>1. IInv => DumpIsPrefix BY DEF IInv
<1> QED BY <1>1, Invariance, PTL

(* What a restore under way has put into the VM is what the file holds.    *)
THEOREM RestoreTheorem == ASSUME Exclusive PROVE Spec => []RestoreMatchesDisk
<1>1. IInv => RestoreMatchesDisk BY DEF IInv
<1> QED BY <1>1, Invariance, PTL

----------------------------------------------------------------------------
(* A step that takes a VM from a restore into the vCPU loop is the close   *)
(* of a file that was read to the end.                                     *)
LEMMA ResumeStep ==
    ASSUME IInv, [Next]_vars, NEW v \in Vmms, pc[v] = "restore", pc'[v] = "run"
    PROVE  Complete /\ vm'[v] = DiskState
<1>1. TypeOK
  BY DEF IInv
<1>2. RestoreClose(v)
  BY <1>1 DEF Next, vars, Running, Dumping, Restoring, Deploy, RestoreOpen, GuestRun,
     RequestSave, StopWithoutSave, DumpOpen, DumpOpenFails, DumpPart, DumpFails, DumpClose,
     RestoreHeader, RestorePart, RestoreClose, RestoreFails, Crash, Exit, TypeOK, Phases
<1>3. cur[v] = ImageLen /\ off[v] = ImageLen /\ vm' = vm
  BY <1>1, <1>2, Layout DEF RestoreClose, IInv, RestoreMatchesDisk, TypeOK
<1>4. Complete
  BY <1>3, Layout DEF Complete, IInv, RestoreMatchesDisk
<1>5. \A k \in StateCells : vm[v][k] = disk[k]
  BY <1>3, Layout DEF IInv, RestoreMatchesDisk
<1>6. vm[v] = [k \in StateCells |-> disk[k]]
  BY <1>1, <1>5 DEF TypeOK
<1> QED BY <1>3, <1>4, <1>6 DEF DiskState

(* A VM never resumes from anything but the whole state of one complete    *)
(* image.                                                                  *)
THEOREM ResumeTheorem == ASSUME Exclusive PROVE Spec => ResumesWholeImage
<1>1. IInv /\ [Next]_vars =>
        [\A v \in Vmms : pc[v] = "restore" /\ pc'[v] = "run" =>
            Complete /\ vm'[v] = DiskState]_vars
  BY ResumeStep
<1> QED BY <1>1, Invariance, PTL DEF Spec, ResumesWholeImage

(* A dump that ends before its last call leaves a file without its last    *)
(* cell.                                                                   *)
LEMMA FailedDumpStep ==
    ASSUME IInv, [Next]_vars, NEW v \in Vmms,
           pc[v] = "dump", cur[v] < ImageLen, pc'[v] = "off"
    PROVE  ~Complete'
<1>1. TypeOK
  BY DEF IInv
<1>2. DumpFails(v) \/ Crash(v)
  BY <1>1 DEF Next, vars, Running, Dumping, Restoring, Deploy, RestoreOpen, GuestRun,
     RequestSave, StopWithoutSave, DumpOpen, DumpOpenFails, DumpPart, DumpFails, DumpClose,
     RestoreHeader, RestorePart, RestoreClose, RestoreFails, Crash, Exit, TypeOK, Phases
<1>3. off[v] < ImageLen /\ cur[v] \in 0..ImageLen - 1 /\ off[v] \in 0..ImageLen
  BY <1>1, Layout DEF IInv, DumpIsPrefix, TypeOK
<1>4. disk'[ImageLen] = Eof
  <2>1. CASE Crash(v)
    BY <2>1, <1>3, Layout DEF Crash, IInv, DumpIsPrefix
  <2>2. CASE DumpFails(v)
    <3>1. PICK j \in off[v]..PartEnd(cur[v]) - 1 : Flush(v, j)
      BY <2>2 DEF DumpFails
    <3>2. j \in off[v]..ImageLen /\ j < ImageLen
      BY <3>1, <1>3, PartEndBounds, Layout
    <3> QED BY <3>1, <3>2, DumpWrites, Layout
  <2> QED BY <1>2, <2>1, <2>2
<1> QED BY <1>4, Layout DEF Complete

(* A dump that reports failure after it opened the file leaves nothing     *)
(* that a later restore accepts.                                           *)
THEOREM FailedDumpTheorem == ASSUME Exclusive PROVE Spec => FailedDumpIsRefused
<1>1. IInv /\ [Next]_vars =>
        [\A v \in Vmms : pc[v] = "dump" /\ cur[v] < ImageLen /\ pc'[v] = "off" =>
            ~Complete']_vars
  BY FailedDumpStep
<1> QED BY <1>1, Invariance, PTL DEF Spec, FailedDumpIsRefused

(* A dump that ends has written the whole image or has left the file       *)
(* without its last cell.                                                  *)
LEMMA EndedDumpStep ==
    ASSUME IInv, [Next]_vars, NEW v \in Vmms, pc[v] = "dump", pc'[v] = "off"
    PROVE  ~Complete' \/ DiskState' = vm[v]
<1>1. TypeOK
  BY DEF IInv
<1>2. CASE cur[v] < ImageLen
  BY <1>2, FailedDumpStep
<1>3. CASE cur[v] = ImageLen
  <2>1. DumpClose(v) \/ Crash(v)
    <3>3. ASSUME NEW w \in Vmms, StopWithoutSave(w) PROVE FALSE
      BY <1>1, <3>3 DEF StopWithoutSave, Exit, TypeOK, Phases
    <3>1. DumpFails(v) \/ DumpClose(v) \/ Crash(v)
      BY <1>1, <3>3 DEF Next, vars, Running, Dumping, Restoring, Deploy, RestoreOpen, GuestRun,
         RequestSave, DumpOpen, DumpOpenFails, DumpPart, DumpFails,
         DumpClose, RestoreHeader, RestorePart, RestoreClose, RestoreFails, Crash, Exit,
         TypeOK, Phases
    <3>2. ~(cur[v] < ImageLen)
      BY <1>3, Layout
    <3> QED BY <3>1, <3>2 DEF DumpFails
  <2>2. PICK j \in off[v]..ImageLen :
            \A k \in Cells : disk'[k] = IF k <= j THEN Image(Good, vm[v])[k] ELSE Eof
    <3>1. CASE DumpClose(v)
      BY <3>1, DumpWrites DEF DumpClose
    <3>2. CASE Crash(v)
      <4>1. off[v] \in off[v]..ImageLen
        BY <1>1, Layout DEF TypeOK
      <4>2. disk' = disk
        BY <3>2 DEF Crash
      <4>3. \A k \in Cells : disk[k] = IF k <= off[v] THEN Image(Good, vm[v])[k] ELSE Eof
        BY DEF IInv, DumpIsPrefix
      <4> QED BY <4>1, <4>2, <4>3
    <3> QED BY <2>1, <3>1, <3>2
  <2>3. CASE j < ImageLen
    BY <2>2, <2>3, Layout DEF Complete
  <2>4. CASE j = ImageLen
    <3>1. \A k \in StateCells : disk'[k] = vm[v][k]
      BY <2>2, <2>4, Layout DEF Image
    <3>2. vm[v] \in VmStates
      BY DEF IInv, NoHoles
    <3> QED BY <3>1, <3>2 DEF DiskState, VmStates
  <2> QED BY <1>1, <2>3, <2>4, Layout DEF TypeOK
<1> QED BY <1>1, <1>2, <1>3, Layout DEF TypeOK

(* An image that is accepted when a dump has ended, or when a VMM exits    *)
(* with 0, is never an older one.                                          *)
THEOREM NoStaleTheorem == ASSUME Exclusive PROVE Spec => NoStaleImage
<1>1. ASSUME IInv, [Next]_vars, NEW v \in Vmms, status[v] # "saved", status'[v] = "saved"
      PROVE  pc[v] = "dump" /\ pc'[v] = "off"
  BY <1>1 DEF IInv, TypeOK, Next, vars, Running, Dumping, Restoring, Deploy, RestoreOpen,
     GuestRun, RequestSave, StopWithoutSave, DumpOpen, DumpOpenFails, DumpPart, DumpFails,
     DumpClose, RestoreHeader, RestorePart, RestoreClose, RestoreFails, Crash, Exit
<1>2. IInv /\ [Next]_vars =>
        [\A v \in Vmms :
            \/ pc[v] = "dump" /\ pc'[v] = "off"
            \/ status[v] # "saved" /\ status'[v] = "saved"
            => ~Complete' \/ DiskState' = vm[v]]_vars
  BY <1>1, EndedDumpStep
<1> QED BY <1>2, Invariance, PTL DEF Spec, NoStaleImage

----------------------------------------------------------------------------
(* The refinement.  A restore up to its last read is invisible to the      *)
(* abstract specification; opening the file for a dump discards the image, *)
(* and the write of its last cell commits the new one.                     *)

(* What a file stands for.                                                 *)
SavedIn(d) == IF d[Header] = Good /\ \A k \in Cells : d[k] # Eof
              THEN [k \in StateCells |-> d[k]] ELSE None

(* While a dump is under way the file stands for nothing until its last    *)
(* cell is written, then for the stopped VM.                               *)
LEMMA DumpedState ==
    ASSUME NEW s \in VmStates, NEW d \in [Cells -> Contents], NEW j \in 0..ImageLen,
           \A k \in Cells : d[k] = IF k <= j THEN Image(Good, s)[k] ELSE Eof
    PROVE  SavedIn(d) = IF j < ImageLen THEN None ELSE s
<1>1. CASE j < ImageLen
  BY <1>1, Layout DEF SavedIn
<1>2. CASE j = ImageLen
  <2>1. \A k \in Cells : d[k] = Image(Good, s)[k]
    BY <1>2, Layout
  <2>2. \A k \in StateCells : d[k] = s[k] /\ s[k] \in Values
    BY <2>1, Layout DEF Image, VmStates
  <2>3. d[Header] = Good
    BY <2>1, Layout DEF Image
  <2>4. \A k \in Cells : d[k] # Eof
    BY <2>1, <2>2, SentinelsAssumption DEF Image, Good
  <2>5. [k \in StateCells |-> d[k]] = s
    BY <2>2 DEF VmStates
  <2>6. SavedIn(d) = [k \in StateCells |-> d[k]]
    BY <2>3, <2>4 DEF SavedIn
  <2>7. ~(j < ImageLen)
    BY <1>2, Layout
  <2> QED BY <2>5, <2>6, <2>7
<1> QED BY <1>1, <1>2, Layout

LEMMA SavedDuringDump ==
    ASSUME IInv, NEW v \in Vmms, pc[v] = "dump"
    PROVE  SavedState = IF off[v] < ImageLen THEN None ELSE vm[v]
<1>1. \A k \in Cells : disk[k] = IF k <= off[v] THEN Image(Good, vm[v])[k] ELSE Eof
  BY DEF IInv, DumpIsPrefix
<1>2. off[v] \in 0..ImageLen /\ vm[v] \in VmStates /\ disk \in [Cells -> Contents]
  BY DEF IInv, TypeOK, NoHoles
<1>3. SavedIn(disk) = IF off[v] < ImageLen THEN None ELSE vm[v]
  BY <1>1, <1>2, DumpedState
<1> QED BY <1>3 DEF SavedState, Complete, DiskState, SavedIn

LEMMA SavedAfterWrite ==
    ASSUME IInv, TypeOK', NEW v \in Vmms, pc[v] = "dump",
           NEW j \in off[v]..ImageLen, Flush(v, j)
    PROVE  SavedState' = IF j < ImageLen THEN None ELSE vm[v]
<1>1. \A k \in Cells : disk'[k] = IF k <= j THEN Image(Good, vm[v])[k] ELSE Eof
  BY DumpWrites
<1>2. j \in 0..ImageLen /\ vm[v] \in VmStates /\ disk' \in [Cells -> Contents]
  BY Layout DEF IInv, TypeOK, NoHoles
<1>3. SavedIn(disk') = IF j < ImageLen THEN None ELSE vm[v]
  BY <1>1, <1>2, DumpedState
<1> QED BY <1>3 DEF SavedState, Complete, DiskState, SavedIn

LEMMA SavedType == ASSUME IInv PROVE SavedState \in VmStates \cup {None}
BY Layout DEF SavedState, DiskState, Complete, VmStates, IInv, NoHoles

(* How a step of v shows in the abstract VMs.                              *)
LEMMA MapOne ==
    ASSUME TypeOK, NEW v \in Vmms, NEW p, NEW s,
           pc' = [pc EXCEPT ![v] = p], vm' = [vm EXCEPT ![v] = s]
    PROVE  /\ AbsMode' = [AbsMode EXCEPT ![v] = ModeOf(p)]
           /\ AbsVm' = [AbsVm EXCEPT ![v] = IF ModeOf(p) = "none" THEN None ELSE s]
BY DEF TypeOK, AbsMode, AbsVm

LEMMA MapMode == ASSUME NEW v \in Vmms
                 PROVE  /\ AbsMode[v] = ModeOf(pc[v])
                        /\ AbsVm[v] = IF ModeOf(pc[v]) = "none" THEN None ELSE vm[v]
BY DEF AbsMode, AbsVm

LEMMA MapSame == /\ UNCHANGED <<pc, vm>> => UNCHANGED <<AbsMode, AbsVm>>
                 /\ UNCHANGED disk => UNCHANGED SavedState
BY DEF AbsMode, AbsVm, ModeOf, SavedState, Complete, DiskState

(* A process that ends is an abstract End, or nothing when it had no VM.   *)
LEMMA MapExit ==
    ASSUME TypeOK, NEW v \in Vmms, NEW st, Exit(v, st),
           \/ UNCHANGED SavedState
           \/ ModeOf(pc[v]) = "saving" /\ SavedState = None /\ SavedState' = vm[v]
    PROVE  [CM!Next]_CM!vars
<1>1. /\ AbsMode' = [AbsMode EXCEPT ![v] = "none"]
      /\ AbsVm' = [AbsVm EXCEPT ![v] = None]
  <2>1. pc' = [pc EXCEPT ![v] = "off"] /\ vm' = [vm EXCEPT ![v] = BlankVm]
    BY DEF Exit
  <2>2. ModeOf("off") = "none"
    BY DEF ModeOf
  <2> QED BY <2>1, <2>2, MapOne
<1>2. CASE ModeOf(pc[v]) = "none"
  BY <1>1, <1>2, MapMode DEF CM!vars, AbsMode, AbsVm
<1>3. CASE ModeOf(pc[v]) # "none"
  BY <1>1, <1>3, MapMode DEF CM!Next, CM!End
<1> QED BY <1>2, <1>3

LEMMA MapStep == ASSUME Exclusive, IInv, IInv', [Next]_vars PROVE [CM!Next]_CM!vars
<1>0. TypeOK /\ TypeOK'
  BY DEF IInv
<1>1. CASE UNCHANGED vars
  BY <1>1, MapSame DEF vars, CM!vars
<1>2. ASSUME NEW v \in Vmms, Deploy(v) PROVE [CM!Next]_CM!vars
  <2>1. /\ AbsMode' = [AbsMode EXCEPT ![v] = "live"]
        /\ AbsVm' = [AbsVm EXCEPT ![v] = BlankVm]
    BY <1>0, <1>2, MapOne DEF Deploy, ModeOf
  <2>2. AbsMode[v] = "none" /\ UNCHANGED SavedState
    BY <1>2, MapMode, MapSame DEF Deploy, ModeOf
  <2> QED BY <2>1, <2>2, BlankTypes DEF CM!Next, CM!Deploy, CM!Change, AbsVm
<1>3. ASSUME NEW v \in Vmms, RestoreOpen(v) PROVE [CM!Next]_CM!vars
  <2>1. /\ AbsMode' = [AbsMode EXCEPT ![v] = "none"]
        /\ AbsVm' = [AbsVm EXCEPT ![v] = None]
    <3>1. /\ pc' = [pc EXCEPT ![v] = "restore"]
          /\ vm' = [vm EXCEPT ![v] = BlankVm]
      BY <1>3 DEF RestoreOpen
    <3>2. ModeOf("restore") = "none"
      BY DEF ModeOf
    <3>3. /\ AbsMode' = [AbsMode EXCEPT ![v] = ModeOf("restore")]
          /\ AbsVm' = [AbsVm EXCEPT ![v] = IF ModeOf("restore") = "none"
                                           THEN None ELSE BlankVm]
      BY <1>0, <3>1, MapOne
    <3> QED BY <3>2, <3>3
  <2>2. AbsMode[v] = "none" /\ AbsVm[v] = None /\ UNCHANGED SavedState
    BY <1>3, MapMode, MapSame DEF RestoreOpen, ModeOf
  <2> QED BY <2>1, <2>2 DEF CM!vars, AbsMode, AbsVm
<1>4. ASSUME NEW v \in Vmms, GuestRun(v) PROVE [CM!Next]_CM!vars
  <2>1. PICK s \in VmStates : vm' = [vm EXCEPT ![v] = s]
    <3>1. PICK k \in StateCells, x \in Values : vm' = [vm EXCEPT ![v][k] = x]
      BY <1>4 DEF GuestRun
    <3>2. [vm[v] EXCEPT ![k] = x] \in VmStates
      BY DEF IInv, NoHoles, VmStates
    <3> QED BY <3>1, <3>2
  <2>2. pc' = [pc EXCEPT ![v] = "run"]
    BY <1>0, <1>4 DEF GuestRun, TypeOK
  <2>3. /\ AbsMode' = [AbsMode EXCEPT ![v] = "live"]
        /\ AbsVm' = [AbsVm EXCEPT ![v] = s]
    BY <1>0, <2>1, <2>2, MapOne DEF ModeOf
  <2>4. AbsMode[v] = "live" /\ UNCHANGED SavedState
    BY <1>4, MapMode, MapSame DEF GuestRun, ModeOf
  <2>5. UNCHANGED AbsMode
    BY <1>4 DEF GuestRun, AbsMode
  <2> QED BY <2>3, <2>4, <2>5 DEF CM!Next, CM!Run, CM!Change, AbsVm
<1>5. ASSUME NEW v \in Vmms, RequestSave(v) PROVE [CM!Next]_CM!vars
  <2>1. PICK s \in VmStates : vm' = [vm EXCEPT ![v] = s]
    <3>1. PICK x \in Values : vm' = [vm EXCEPT ![v][Regs] = x]
      BY <1>5 DEF RequestSave
    <3>2. [vm[v] EXCEPT ![Regs] = x] \in VmStates
      BY DEF IInv, NoHoles, VmStates
    <3> QED BY <3>1, <3>2
  <2>2. /\ AbsMode' = [AbsMode EXCEPT ![v] = "saving"]
        /\ AbsVm' = [AbsVm EXCEPT ![v] = s]
    BY <1>0, <1>5, <2>1, MapOne DEF RequestSave, ModeOf
  <2>3. AbsMode[v] = "live" /\ UNCHANGED SavedState
    BY <1>5, MapMode, MapSame DEF RequestSave, ModeOf
  <2> QED BY <2>2, <2>3 DEF CM!Next, CM!StopToSave, CM!Change, AbsVm
<1>6. ASSUME NEW v \in Vmms, StopWithoutSave(v) PROVE [CM!Next]_CM!vars
  BY <1>0, <1>6, MapExit, MapSame DEF StopWithoutSave
<1>7. ASSUME NEW v \in Vmms, DumpOpen(v) PROVE [CM!Next]_CM!vars
  <2>1. AbsMode[v] = "saving"
    BY <1>7, MapMode DEF DumpOpen, ModeOf
  <2>2. UNCHANGED <<AbsMode, AbsVm>>
    BY <1>0, <1>7 DEF DumpOpen, AbsMode, AbsVm, ModeOf, TypeOK
  <2>3. SavedState' = None
    BY <1>7, Layout DEF DumpOpen, EmptyFile, SavedState, Complete
  <2> QED BY <2>1, <2>2, <2>3 DEF CM!Next, CM!Discard
<1>8. ASSUME NEW v \in Vmms, DumpOpenFails(v) PROVE [CM!Next]_CM!vars
  BY <1>0, <1>8, MapExit, MapSame DEF DumpOpenFails
<1>9. ASSUME NEW v \in Vmms, DumpPart(v) PROVE [CM!Next]_CM!vars
  <2>1. PICK j \in off[v]..PartEnd(cur[v]) : Flush(v, j)
    BY <1>9 DEF DumpPart
  <2>2. cur[v] \in 0..ImageLen - 1 /\ off[v] \in 0..ImageLen /\ off[v] <= cur[v]
    BY <1>0, <1>9, Layout DEF DumpPart, TypeOK, IInv, DumpIsPrefix
  <2>3. j \in off[v]..ImageLen
    BY <2>1, <2>2, PartEndBounds, Layout
  <2>4. SavedState = None
    BY <1>9, <2>2, SavedDuringDump, Layout DEF DumpPart
  <2>5. SavedState' \in {None, vm[v]}
    BY <1>0, <1>9, <2>1, <2>3, SavedAfterWrite DEF DumpPart
  <2>6. AbsMode[v] = "saving" /\ AbsVm[v] = vm[v] /\ UNCHANGED <<AbsMode, AbsVm>>
    BY <1>9, MapMode, MapSame DEF DumpPart, ModeOf
  <2> QED BY <2>4, <2>5, <2>6 DEF CM!Next, CM!Commit, CM!Discard
<1>10. ASSUME NEW v \in Vmms, DumpFails(v) PROVE [CM!Next]_CM!vars
  <2>1. PICK j \in off[v]..PartEnd(cur[v]) - 1 : Flush(v, j)
    BY <1>10 DEF DumpFails
  <2>2. cur[v] \in 0..ImageLen - 1 /\ off[v] \in 0..ImageLen /\ off[v] <= cur[v]
    BY <1>0, <1>10, Layout DEF DumpFails, TypeOK, IInv, DumpIsPrefix
  <2>3. j \in off[v]..ImageLen /\ j < ImageLen
    BY <2>1, <2>2, PartEndBounds, Layout
  <2>4. SavedState = None /\ SavedState' = None
    BY <1>0, <1>10, <2>1, <2>2, <2>3, SavedDuringDump, SavedAfterWrite, Layout DEF DumpFails
  <2> QED BY <1>0, <1>10, <2>4, MapExit DEF DumpFails
<1>11. ASSUME NEW v \in Vmms, DumpClose(v) PROVE [CM!Next]_CM!vars
  <2>1. PICK j \in off[v]..ImageLen : Flush(v, j)
    BY <1>11 DEF DumpClose
  <2>2. SavedState = IF off[v] < ImageLen THEN None ELSE vm[v]
    BY <1>11, SavedDuringDump DEF DumpClose
  <2>3. SavedState' = IF j < ImageLen THEN None ELSE vm[v]
    BY <1>0, <1>11, <2>1, SavedAfterWrite DEF DumpClose
  <2>4. off[v] \in 0..ImageLen /\ j \in 0..ImageLen
    BY <1>0, Layout DEF TypeOK
  <2>5. ModeOf(pc[v]) = "saving"
    BY <1>11 DEF DumpClose, ModeOf
  <2>6. \/ UNCHANGED SavedState
        \/ SavedState = None /\ SavedState' = vm[v]
    BY <2>1, <2>2, <2>3, <2>4, Layout
  <2> QED BY <1>0, <1>11, <2>5, <2>6, MapExit DEF DumpClose
<1>12. ASSUME NEW v \in Vmms, RestoreHeader(v) PROVE [CM!Next]_CM!vars
  BY <1>12, MapSame DEF RestoreHeader, CM!vars
<1>13. ASSUME NEW v \in Vmms, RestorePart(v) PROVE [CM!Next]_CM!vars
  <2>1. UNCHANGED <<AbsMode, AbsVm, SavedState>>
    BY <1>0, <1>13, MapSame DEF RestorePart, AbsMode, AbsVm, ModeOf, TypeOK
  <2> QED BY <2>1 DEF CM!vars
<1>14. ASSUME NEW v \in Vmms, RestoreClose(v) PROVE [CM!Next]_CM!vars
  <2>1. pc[v] = "restore" /\ pc'[v] = "run"
    BY <1>0, <1>14 DEF RestoreClose, TypeOK
  <2>2. Complete /\ vm'[v] = DiskState
    BY <2>1, ResumeStep
  <2>3. vm' = [vm EXCEPT ![v] = DiskState]
    BY <1>0, <1>14, <2>2 DEF RestoreClose, TypeOK
  <2>4. /\ AbsMode' = [AbsMode EXCEPT ![v] = "live"]
        /\ AbsVm' = [AbsVm EXCEPT ![v] = DiskState]
    BY <1>0, <1>14, <2>3, MapOne DEF RestoreClose, ModeOf
  <2>5. AbsMode[v] = "none" /\ UNCHANGED SavedState
    BY <1>14, MapMode, MapSame DEF RestoreClose, ModeOf
  <2>6. SavedState = DiskState /\ SavedState # None
    <3>1. DiskState = vm'[v] /\ vm'[v] \in VmStates
      BY <2>2 DEF IInv, NoHoles
    <3> QED BY <2>2, <3>1, ConstantsAssumption DEF SavedState, VmStates, StateCells, Regs
  <2> QED BY <2>4, <2>5, <2>6 DEF CM!Next, CM!Resume
<1>15. ASSUME NEW v \in Vmms, RestoreFails(v) PROVE [CM!Next]_CM!vars
  BY <1>0, <1>15, MapExit, MapSame DEF RestoreFails
<1>16. ASSUME NEW v \in Vmms, Crash(v) PROVE [CM!Next]_CM!vars
  BY <1>0, <1>16, MapExit, MapSame DEF Crash
<1> QED BY <1>1, <1>2, <1>3, <1>4, <1>5, <1>6, <1>7, <1>8, <1>9, <1>10, <1>11,
           <1>12, <1>13, <1>14, <1>15, <1>16 DEF Next, Running, Dumping, Restoring

(* The dump and restore pipelines, run by one VMM at a time, implement the *)
(* abstract cold migration.                                                *)
THEOREM Refinement == ASSUME Exclusive PROVE Spec => ImplementsColdMigration
<1>1. Init => CM!Init
  <2> SUFFICES ASSUME Init PROVE CM!Init
    OBVIOUS
  <2>1. AbsMode = [v \in Vmms |-> "none"] /\ AbsVm = [v \in Vmms |-> None]
    BY DEF Init, AbsMode, AbsVm, ModeOf
  <2> QED BY <2>1, IInvInit, SavedType DEF CM!Init
<1>2. IInv /\ IInv' /\ [Next]_vars => [CM!Next]_CM!vars
  BY MapStep
<1> QED BY <1>1, <1>2, Invariance, PTL DEF Spec, ImplementsColdMigration, CM!Spec
=============================================================================
