--------------------------- MODULE TransferProofs ---------------------------
(***************************************************************************)
(* What a build moves in and out of the pool, for any networks, disks and  *)
(* configurations, any number of failing calls and however long a broken   *)
(* import holds its VDI: a machine is made of a whole image, and a build   *)
(* that keeps nothing has named what it leaves behind.                     *)
(***************************************************************************)
EXTENDS Transfers, WellFoundedInduction, FiniteSetTheorems, TLAPS

(* All of the image is in the VDI and nothing writes to it any more.       *)
Written == content = "whole" /\ import = "over"

(* Who has been told that the import is through.                           *)
WrittenInv ==
    /\ task = "success" => Written
    /\ upload = "asking" => Written
    /\ upload = "continued" /\ choice.image => Written
    /\ vm # "absent" /\ choice.image => Written

(* The VDI of the upload is in the bag or in a message from the moment its *)
(* UUID was asked for, to the end of the build.                            *)
VdiInv ==
    /\ vdi = "present" =>
         vdiUuid = "put" \/ upload = "created" \/ "upload" \in reported
    /\ upload = "clean" /\ ~choice.keep /\ vdi = "present" => "upload" \in reported

(* The machine comes after the upload and goes before its VDI does.        *)
OrderInv ==
    /\ at # "idle" => upload \in {"continued", "destroying", "clean"}
    /\ upload \in {"destroying", "clean"} => at \in {"idle", "clean"}
    /\ at = "idle" => vm = "absent"
    /\ vm = "absent" => disks = {}

(* What the cleanup of the machine has left it has named.                  *)
MachineInv ==
    at = "clean" /\ ~choice.keep =>
        (vm = "present" => "vm" \in reported) /\ disks \subseteq reported

TransferInv == WrittenInv /\ VdiInv /\ OrderInv /\ MachineInv

LEMMA InitTransfers == Init => TransferInv
  BY DEF Init, UploadInit, MachineInit, TransferInv, WrittenInv, VdiInv, OrderInv, MachineInv

(* The steps of the upload.                                                *)
LEMMA UploadingKeeps ==
    ASSUME TransferInv, Uploading \/ GivesUp
    PROVE  TransferInv'
<1> USE DEF TransferInv, WrittenInv, VdiInv, OrderInv, MachineInv, Written
<1>1. at = "idle" /\ vm = "absent" /\ disks = {}
      /\ at' = at /\ vm' = vm /\ disks' = disks
  BY DEF Uploading, GivesUp, WaitGivesUp, machineVars
<1>2. CASE CreateVdi
  BY <1>1, <1>2 DEF CreateVdi, cleaning
<1>3. CASE GetUuid
  BY <1>1, <1>3 DEF GetUuid, Says, xapi, cleaning
<1>4. CASE CreateTask
  BY <1>1, <1>4 DEF CreateTask, cleaning
<1>5. ASSUME UploadBreaks, upload \in {"sending", "waiting"}
      PROVE  TransferInv'
  BY <1>1, <1>5 DEF UploadBreaks, cleaning
<1>6. CASE Do
  <2>1. CASE UploadBreaks
    BY <1>5, <1>6, <2>1 DEF Do
  <2>2. CASE ~UploadBreaks
    BY <1>1, <1>6, <2>2 DEF Do, xapi, cleaning
  <2> QED
    BY <2>1, <2>2
<1>7. CASE WaitEndsWell
  BY <1>1, <1>7 DEF WaitEndsWell, TaskSucceeded, xapi, cleaning
<1>8. CASE WaitEndsBadly \/ WaitGivesUp
  BY <1>5, <1>8 DEF WaitEndsBadly, WaitGivesUp
<1>9. CASE GetResult
  BY <1>1, <1>9 DEF GetResult, cleaning
<1> QED
  BY <1>2, <1>3, <1>4, <1>6, <1>7, <1>8, <1>9 DEF Uploading, RunUpload, GivesUp

(* XAPI's part: the import writes, ends, fails or lets go; an exposure     *)
(* expires.                                                                *)
LEMMA PoolKeeps ==
    ASSUME TransferInv, Pool
    PROVE  TransferInv'
<1> USE DEF TransferInv, WrittenInv, VdiInv, OrderInv, MachineInv, Written
<1>1. CASE Import /\ UNCHANGED machineVars
  <2>1. at' = at /\ vm' = vm /\ disks' = disks
    BY <1>1 DEF machineVars
  <2>2. UNCHANGED <<upload, vdi, vdiUuid, choice, reported>>
    BY <1>1 DEF Import, ImportBegins, ImportReads, ImportEnds, ImportFails, SecondPasses
  <2>3. Written => Written'
    BY <1>1 DEF Import, ImportBegins, ImportReads, ImportEnds, ImportFails, SecondPasses
  <2>4. task' = "success" => task = "success" \/ Written'
    BY <1>1 DEF Import, ImportBegins, ImportReads, ImportEnds, ImportFails, SecondPasses, Status
  <2> QED
    BY <2>1, <2>2, <2>3, <2>4
<1>2. CASE ExposureExpires /\ UNCHANGED uploadVars
  BY <1>2 DEF ExposureExpires, uploadVars, xapi
<1> QED
  BY <1>1, <1>2 DEF Pool

(* The steps of the machine: it is made when the upload has gone on, and   *)
(* then stays with its disks until its cleanup.                            *)
LEMMA MachineRunsKeeps ==
    ASSUME TransferInv, MachineRuns
    PROVE  TransferInv'
<1>1. /\ upload = "continued"
      /\ UNCHANGED <<upload, vdi, content, vdiUuid, task, import>>
  BY DEF MachineRuns, uploadVars, xapi
<1>2. UNCHANGED <<choice, reported>>
  BY DEF MachineRuns, RunMachine, CloneTemplate, ConnectManagement, ConnectNetworks,
     ConnectByName, TagMachine, BeginExport, DestroyVif, ConnectExportNetworks, ExportXva,
     ExportOther, Expose, ExportDisk, NextDisk
<1>3. at # "clean" /\ at' \notin {"idle", "clean"}
  BY DEF MachineRuns, RunMachine, CloneTemplate, ConnectManagement, ConnectNetworks,
     ConnectByName, TagMachine, BeginExport, DestroyVif, ConnectExportNetworks, ExportXva,
     ExportOther, Expose, ExportDisk, NextDisk
<1>4. CASE CloneTemplate
  <2>1. vm' = "present" \/ (vm' = vm /\ disks' = disks)
    BY <1>4 DEF CloneTemplate
  <2> QED
    BY <1>1, <1>2, <1>3, <2>1
    DEF TransferInv, WrittenInv, VdiInv, OrderInv, MachineInv, Written
<1>5. CASE ~CloneTemplate
  <2>1. vm' = vm /\ disks' = disks
    BY <1>5 DEF MachineRuns, RunMachine, ConnectManagement, ConnectNetworks,
       ConnectByName, TagMachine, BeginExport, DestroyVif, ConnectExportNetworks, ExportXva,
       ExportOther, Expose, ExportDisk, NextDisk
  <2> QED
    BY <1>1, <1>2, <1>3, <2>1
    DEF TransferInv, WrittenInv, VdiInv, OrderInv, MachineInv, Written
<1> QED
  BY <1>4, <1>5

(* The cleanups.                                                           *)
LEMMA UnwindingKeeps ==
    ASSUME TransferInv, Unwinding
    PROVE  TransferInv'
<1> USE DEF TransferInv, WrittenInv, VdiInv, OrderInv, MachineInv, Written
<1>1. CASE CleanupCreateInstance /\ UNCHANGED uploadVars
  <2>1. /\ UNCHANGED <<upload, vdi, content, vdiUuid, task, import, choice>>
        /\ at \in {"continued", "halted"} /\ at' = "clean" /\ reported \subseteq reported'
    BY <1>1 DEF CleanupCreateInstance, uploadVars, xapi, Says
  <2>2. CASE choice.keep \/ vm = "absent"
    <3>1. vm' = vm /\ disks' = disks
      BY <1>1, <2>2 DEF CleanupCreateInstance
    <3> QED
      BY <2>1, <2>2, <3>1
  <2>3. CASE ~(choice.keep \/ vm = "absent")
    <3>1. PICK kept \in SUBSET (disks \cup {"vm"}) :
            /\ vm' = IF "vm" \in kept THEN "present" ELSE "destroyed"
            /\ disks' = kept \ {"vm"} /\ reported' = reported \cup kept
      BY <1>1, <2>3 DEF CleanupCreateInstance, Says
    <3> QED
      BY <2>1, <2>3, <3>1
  <2> QED
    BY <2>2, <2>3
<1>2. CASE UnwindUpload /\ UNCHANGED machineVars
           /\ (upload = "halted" \/ at = "clean" \/ upload = "destroying")
  <2>1. at' = at /\ vm' = vm /\ disks' = disks /\ at \in {"idle", "clean"}
    BY <1>2 DEF machineVars
  <2>2. CASE CleanupUpload
    BY <2>1, <2>2 DEF CleanupUpload, Says, xapi
  <2>3. CASE DestroyVdi
    BY <2>1, <2>3 DEF DestroyVdi
  <2>4. CASE TriesAreOver
    BY <2>1, <2>4 DEF TriesAreOver, Says, xapi, cleaning
  <2> QED
    BY <1>2, <2>2, <2>3, <2>4 DEF UnwindUpload
<1> QED
  BY <1>1, <1>2 DEF Unwinding

LEMMA NextTransfers == TransferInv /\ [Next]_vars => TransferInv'
<1> SUFFICES ASSUME TransferInv, [Next]_vars PROVE TransferInv'
  OBVIOUS
<1>1. CASE BreakOnCancel
  BY <1>1 DEF BreakOnCancel, StartsStep, xapi, cleaning, TransferInv, WrittenInv, VdiInv,
     OrderInv, MachineInv, Written
<1>2. CASE MarkCancelled
  BY <1>2 DEF MarkCancelled, uploadVars, xapi, machineVars, TransferInv, WrittenInv, VdiInv,
     OrderInv, MachineInv, Written
<1>3. CASE UNCHANGED vars
  BY <1>3 DEF vars, uploadVars, xapi, machineVars, TransferInv, WrittenInv, VdiInv,
     OrderInv, MachineInv, Written
<1> QED
  BY <1>1, <1>2, <1>3, UploadingKeeps, MachineRunsKeeps, UnwindingKeeps, PoolKeeps
  DEF Next, Builder, Done

LEMMA TransfersAlways == Spec => []TransferInv
<1> QED
  BY InitTransfers, NextTransfers, PTL DEF Spec

(* A machine is made only of an upload that is through: the whole image is *)
(* in the VDI, and the import does not write to it any more.               *)
THEOREM WholeUpload == Spec => []UploadIsWhole
<1>1. TransferInv => UploadIsWhole
  BY DEF TransferInv, WrittenInv, Written, UploadIsWhole
<1> QED
  BY <1>1, TransfersAlways, PTL

(* What a build that keeps nothing leaves in the pool a message has named, *)
(* at whatever call or second the upload, the networks or the export broke *)
(* off.                                                                    *)
THEOREM NothingUnnamed == Spec => []NothingLeft
<1>1. TransferInv => NothingLeft
  <2> SUFFICES ASSUME TransferInv, upload = "clean", ~choice.keep PROVE NothingLeft
    BY DEF NothingLeft
  <2>1. at \in {"idle", "clean"} /\ (at = "idle" => vm = "absent" /\ disks = {})
    BY DEF TransferInv, OrderInv
  <2> QED
    BY <2>1 DEF TransferInv, VdiInv, MachineInv, NothingLeft
<1> QED
  BY <1>1, TransfersAlways, PTL

-----------------------------------------------------------------------------
(* Induction over the rounds of a loop.  The induction theorems of the     *)
(* library take an operator; its minimal element of a well-founded set     *)
(* does not, and gives induction over a set of numbers.                    *)

(* A set of natural numbers that is not empty has a least element.         *)
LEMMA LeastNumber ==
    ASSUME NEW T \in SUBSET Nat, T # {}
    PROVE  \E x \in T : \A y \in T : x <= y
<1> DEFINE Less == {ss \in Nat \X Nat : ss[1] < ss[2]}
<1>1. IsWellFoundedOn(Less, Nat)
  BY NatLessThanWellFounded DEF OpToRel
<1>2. ASSUME NEW m \in Nat, NEW n \in Nat, m < n PROVE <<m, n>> \in Less
  BY <1>2
<1> HIDE DEF Less
<1>3. PICK x \in T : \A y \in T : ~(<<y, x>> \in Less)
  BY <1>1, WFMin
<1>4. ASSUME NEW y \in T PROVE x <= y
  <2>1. x \in Nat /\ y \in Nat
    OBVIOUS
  <2>2. ~(y < x)
    BY <1>2, <1>3, <2>1, Zenon
  <2> QED
    BY <2>1, <2>2
<1> QED
  BY <1>4

(* A set that has zero, and with each number the next one, has them all.   *)
LEMMA RoundByRound ==
    ASSUME NEW S, 0 \in S, \A n \in Nat : n \in S => n + 1 \in S
    PROVE  Nat \subseteq S
<1> SUFFICES ASSUME Nat \ S # {} PROVE FALSE
  OBVIOUS
<1>1. PICK x \in Nat \ S : \A y \in Nat \ S : x <= y
  BY LeastNumber
<1>2. x # 0 /\ x - 1 \in Nat /\ (x - 1) + 1 = x
  BY <1>1
<1>3. x - 1 \in S
  BY <1>1, <1>2
<1> QED
  BY <1>1, <1>2, <1>3

-----------------------------------------------------------------------------
(* GetDisks.                                                               *)

(* Its loop has a result after any number of rounds: the recursive function *)
(* DisksOf is made of exists.                                              *)
LEMMA LoopRuns ==
    ASSUME NEW vbds, NEW n \in Nat
    PROVE  \E f : f = [i \in 0 .. n |-> Round(vbds, f, i)]
<1> DEFINE S == {m \in Nat : \E f : f = [i \in 0 .. m |-> Round(vbds, f, i)]}
<1>1. 0 \in S
  <2> DEFINE f == [i \in 0 .. 0 |-> <<>>]
  <2>1. f = [i \in 0 .. 0 |-> Round(vbds, f, i)]
    BY DEF Round
  <2> QED
    BY <2>1
<1>2. ASSUME NEW m \in Nat, m \in S PROVE m + 1 \in S
  <2>1. PICK f : f = [i \in 0 .. m |-> Round(vbds, f, i)]
    BY <1>2
  <2> DEFINE g == [i \in 0 .. (m + 1) |->
                     IF i = m + 1 THEN Round(vbds, f, m + 1) ELSE f[i]]
  <2>2. \A i \in 0 .. m : g[i] = f[i]
    OBVIOUS
  <2>3. ASSUME NEW i \in 0 .. (m + 1) PROVE g[i] = Round(vbds, g, i)
    <3>1. i # 0 => i - 1 \in 0 .. m
      OBVIOUS
    <3>2. Round(vbds, g, i) = Round(vbds, f, i)
      BY <2>2, <3>1 DEF Round
    <3>3. i \in 0 .. m => f[i] = Round(vbds, f, i)
      BY <2>1
    <3> QED
      BY <3>2, <3>3
  <2>4. g = [i \in 0 .. (m + 1) |-> Round(vbds, g, i)]
    BY <2>3
  <2>5. \E ff : ff = [i \in 0 .. (m + 1) |-> Round(vbds, ff, i)]
    <3> HIDE DEF g
    <3> QED
      BY <2>4
  <2> QED
    BY <2>5
<1> HIDE DEF S
<1>3. Nat \subseteq S
  BY <1>1, <1>2, RoundByRound
<1> QED
  BY <1>3 DEF S

(* DisksOf is what the loop has after its last round.                      *)
LEMMA LoopResult ==
    ASSUME NEW vbds \in Seq(Vbd)
    PROVE  \E f : /\ f = [i \in 0 .. Len(vbds) |-> Round(vbds, f, i)]
                  /\ DisksOf(vbds) = f[Len(vbds)]
<1>0. Len(vbds) \in Nat
  OBVIOUS
<1>1. PICK h : h = [i \in 0 .. Len(vbds) |-> Round(vbds, h, i)]
  BY <1>0, LoopRuns
<1> DEFINE g == CHOOSE f : f = [i \in 0 .. Len(vbds) |-> Round(vbds, f, i)]
<1>2. g = [i \in 0 .. Len(vbds) |-> Round(vbds, g, i)]
  BY <1>1
<1>3. DisksOf(vbds) = g[Len(vbds)]
  BY Zenon DEF DisksOf
<1> HIDE DEF g
<1> QED
  BY <1>2, <1>3

DiskAt(vbds, i, d) == IsDisk(vbds[i]) /\ vbds[i].vdi = d
Listed(found, d) == \E n \in 1 .. Len(found) : found[n] = d

(* GetDisks lists the disk of each VBD of type "Disk", and nothing else:   *)
(* no media, whatever VBDs the VM has.                                     *)
THEOREM DisksFound ==
    ASSUME NEW vbds \in Seq(Vbd)
    PROVE  /\ DisksOf(vbds) \in Seq(Vdis)
           /\ \A d : Listed(DisksOf(vbds), d) <=> \E i \in 1 .. Len(vbds) : DiskAt(vbds, i, d)
<1>1. PICK f : /\ f = [i \in 0 .. Len(vbds) |-> Round(vbds, f, i)]
               /\ DisksOf(vbds) = f[Len(vbds)]
  BY LoopResult
<1> DEFINE Right(m) == /\ f[m] \in Seq(Vdis)
                       /\ \A d : Listed(f[m], d) <=> \E i \in 1 .. m : DiskAt(vbds, i, d)
           S == {m \in Nat : m <= Len(vbds) => Right(m)}
<1>2. 0 \in S
  <2>1. f[0] = <<>>
    BY <1>1 DEF Round
  <2>2. \A d : ~Listed(f[0], d)
    BY <2>1 DEF Listed
  <2>3. f[0] \in Seq(Vdis) /\ 1 .. 0 = {}
    BY <2>1
  <2> QED
    BY <2>2, <2>3
<1>3. ASSUME NEW m \in Nat, m \in S PROVE m + 1 \in S
  <2> SUFFICES ASSUME m + 1 <= Len(vbds) PROVE Right(m + 1)
    OBVIOUS
  <2>1. Right(m) /\ m + 1 \in 1 .. Len(vbds) /\ m + 1 \in 0 .. Len(vbds)
    BY <1>3
  <2>2. vbds[m + 1] \in Vbd /\ vbds[m + 1].vdi \in Vdis
    <3>1. vbds[m + 1] \in Vbd
      BY <2>1
    <3> QED
      BY <3>1 DEF Vbd
  <2>3. f[m + 1] = IF IsDisk(vbds[m + 1]) THEN Append(f[m], vbds[m + 1].vdi) ELSE f[m]
    <3>1. f[m + 1] = Round(vbds, f, m + 1)
      BY <1>1, <2>1
    <3>2. m + 1 # 0 /\ (m + 1) - 1 = m
      OBVIOUS
    <3> QED
      BY <3>1, <3>2 DEF Round
  <2>4. f[m + 1] \in Seq(Vdis)
    BY <2>1, <2>2, <2>3
  <2>5. \A d : Listed(f[m + 1], d) <=> Listed(f[m], d) \/ DiskAt(vbds, m + 1, d)
    <3>1. CASE IsDisk(vbds[m + 1])
      <4>1. /\ Len(f[m + 1]) = Len(f[m]) + 1 /\ Len(f[m]) \in Nat
            /\ \A n \in 1 .. Len(f[m]) : f[m + 1][n] = f[m][n]
            /\ f[m + 1][Len(f[m]) + 1] = vbds[m + 1].vdi
        BY <2>1, <2>2, <2>3, <3>1
      <4>2. ASSUME NEW d PROVE DiskAt(vbds, m + 1, d) <=> f[m + 1][Len(f[m]) + 1] = d
        BY <3>1, <4>1 DEF DiskAt
      <4>3. \A n : n \in 1 .. Len(f[m + 1]) <=> n \in 1 .. Len(f[m]) \/ n = Len(f[m]) + 1
        BY <4>1
      <4> QED
        BY <4>1, <4>2, <4>3 DEF Listed
    <3>2. CASE ~IsDisk(vbds[m + 1])
      BY <2>3, <3>2 DEF DiskAt
    <3> QED
      BY <3>1, <3>2
  <2>6. \A d : (\E i \in 1 .. (m + 1) : DiskAt(vbds, i, d))
              <=> (\E i \in 1 .. m : DiskAt(vbds, i, d)) \/ DiskAt(vbds, m + 1, d)
    <3>1. \A i : i \in 1 .. (m + 1) <=> i \in 1 .. m \/ i = m + 1
      OBVIOUS
    <3> QED
      BY <3>1
  <2> QED
    BY <2>1, <2>4, <2>5, <2>6
<1> HIDE DEF S
<1>4. Nat \subseteq S
  BY <1>2, <1>3, RoundByRound
<1> QED
  BY <1>1, <1>4 DEF S

-----------------------------------------------------------------------------
(* Types.                                                                  *)

(* The configuration of the build is one, and its disks are those that     *)
(* GetDisks finds.                                                         *)
LEMMA ChoiceTyped ==
    ASSUME choice \in Choices
    PROVE  /\ choice.networks \in Seq(Networks) /\ choice.exportNetworks \in Seq(Networks)
           /\ choice.vbds \in Seq(Vbd) /\ choice.format \in Formats
  BY ChoiceAssumption DEF Choice

LEMMA OwnDisksFound ==
    ASSUME choice \in Choices
    PROVE  /\ GetDisks \in Seq(Vdis) /\ OwnDisks \subseteq Vdis
           /\ \A d : d \in OwnDisks <=> Listed(GetDisks, d)
           /\ \A n \in 1 .. Len(GetDisks) : GetDisks[n] \in OwnDisks
<1>1. choice.vbds \in Seq(Vbd)
  BY ChoiceTyped
<1>2. \A d : d \in OwnDisks <=> \E i \in 1 .. Len(choice.vbds) : DiskAt(choice.vbds, i, d)
  BY <1>1 DEF OwnDisks, DiskAt
<1>3. /\ GetDisks \in Seq(Vdis)
      /\ \A d : d \in OwnDisks <=> Listed(GetDisks, d)
  BY <1>1, <1>2, DisksFound DEF GetDisks
<1>4. \A n \in 1 .. Len(GetDisks) : GetDisks[n] \in OwnDisks
  BY <1>3 DEF Listed
<1>5. OwnDisks \subseteq Vdis
  BY <1>3 DEF Listed
<1> QED
  BY <1>3, <1>4, <1>5

(* A failing call never exceeds the bound.                                 *)
LEMMA FaultsTyped ==
    ASSUME faults \in 0 .. MaxFaults, NoFault \/ Fault
    PROVE  faults' \in 0 .. MaxFaults /\ faults' >= faults
  BY FaultAssumption DEF NoFault, Fault

LEMMA InitTransfersTyped == Init => TypeOK
<1> SUFFICES ASSUME Init PROVE TypeOK
  OBVIOUS
<1>1. BuildOK
  <2>1. choice \in Choices /\ cancelled = FALSE /\ faults = 0 /\ reported = {}
    BY DEF Init
  <2>2. 0 \in 0 .. MaxFaults
    BY FaultAssumption
  <2> QED
    BY <2>1, <2>2 DEF BuildOK
<1>2. UploadOK
  BY HoldAssumption DEF Init, UploadInit, UploadOK
<1>3. MachineOK
  BY DEF Init, MachineInit, MachineOK
<1> QED
  BY <1>1, <1>2, <1>3 DEF TypeOK

(* The upload, its cleanup and the import beside it.                       *)
LEMMA UploadTyped ==
    ASSUME BuildOK, UploadOK, RunUpload \/ WaitGivesUp \/ UnwindUpload \/ Import
    PROVE  BuildOK' /\ UploadOK'
<1>1. OwnDisks' = OwnDisks /\ choice' = choice
  BY DEF RunUpload, CreateVdi, GetUuid, CreateTask, Do, WaitEndsWell, WaitEndsBadly, GetResult,
     WaitGivesUp, UploadBreaks, UnwindUpload, CleanupUpload, DestroyVdi, TriesAreOver, Import,
     ImportBegins, ImportReads, ImportEnds, ImportFails, SecondPasses, OwnDisks
<1>2. cancelled' = cancelled /\ reported' \subseteq reported \cup {"upload"}
  BY DEF RunUpload, CreateVdi, GetUuid, CreateTask, Do, WaitEndsWell, WaitEndsBadly, GetResult,
     WaitGivesUp, UploadBreaks, UnwindUpload, CleanupUpload, DestroyVdi, TriesAreOver, Import,
     ImportBegins, ImportReads, ImportEnds, ImportFails, SecondPasses, Says
<1>3. NoFault \/ Fault
  BY DEF RunUpload, CreateVdi, GetUuid, CreateTask, Do, WaitEndsWell, WaitEndsBadly, GetResult,
     WaitGivesUp, UnwindUpload, CleanupUpload, DestroyVdi, TriesAreOver, Import, Reason,
     ImportBegins, ImportReads, ImportEnds, ImportFails, SecondPasses, NoFault
<1>4. BuildOK'
  BY <1>1, <1>2, <1>3, FaultsTyped DEF BuildOK
<1>5. UploadOK'
  <2> USE DEF UploadOK, xapi, cleaning
  <2>1. CASE CreateVdi \/ GetUuid \/ CreateTask
    BY <2>1 DEF CreateVdi, GetUuid, CreateTask
  <2>2. ASSUME UploadBreaks PROVE UploadOK'
    BY <2>2 DEF UploadBreaks
  <2>3. CASE Do \/ WaitEndsBadly \/ WaitGivesUp
    BY <2>2, <2>3 DEF Do, WaitEndsBadly, WaitGivesUp
  <2>4. CASE WaitEndsWell \/ GetResult
    BY <2>4 DEF WaitEndsWell, GetResult
  <2>5. CASE CleanupUpload \/ TriesAreOver
    BY <2>5 DEF CleanupUpload, TriesAreOver
  <2>6. CASE DestroyVdi
    BY <2>6, HoldAssumption DEF DestroyVdi, Tries
  <2>7. CASE ImportBegins \/ ImportReads \/ ImportEnds \/ ImportFails
    BY <2>7 DEF ImportBegins, ImportReads, ImportEnds, ImportFails, Status
  <2>8. CASE SecondPasses
    BY <2>8, HoldAssumption DEF SecondPasses
  <2> QED
    BY <2>1, <2>3, <2>4, <2>5, <2>6, <2>7, <2>8 DEF RunUpload, UnwindUpload, Import
<1> QED
  BY <1>4, <1>5

(* One round of the loop over the names of networks.                       *)
LEMMA ByNameTyped ==
    ASSUME BuildOK, MachineOK, NEW names \in Seq(Networks), NEW here, NEW there,
           ConnectByName(names, here, there)
    PROVE  /\ vifs' \subseteq vifs \cup
                 {Vif(i - 1, names[i]) : i \in 1 .. Len(names)}
           /\ \A v \in vifs' : v.device \in Nat /\ v.network \in Networks \cup {"management", "template"}
           /\ unconnected' \subseteq Nat /\ next' \in Nat \ {0}
           /\ at' \in {at, there, "halted"} /\ at = here
           /\ NoFault \/ Fault
           /\ UNCHANGED <<vm, disks, exposed, files, choice, cancelled, reported>>
<1>1. /\ vifs' = vifs
         \/ (next <= Len(names) /\ vifs' = vifs \cup {Vif(next - 1, names[next])})
      /\ unconnected' \in {unconnected, {}, unconnected \cup {next - 1}}
      /\ next' \in {next, next + 1}
      /\ at' \in {at, there, "halted"} /\ at = here
      /\ NoFault \/ Fault
      /\ UNCHANGED <<vm, disks, exposed, files, choice, cancelled, reported>>
  BY DEF ConnectByName, Device, NoFault
<1>2. next \in Nat /\ next > 0 /\ next - 1 \in Nat
  BY DEF MachineOK
<1>3. next <= Len(names) => next \in 1 .. Len(names) /\ names[next] \in Networks
  BY <1>2
<1>4. Vif(next - 1, names[next]).device = next - 1
      /\ Vif(next - 1, names[next]).network = names[next]
  BY DEF Vif
<1> QED
  BY <1>1, <1>2, <1>3, <1>4 DEF MachineOK

(* The machine, its export and its cleanup.                                *)
LEMMA MachineTyped ==
    ASSUME BuildOK, MachineOK, RunMachine \/ CleanupCreateInstance \/ ExposureExpires
    PROVE  BuildOK' /\ MachineOK'
<1>0. /\ choice.networks \in Seq(Networks) /\ choice.exportNetworks \in Seq(Networks)
      /\ GetDisks \in Seq(Vdis) /\ OwnDisks \subseteq Vdis
      /\ \A n \in 1 .. Len(GetDisks) : GetDisks[n] \in OwnDisks
  BY ChoiceTyped, OwnDisksFound DEF BuildOK
<1>1. /\ choice' = choice /\ cancelled' = cancelled /\ OwnDisks' = OwnDisks
      /\ reported' \subseteq reported \cup disks \cup {"vm"}
  BY DEF RunMachine, CloneTemplate, ConnectManagement, ConnectNetworks, ConnectByName,
     TagMachine, BeginExport, DestroyVif, ConnectExportNetworks, ExportXva, ExportOther,
     Expose, ExportDisk, NextDisk, CleanupCreateInstance, ExposureExpires, Says, OwnDisks
<1>2. NoFault \/ Fault
  <2>1. CASE CloneTemplate \/ ConnectManagement \/ TagMachine \/ BeginExport \/ DestroyVif
             \/ ExportOther \/ Expose \/ CleanupCreateInstance \/ ExposureExpires
    BY <2>1 DEF CloneTemplate, ConnectManagement, TagMachine, BeginExport, DestroyVif,
       ExportOther, Expose, CleanupCreateInstance, ExposureExpires, NoFault
  <2>2. CASE ConnectNetworks \/ ConnectExportNetworks
    BY <2>2 DEF ConnectNetworks, ConnectExportNetworks, ConnectByName, NoFault
  <2>3. CASE ExportXva \/ ExportDisk \/ NextDisk
    BY <2>3 DEF ExportXva, ExportDisk, NextDisk, Download, DownloadFails, Unexpose, NoFault
  <2> QED
    BY <2>1, <2>2, <2>3 DEF RunMachine
<1>3. BuildOK'
  BY <1>1, <1>2, FaultsTyped DEF BuildOK, MachineOK
<1>4. MachineOK'
  <2>1. CASE CloneTemplate
    <3>1. disks' \subseteq OwnDisks
      BY <2>1 DEF CloneTemplate, MachineOK
    <3>2. vifs' = vifs \/ vifs' \subseteq {Vif(0, "template")}
      BY <2>1 DEF CloneTemplate
    <3>3. /\ at' \in {"networks", "halted"} /\ vm' \in {vm, "present"}
          /\ UNCHANGED <<next, unconnected, exposed, files>>
      BY <2>1 DEF CloneTemplate
    <3> QED
      BY <1>1, <3>1, <3>2, <3>3 DEF MachineOK, Vif
  <2>2. CASE ConnectManagement
    BY <1>1, <2>2 DEF ConnectManagement, MachineOK, Vif
  <2>3. CASE ConnectNetworks
    BY <1>0, <1>1, <2>3, ByNameTyped DEF ConnectNetworks, MachineOK
  <2>4. CASE ConnectExportNetworks
    BY <1>0, <1>1, <2>4, ByNameTyped DEF ConnectExportNetworks, MachineOK
  <2>5. CASE TagMachine \/ BeginExport \/ ExportOther
    <3>1. /\ at' \in {"halted", "created", "format", "unplug", "continued", "disks"}
          /\ next' \in {next, 1}
          /\ UNCHANGED <<vm, disks, vifs, unconnected, exposed, files>>
      BY <2>5 DEF TagMachine, BeginExport, ExportOther
    <3> QED
      BY <1>1, <3>1 DEF MachineOK
  <2>6. CASE DestroyVif
    <3>1. /\ at' \in {at, "replug", "halted"} /\ next' \in {next, 1}
          /\ unconnected' \in {unconnected, {}} /\ vifs' \subseteq vifs
          /\ UNCHANGED <<vm, disks, exposed, files>>
      BY <2>6 DEF DestroyVif
    <3> QED
      BY <1>1, <3>1 DEF MachineOK
  <2>7. ASSUME NEW f, NEW served, Download(f, served) \/ DownloadFails(f, served)
        PROVE  files' \in [Vdis \cup {Xva} -> {"none", "broken", "whole"}]
    BY <2>7 DEF Download, DownloadFails, MachineOK
  <2>8. CASE ExportXva
    BY <1>1, <2>7, <2>8 DEF ExportXva, MachineOK
  <2>9. CASE ExportDisk
    BY <1>1, <2>7, <2>9 DEF ExportDisk, MachineOK
  <2>10. CASE Expose
    <3>1. next <= Len(GetDisks) => GetDisks[next] \in OwnDisks
      BY <1>0 DEF MachineOK
    <3> QED
      BY <1>1, <2>10, <3>1 DEF Expose, MachineOK
  <2>11. CASE NextDisk \/ ExposureExpires
    <3>1. /\ at' \in {at, "disks"} /\ next' \in {next, next + 1}
          /\ exposed' \subseteq exposed
          /\ UNCHANGED <<vm, disks, vifs, unconnected, files>>
      BY <2>11 DEF NextDisk, Unexpose, ExposureExpires
    <3> QED
      BY <1>1, <3>1 DEF MachineOK
  <2>12. CASE CleanupCreateInstance
    BY <1>1, <2>12 DEF CleanupCreateInstance, MachineOK
  <2> QED
    BY <2>1, <2>2, <2>3, <2>4, <2>5, <2>6, <2>8, <2>9, <2>10, <2>11, <2>12 DEF RunMachine
<1> QED
  BY <1>3, <1>4

LEMMA NextTransfersTyped == TypeOK /\ [Next]_vars => TypeOK'
<1> SUFFICES ASSUME TypeOK, [Next]_vars PROVE TypeOK'
  OBVIOUS
<1>0. BuildOK /\ UploadOK /\ MachineOK
  BY DEF TypeOK
<1>1. ASSUME BuildOK', UNCHANGED machineVars, choice' = choice PROVE MachineOK'
  BY <1>0, <1>1 DEF MachineOK, machineVars, OwnDisks
<1>2. ASSUME UNCHANGED uploadVars PROVE UploadOK'
  BY <1>0, <1>2 DEF UploadOK, uploadVars, xapi, cleaning
<1>3. CASE (RunUpload \/ WaitGivesUp \/ UnwindUpload \/ Import) /\ UNCHANGED machineVars
  <2>1. choice' = choice
    BY <1>3 DEF RunUpload, CreateVdi, GetUuid, CreateTask, Do, WaitEndsWell, WaitEndsBadly,
       GetResult, WaitGivesUp, UploadBreaks, UnwindUpload, CleanupUpload, DestroyVdi,
       TriesAreOver, Import, ImportBegins, ImportReads, ImportEnds, ImportFails, SecondPasses
  <2> QED
    BY <1>0, <1>1, <1>3, <2>1, UploadTyped DEF TypeOK
<1>4. CASE (RunMachine \/ CleanupCreateInstance \/ ExposureExpires) /\ UNCHANGED uploadVars
  BY <1>0, <1>2, <1>4, MachineTyped DEF TypeOK
<1>5. CASE BreakOnCancel
  <2>1. OwnDisks' = OwnDisks
    BY <1>5 DEF BreakOnCancel, OwnDisks
  <2> QED
    BY <1>0, <1>5, <2>1 DEF BreakOnCancel, TypeOK, BuildOK, UploadOK, MachineOK, xapi, cleaning
<1>6. CASE MarkCancelled \/ UNCHANGED vars
  <2>1. OwnDisks' = OwnDisks /\ cancelled' \in BOOLEAN
    BY <1>0, <1>6 DEF MarkCancelled, vars, OwnDisks, BuildOK
  <2>2. UNCHANGED <<choice, faults, reported, uploadVars, machineVars>>
    BY <1>6 DEF MarkCancelled, vars
  <2> QED
    BY <1>0, <1>1, <1>2, <2>1, <2>2 DEF TypeOK, BuildOK
<1> QED
  BY <1>3, <1>4, <1>5, <1>6
  DEF Next, Builder, Uploading, MachineRuns, Unwinding, GivesUp, Pool, Done

(* Uploads and exports keep every variable in its type, for any networks,  *)
(* disks and configurations and any bounds.                                *)
THEOREM TransfersTypeCorrect == Spec => []TypeOK
<1> QED
  BY InitTransfersTyped, NextTransfersTyped, PTL DEF Spec

-----------------------------------------------------------------------------
(* The seconds an import holds its VDI, the networks, the files and the    *)
(* exposed disks, each followed through the loop that deals with it.       *)

(* Every try that failed for no other reason took a second of what was     *)
(* left to wait when the tries began.                                      *)
HoldInv ==
    /\ upload \notin {"destroying", "clean"} => tries = 0
    /\ upload = "destroying" /\ faults = 0 => tries + hold <= heldFor
    /\ RetriesCover

(* The first n names are connected, or a message says they are not.        *)
ConnectedIn(names, n, without, with) ==
    \A i \in 1 .. n : i - 1 \in without \/ Vif(i - 1, names[i]) \in with
ConnectedTo(names, n) == ConnectedIn(names, n, unconnected, vifs)

VifsOf(names) == {Vif(i - 1, names[i]) : i \in 1 .. Len(names)}

(* The loops over the names connect one after the other; the second starts *)
(* with no VIF left and so ends with no other.                             *)
NetworkInv ==
    /\ at = "idle" => next = 1 /\ vifs = {}
    /\ at = "networks" =>
         IF choice.networks = <<>> THEN vifs \subseteq {Vif(0, "template")}
         ELSE ConnectedTo(choice.networks, next - 1)
    /\ at \in {"tags", "created"} =>
         IF choice.networks = <<>> THEN vifs = {Vif(0, "management")}
         ELSE ConnectedTo(choice.networks, Len(choice.networks))
    /\ at \in {"unplug", "replug"} => choice.exportNetworks # <<>>
    /\ at = "replug" =>
         /\ ConnectedTo(choice.exportNetworks, next - 1)
         /\ vifs \subseteq VifsOf(choice.exportNetworks)
    /\ at \in {"format", "disks", "download", "unexpose", "continued"}
         /\ choice.exportNetworks # <<>> =>
         /\ ConnectedTo(choice.exportNetworks, Len(choice.exportNetworks))
         /\ vifs \subseteq VifsOf(choice.exportNetworks)

FilesMade == {f \in DOMAIN files : files[f] # "none"}
FirstDisks(n) == {GetDisks[i] : i \in 1 .. n}

(* The loop over the disks has a file for each disk it is through with.    *)
FileInv ==
    /\ at \in {"idle", "networks", "tags", "created", "unplug", "replug", "format"} =>
         FilesMade = {}
    /\ at \in {"disks", "download", "unexpose"} =>
         choice.format \notin {"none", "xva", "xva_compressed"}
    /\ at = "disks" => next <= Len(GetDisks) + 1
    /\ at \in {"download", "unexpose"} => next <= Len(GetDisks)
    /\ at \in {"disks", "download"} => FilesMade = FirstDisks(next - 1)
    /\ at = "unexpose" => FilesMade = FirstDisks(next)
    /\ EveryDiskExported

(* At most the disk of this round is exposed.                              *)
ExposureInv ==
    faults = 0 /\ exposed # {} =>
        /\ at \in {"download", "unexpose"} /\ Legacy
        /\ exposed \subseteq {GetDisks[next]}

(* Which steps leave which part alone; calls that have failed stay so.     *)
LEMMA NextKinds ==
    ASSUME TypeOK, [Next]_vars
    PROVE  /\ choice' = choice /\ (faults' = 0 => faults = 0)
           /\ \/ /\ RunUpload \/ WaitGivesUp \/ UnwindUpload \/ Import
                 /\ UNCHANGED machineVars
              \/ /\ RunMachine \/ CleanupCreateInstance \/ ExposureExpires
                 /\ UNCHANGED uploadVars
              \/ BreakOnCancel
              \/ UNCHANGED <<faults, uploadVars, machineVars>>
<1>1. faults' \in 0 .. MaxFaults /\ faults \in 0 .. MaxFaults /\ faults' >= faults
      /\ choice' = choice
  <2>0. faults \in 0 .. MaxFaults
    BY DEF TypeOK, BuildOK
  <2>1. CASE RunUpload \/ WaitGivesUp \/ UnwindUpload \/ Import
    <3>1. NoFault \/ Fault
      BY <2>1 DEF RunUpload, CreateVdi, GetUuid, CreateTask, Do, WaitEndsWell, WaitEndsBadly,
         GetResult, WaitGivesUp, UnwindUpload, CleanupUpload, DestroyVdi, TriesAreOver, Import,
         Reason, ImportBegins, ImportReads, ImportEnds, ImportFails, SecondPasses, NoFault
    <3>2. choice' = choice
      BY <2>1 DEF RunUpload, CreateVdi, GetUuid, CreateTask, Do, WaitEndsWell, WaitEndsBadly,
         GetResult, WaitGivesUp, UploadBreaks, UnwindUpload, CleanupUpload, DestroyVdi,
         TriesAreOver, Import, ImportBegins, ImportReads, ImportEnds, ImportFails, SecondPasses
    <3> QED
      BY <2>0, <3>1, <3>2, FaultsTyped
  <2>2. CASE RunMachine \/ CleanupCreateInstance \/ ExposureExpires
    <3>1. NoFault \/ Fault
      <4>1. CASE CloneTemplate \/ ConnectManagement \/ TagMachine \/ BeginExport \/ DestroyVif
                 \/ ExportOther \/ Expose \/ CleanupCreateInstance \/ ExposureExpires
        BY <4>1 DEF CloneTemplate, ConnectManagement, TagMachine, BeginExport, DestroyVif,
           ExportOther, Expose, CleanupCreateInstance, ExposureExpires, NoFault
      <4>2. CASE ConnectNetworks \/ ConnectExportNetworks
        BY <4>2 DEF ConnectNetworks, ConnectExportNetworks, ConnectByName, NoFault
      <4>3. CASE ExportXva \/ ExportDisk \/ NextDisk
        BY <4>3 DEF ExportXva, ExportDisk, NextDisk, Download, DownloadFails, Unexpose, NoFault
      <4> QED
        BY <2>2, <4>1, <4>2, <4>3 DEF RunMachine
    <3>2. choice' = choice
      BY <2>2 DEF RunMachine, CloneTemplate, ConnectManagement, ConnectNetworks, ConnectByName,
         TagMachine, BeginExport, DestroyVif, ConnectExportNetworks, ExportXva, ExportOther,
         Expose, ExportDisk, NextDisk, CleanupCreateInstance, ExposureExpires
    <3> QED
      BY <2>0, <3>1, <3>2, FaultsTyped
  <2>3. CASE BreakOnCancel \/ MarkCancelled \/ UNCHANGED vars
    BY <2>0, <2>3 DEF BreakOnCancel, MarkCancelled, vars
  <2> QED
    BY <2>1, <2>2, <2>3
    DEF Next, Builder, Uploading, MachineRuns, Unwinding, GivesUp, Pool, Done
<1>2. MarkCancelled \/ UNCHANGED vars => UNCHANGED <<faults, uploadVars, machineVars>>
  BY DEF MarkCancelled, vars
<1> QED
  BY <1>1, <1>2 DEF Next, Builder, Uploading, MachineRuns, Unwinding, GivesUp, Pool, Done

LEMMA LessLeft ==
    ASSUME NEW n \in Nat, NEW h \in Nat, NEW g \in Nat, NEW m \in Nat, g <= h, n + h <= m
    PROVE  n + g <= m
  OBVIOUS

(* The tries of the cleanup against the seconds of the import.             *)
LEMMA HoldKept ==
    ASSUME TypeOK, HoldInv, [Next]_vars
    PROVE  HoldInv'
<1>0. /\ tries \in Nat /\ hold \in Nat /\ heldFor \in Nat /\ faults \in Nat
      /\ choice' = choice /\ (faults' = 0 => faults = 0)
  BY NextKinds, HoldAssumption, FaultAssumption DEF TypeOK, BuildOK, UploadOK
<1> USE DEF HoldInv, RetriesCover
<1>1. CASE RunUpload \/ WaitGivesUp
  <2>1. /\ upload \notin {"destroying", "clean"} /\ UNCHANGED cleaning
        /\ upload' \notin {"destroying", "clean"}
    BY <1>1 DEF RunUpload, CreateVdi, GetUuid, CreateTask, Do, WaitEndsWell, WaitEndsBadly,
       GetResult, WaitGivesUp, UploadBreaks
  <2> QED
    BY <1>0, <2>1 DEF cleaning
<1>2. CASE CleanupUpload
  <2>1. /\ upload' \in {"clean", "destroying"} /\ UNCHANGED <<xapi, vdiUuid, tries>>
        /\ upload' = "destroying" => heldFor' = hold
        /\ upload' = "clean" => choice.keep \/ vdiUuid = "none" \/ Fault
        /\ upload \notin {"destroying", "clean"}
    BY <1>2 DEF CleanupUpload
  <2>2. Fault => faults' # 0
    BY <1>0 DEF Fault
  <2> QED
    BY <1>0, <2>1, <2>2 DEF xapi
<1>3. CASE DestroyVdi
  <2>1. Fault => faults' # 0
    BY <1>0 DEF Fault
  <2> QED
    BY <1>0, <1>3, <2>1 DEF DestroyVdi
<1>4. CASE TriesAreOver
  BY <1>0, <1>4 DEF TriesAreOver, Tries, xapi, cleaning
<1>5. CASE Import
  <2>1. /\ upload' = upload /\ vdi' = vdi /\ vdiUuid' = vdiUuid
        /\ tries' = tries /\ heldFor' = heldFor
    BY <1>5 DEF Import, ImportBegins, ImportReads, ImportEnds, ImportFails, SecondPasses, cleaning
  <2>2. hold' \in Nat /\ hold' <= hold
    BY <1>0, <1>5 DEF Import, ImportBegins, ImportReads, ImportEnds, ImportFails, SecondPasses
  <2>3. ASSUME upload = "destroying", faults' = 0 PROVE tries + hold' <= heldFor
    <3>1. tries + hold <= heldFor
      BY <1>0, <2>3
    <3>2. hold \in Nat /\ tries \in Nat /\ heldFor \in Nat
      BY <1>0
    <3> QED
      BY <2>2, <3>1, <3>2, LessLeft
  <2>4. RetriesCover'
    BY <1>0, <2>1
  <2> QED
    BY <2>1, <2>3, <2>4
<1>6. CASE UNCHANGED uploadVars
  BY <1>0, <1>6 DEF uploadVars, xapi, cleaning
<1>7. CASE BreakOnCancel
  <2>1. /\ UNCHANGED <<xapi, vdiUuid, cleaning>>
        /\ upload' = upload \/ (upload = "idle" /\ upload' = "halted")
    BY <1>7 DEF BreakOnCancel
  <2> QED
    BY <1>0, <2>1 DEF xapi, cleaning
<1> QED
  BY <1>1, <1>2, <1>3, <1>4, <1>5, <1>6, <1>7, NextKinds DEF UnwindUpload

(* An import that lets go of its VDI within two seconds does not cost it:  *)
(* the three tries of the cleanup outlast it, if no call fails.            *)
THEOREM RetriesOutlast == Spec => []RetriesCover
<1>1. Init => HoldInv
  BY DEF Init, UploadInit, HoldInv, RetriesCover
<1>2. HoldInv => RetriesCover
  BY DEF HoldInv
<1> QED
  BY <1>1, <1>2, HoldKept, TransfersTypeCorrect, PTL DEF Spec

-----------------------------------------------------------------------------
(* One round of the loop over the names connects one more of them.         *)
LEMMA ByNameConnects ==
    ASSUME NEW names \in Seq(Networks), NEW here, NEW there, next \in Nat \ {0},
           ConnectByName(names, here, there), ConnectedTo(names, next - 1)
    PROVE  \/ at' = there /\ ConnectedIn(names, Len(names), unconnected', vifs')
           \/ at' = "halted"
           \/ at' = here /\ ConnectedIn(names, next' - 1, unconnected', vifs')
<1>0. /\ Len(names) \in Nat /\ next \in Nat /\ next > 0 /\ (next + 1) - 1 = next
      /\ \A i : i \in 1 .. next <=> i \in 1 .. (next - 1) \/ i = next
  OBVIOUS
<1>1. ConnectedIn(names, next - 1, unconnected, vifs)
  BY DEF ConnectedTo
<1>2. \/ next > Len(names) /\ at' = there /\ UNCHANGED <<vifs, unconnected>>
      \/ at' = "halted"
      \/ /\ at = here /\ at' = at /\ next' = next + 1
         /\ \/ vifs' = vifs \cup {Vif(next - 1, names[next])} /\ UNCHANGED unconnected
            \/ unconnected' = unconnected \cup {next - 1} /\ UNCHANGED vifs
  BY DEF ConnectByName, Device
<1>3. ASSUME next > Len(names) PROVE \A i \in 1 .. Len(names) : i \in 1 .. (next - 1)
  BY <1>0, <1>3
<1> QED
  BY <1>0, <1>1, <1>2, <1>3 DEF ConnectedIn

(* What the steps of the machine do to its networks.                       *)
LEMMA NetworkKept ==
    ASSUME TypeOK, NetworkInv, [Next]_vars
    PROVE  NetworkInv'
<1>0. /\ choice' = choice /\ next \in Nat \ {0}
      /\ choice.networks \in Seq(Networks) /\ choice.exportNetworks \in Seq(Networks)
      /\ MachineOK /\ BuildOK
  BY NextKinds, ChoiceTyped DEF TypeOK, BuildOK, MachineOK
<1> USE DEF NetworkInv, ConnectedTo, VifsOf
<1>1. CASE UNCHANGED machineVars
  BY <1>0, <1>1 DEF machineVars
<1>2. CASE BreakOnCancel \/ CleanupCreateInstance \/ ExposureExpires
  <2>1. /\ UNCHANGED <<next, vifs, unconnected>>
        /\ at' = at \/ at' \in {"halted", "clean"}
    BY <1>2 DEF BreakOnCancel, CleanupCreateInstance, ExposureExpires
  <2> QED
    BY <1>0, <2>1
<1>3. CASE CloneTemplate
  <2>1. /\ next = 1 /\ next' = next
        /\ \/ at' = "halted"
           \/ at' = "networks" /\ vifs' \subseteq {Vif(0, "template")}
    BY <1>3 DEF CloneTemplate
  <2>2. ConnectedIn(choice.networks, 1 - 1, unconnected', vifs')
    BY DEF ConnectedIn
  <2> QED
    BY <1>0, <2>1, <2>2
<1>4. CASE ConnectManagement
  <2>1. vifs \subseteq {Vif(0, "template")} /\ choice.networks = <<>>
    BY <1>4 DEF ConnectManagement
  <2>2. ~Taken(0) => vifs = {}
    BY <2>1 DEF Taken, Vif
  <2>3. at' = "halted" \/ (at' = "tags" /\ vifs' = {Vif(0, "management")})
    BY <1>4, <2>2 DEF ConnectManagement
  <2> QED
    BY <1>0, <2>1, <2>3
<1>5. CASE ConnectNetworks
  <2>1. /\ choice.networks # <<>> /\ at = "networks"
        /\ ConnectByName(choice.networks, "networks", "tags")
    BY <1>5 DEF ConnectNetworks, ConnectByName
  <2>2. ConnectedTo(choice.networks, next - 1)
    BY <2>1
  <2> QED
    BY <1>0, <2>1, <2>2, ByNameConnects
<1>6. CASE TagMachine \/ BeginExport
  <2>1. /\ UNCHANGED <<next, vifs, unconnected>>
        /\ \/ at' = "halted"
           \/ at = "tags" /\ at' = "created"
           \/ at = "created" /\ at' = "unplug" /\ choice.exportNetworks # <<>>
           \/ at = "created" /\ at' = "format" /\ choice.exportNetworks = <<>>
    BY <1>6 DEF TagMachine, BeginExport
  <2> QED
    BY <1>0, <2>1
<1>7. CASE DestroyVif
  <2>1. /\ at = "unplug"
        /\ \/ at' \in {"halted", "unplug"}
           \/ at' = "replug" /\ next' = 1 /\ vifs' = {}
    BY <1>7 DEF DestroyVif
  <2>2. ConnectedIn(choice.exportNetworks, 1 - 1, unconnected', vifs')
    BY DEF ConnectedIn
  <2> QED
    BY <1>0, <2>1, <2>2
<1>8. CASE ConnectExportNetworks
  <2>1. /\ at = "replug" /\ ConnectByName(choice.exportNetworks, "replug", "format")
        /\ ConnectedTo(choice.exportNetworks, next - 1)
    BY <1>8 DEF ConnectExportNetworks, ConnectByName
  <2>2. vifs' \subseteq vifs \cup VifsOf(choice.exportNetworks)
    BY <1>0, <2>1, ByNameTyped
  <2> QED
    BY <1>0, <2>1, <2>2, ByNameConnects
<1>9. CASE ExportXva \/ ExportOther \/ Expose \/ ExportDisk \/ NextDisk
  <2>1. /\ UNCHANGED <<vifs, unconnected>>
        /\ at \in {"format", "disks", "download", "unexpose"}
        /\ at' \in {"halted", "continued", "disks", "download", "unexpose"}
    BY <1>9 DEF ExportXva, ExportOther, Expose, ExportDisk, NextDisk
  <2> QED
    BY <1>0, <2>1
<1> QED
  BY <1>1, <1>2, <1>3, <1>4, <1>5, <1>6, <1>7, <1>8, <1>9, NextKinds DEF RunMachine, machineVars

(* No more VIFs than names.                                                *)
LEMMA VifsOfNames ==
    ASSUME NEW names \in Seq(Networks), NEW with, with \subseteq VifsOf(names)
    PROVE  Cardinality(with) <= Len(names)
<1> DEFINE f == [i \in 1 .. Len(names) |-> Vif(i - 1, names[i])]
<1>0. Len(names) \in Nat
  OBVIOUS
<1>1. /\ IsFiniteSet(1 .. Len(names)) /\ Cardinality(1 .. Len(names)) = Len(names)
  BY <1>0, FS_Interval
<1>2. f \in Surjection(1 .. Len(names), VifsOf(names))
  BY DEF Surjection, VifsOf
<1>3. /\ IsFiniteSet(VifsOf(names)) /\ Cardinality(VifsOf(names)) <= Len(names)
  <2> HIDE DEF f
  <2> QED
    BY <1>1, <1>2, FS_Surjection
<1>4. /\ IsFiniteSet(with) /\ Cardinality(with) <= Cardinality(VifsOf(names))
  BY <1>3, FS_Subset
<1>5. Cardinality(with) \in Nat /\ Cardinality(VifsOf(names)) \in Nat
  BY <1>3, <1>4, FS_CardinalityType
<1> QED
  BY <1>0, <1>3, <1>4, <1>5

(* A VM has its networks in their order, before the provisioners and when  *)
(* it is exported, or a message says which one it has not.                 *)
THEOREM NetworksInOrder == Spec => []NetworksAsAsked
<1>1. Init => NetworkInv
  BY DEF Init, MachineInit, NetworkInv
<1>2. TypeOK /\ NetworkInv => NetworksAsAsked
  <2> SUFFICES ASSUME TypeOK, NetworkInv PROVE NetworksAsAsked
    OBVIOUS
  <2>1. choice.networks \in Seq(Networks) /\ choice.exportNetworks \in Seq(Networks)
    BY ChoiceTyped DEF TypeOK, BuildOK
  <2>2. ASSUME NEW names \in Seq(Networks), ConnectedTo(names, Len(names))
        PROVE  Connected(names)
    BY <2>2 DEF Connected, ConnectedTo, ConnectedIn
  <2> QED
    BY <2>1, <2>2, VifsOfNames DEF NetworkInv, NetworksAsAsked
<1> QED
  BY <1>1, <1>2, NetworkKept, TransfersTypeCorrect, PTL DEF Spec

-----------------------------------------------------------------------------
(* The files of an export.                                                 *)
LEMMA FilesOf ==
    ASSUME MachineOK, NEW f \in Vdis \cup {Xva}, NEW served, Download(f, served)
    PROVE  FilesMade' = FilesMade \cup {f}
<1>1. files \in [Vdis \cup {Xva} -> {"none", "broken", "whole"}]
  BY DEF MachineOK
<1>2. PICK what \in {"broken", "whole"} : files' = [files EXCEPT ![f] = what]
  BY DEF Download
<1> QED
  BY <1>1, <1>2 DEF FilesMade

LEMMA FileKept ==
    ASSUME TypeOK, FileInv, [Next]_vars
    PROVE  FileInv'
<1>0. /\ choice' = choice /\ next \in Nat /\ next > 0 /\ GetDisks' = GetDisks
      /\ OwnDisks' = OwnDisks /\ GetDisks \in Seq(Vdis) /\ Len(GetDisks) \in Nat
      /\ choice.format \in Formats /\ MachineOK
      /\ FirstDisks(0) = {} /\ FirstDisks(Len(GetDisks)) = OwnDisks
  <2>1. choice' = choice /\ choice \in Choices /\ MachineOK
    BY NextKinds DEF TypeOK, BuildOK
  <2>2. GetDisks' = GetDisks /\ OwnDisks' = OwnDisks
    BY <2>1 DEF GetDisks, OwnDisks
  <2>3. /\ GetDisks \in Seq(Vdis) /\ choice.format \in Formats
        /\ \A d : d \in OwnDisks <=> Listed(GetDisks, d)
    BY <2>1, OwnDisksFound, ChoiceTyped
  <2>4. FirstDisks(Len(GetDisks)) = OwnDisks
    BY <2>3 DEF FirstDisks, Listed
  <2>5. FirstDisks(0) = {}
    BY DEF FirstDisks
  <2> QED
    BY <2>1, <2>2, <2>3, <2>4, <2>5 DEF MachineOK
<1> USE DEF FileInv, EveryDiskExported
<1>1. CASE UNCHANGED machineVars
  BY <1>0, <1>1 DEF machineVars, FilesMade, FirstDisks
<1>2. CASE BreakOnCancel \/ CleanupCreateInstance \/ ExposureExpires
  <2>1. /\ UNCHANGED <<next, files>>
        /\ at' = at \/ at' \in {"halted", "clean"}
    BY <1>2 DEF BreakOnCancel, CleanupCreateInstance, ExposureExpires
  <2> QED
    BY <1>0, <2>1 DEF FilesMade, FirstDisks
<1>3. CASE CloneTemplate \/ ConnectManagement \/ ConnectNetworks \/ TagMachine \/ BeginExport
           \/ DestroyVif \/ ConnectExportNetworks
  <2>1. /\ UNCHANGED files
        /\ at \in {"idle", "networks", "tags", "created", "unplug", "replug"}
        /\ at' \in {"networks", "tags", "created", "unplug", "replug", "format", "halted"}
    BY <1>3 DEF CloneTemplate, ConnectManagement, ConnectNetworks, ConnectByName, TagMachine,
       BeginExport, DestroyVif, ConnectExportNetworks
  <2> QED
    BY <1>0, <2>1 DEF FilesMade
<1>4. CASE ExportXva
  <2>1. \/ at' = "halted"
        \/ at' = "continued" /\ Download(Xva, TRUE)
    BY <1>4 DEF ExportXva
  <2>2. choice.format \in {"xva", "xva_compressed"} /\ FilesMade = {}
    BY <1>4 DEF ExportXva
  <2>3. at' = "continued" => FilesMade' = {Xva}
    BY <1>0, <2>1, <2>2, FilesOf
  <2> QED
    BY <1>0, <2>1, <2>2, <2>3 DEF FilesMade
<1>5. CASE ExportOther
  <2>1. /\ UNCHANGED files /\ FilesMade = {} /\ next' = 1
        /\ choice.format \notin {"xva", "xva_compressed"}
        /\ \/ at' = "halted"
           \/ at' = "continued" /\ choice.format = "none"
           \/ at' = "disks" /\ choice.format # "none"
    BY <1>5 DEF ExportOther
  <2>2. FilesMade' = {} /\ FirstDisks(next - 1)' = {}
    BY <1>0, <2>1 DEF FilesMade, FirstDisks
  <2>3. EveryDiskExported'
    BY <1>0, <2>1, <2>2 DEF FilesMade
  <2>4. at' = "disks" => FilesMade' = FirstDisks(next - 1)' /\ next' <= Len(GetDisks)' + 1
    BY <1>0, <2>1, <2>2
  <2> QED
    BY <1>0, <2>1, <2>3, <2>4
<1>6. CASE Expose
  <2>1. /\ UNCHANGED <<next, files>> /\ at = "disks"
        /\ \/ at' = "halted"
           \/ at' = "continued" /\ next > Len(GetDisks)
           \/ at' = "download" /\ next <= Len(GetDisks)
    BY <1>6 DEF Expose
  <2>2. FilesMade' = FilesMade /\ FirstDisks(next - 1)' = FirstDisks(next - 1)
    BY <1>0, <2>1 DEF FilesMade, FirstDisks
  <2>3. FilesMade = FirstDisks(next - 1) /\ next <= Len(GetDisks) + 1
        /\ choice.format \notin {"none", "xva", "xva_compressed"}
    BY <2>1
  <2>4. next > Len(GetDisks) => FilesMade = OwnDisks
    <3>1. next > Len(GetDisks) => next - 1 = Len(GetDisks)
      BY <1>0, <2>3
    <3> QED
      BY <1>0, <2>3, <3>1
  <2>5. CASE at' = "continued"
    <3>1. EveryDiskExported'
      BY <1>0, <2>1, <2>2, <2>3, <2>4, <2>5 DEF FilesMade
    <3> QED
      BY <2>5, <3>1
  <2>6. CASE at' = "download"
    BY <1>0, <2>1, <2>2, <2>3, <2>6
  <2> QED
    BY <1>0, <2>1, <2>5, <2>6
<1>7. CASE ExportDisk
  <2>1. /\ UNCHANGED next /\ at = "download" /\ at' \in {"unexpose", "halted"}
        /\ at' = "unexpose" =>
             Download(GetDisks[next], ~Legacy \/ GetDisks[next] \in exposed)
    BY <1>7 DEF ExportDisk
  <2>2. next \in 1 .. Len(GetDisks) /\ GetDisks[next] \in Vdis
    BY <1>0, <2>1
  <2>3. at' = "unexpose" => FilesMade' = FilesMade \cup {GetDisks[next]}
    BY <1>0, <2>1, <2>2, FilesOf
  <2>4. FirstDisks(next)' = FirstDisks(next - 1) \cup {GetDisks[next]}
    <3>1. \A i : i \in 1 .. next <=> i \in 1 .. (next - 1) \/ i = next
      BY <1>0
    <3> QED
      BY <1>0, <2>1, <3>1 DEF FirstDisks
  <2> QED
    BY <1>0, <2>1, <2>2, <2>3, <2>4
<1>8. CASE NextDisk
  <2>1. /\ UNCHANGED files /\ at = "unexpose" /\ at' = "disks" /\ next' = next + 1
    BY <1>8 DEF NextDisk
  <2>2. FilesMade' = FilesMade /\ FirstDisks(next - 1)' = FirstDisks(next)
    <3>1. next' - 1 = next
      BY <1>0, <2>1
    <3> QED
      BY <1>0, <2>1, <3>1 DEF FilesMade, FirstDisks
  <2>3. next' <= Len(GetDisks) + 1
    BY <1>0, <2>1
  <2> QED
    BY <1>0, <2>1, <2>2, <2>3
<1> QED
  BY <1>1, <1>2, <1>3, <1>4, <1>5, <1>6, <1>7, <1>8, NextKinds DEF RunMachine, machineVars

(* An export that goes on has a file for each disk the build has made, and *)
(* for nothing else, however many VBDs of either kind the VM has.          *)
THEOREM DisksExported == Spec => []EveryDiskExported
<1>1. Init => FileInv
  BY DEF Init, MachineInit, FileInv, FilesMade, EveryDiskExported
<1>2. FileInv => EveryDiskExported
  BY DEF FileInv
<1> QED
  BY <1>1, <1>2, FileKept, TransfersTypeCorrect, PTL DEF Spec

-----------------------------------------------------------------------------
(* The disks of the Transfer VM.                                           *)
LEMMA ExposureKept ==
    ASSUME TypeOK, ExposureInv, [Next]_vars
    PROVE  ExposureInv'
<1>0. /\ choice' = choice /\ (faults' = 0 => faults = 0) /\ GetDisks' = GetDisks
      /\ Legacy' = Legacy /\ (Fault => faults' # 0)
  <2>1. choice' = choice /\ (faults' = 0 => faults = 0)
    BY NextKinds
  <2>2. faults \in Nat
    BY FaultAssumption DEF TypeOK, BuildOK
  <2> QED
    BY <2>1, <2>2 DEF GetDisks, Legacy, Fault
<1> USE DEF ExposureInv
<1>1. CASE UNCHANGED machineVars
  BY <1>0, <1>1 DEF machineVars
<1>2. CASE BreakOnCancel
  <2>1. /\ UNCHANGED <<next, exposed>>
        /\ at' = at \/ at \in {"idle", "created"}
    BY <1>2 DEF BreakOnCancel, StartsStep
  <2> QED
    BY <1>0, <2>1
<1>3. CASE CloneTemplate \/ ConnectManagement \/ ConnectNetworks \/ TagMachine \/ BeginExport
           \/ DestroyVif \/ ConnectExportNetworks \/ ExportXva \/ ExportOther
           \/ CleanupCreateInstance
  <2>1. UNCHANGED exposed /\ at \notin {"download", "unexpose"}
    BY <1>3 DEF CloneTemplate, ConnectManagement, ConnectNetworks, ConnectByName, TagMachine,
       BeginExport, DestroyVif, ConnectExportNetworks, ExportXva, ExportOther,
       CleanupCreateInstance
  <2> QED
    BY <1>0, <2>1
<1>4. CASE Expose
  <2>1. at = "disks"
    BY <1>4 DEF Expose
  <2>2. faults' = 0 => exposed = {}
    BY <1>0, <2>1
  <2>3. /\ next' = next
        /\ \/ exposed' = exposed
           \/ Fault
           \/ /\ at' = "download"
              /\ exposed' = IF Legacy THEN exposed \cup {GetDisks[next]} ELSE exposed
    BY <1>4 DEF Expose
  <2> QED
    BY <1>0, <2>2, <2>3
<1>5. CASE ExportDisk
  <2>1. /\ UNCHANGED <<next, exposed>> /\ at = "download"
        /\ \/ at' = "unexpose"
           \/ DownloadFails(GetDisks[next], ~Legacy \/ GetDisks[next] \in exposed)
    BY <1>5 DEF ExportDisk
  <2>2. \/ at' = "unexpose" \/ Fault
        \/ Legacy /\ GetDisks[next] \notin exposed
    BY <2>1 DEF DownloadFails
  <2> QED
    BY <1>0, <2>1, <2>2
<1>6. CASE NextDisk
  <2>1. at = "unexpose" /\ (exposed' = exposed \ {GetDisks[next]} \/ Fault)
    BY <1>6 DEF NextDisk, Unexpose
  <2> QED
    BY <1>0, <2>1
<1>7. CASE ExposureExpires
  <2>1. exposed' \subseteq exposed /\ UNCHANGED <<at, next>>
    BY <1>7 DEF ExposureExpires
  <2> QED
    BY <1>0, <2>1
<1> QED
  BY <1>1, <1>2, <1>3, <1>4, <1>5, <1>6, <1>7, NextKinds DEF RunMachine, machineVars

(* No disk is exposed any more when the export is over, if no call failed  *)
(* on the way, whatever is cut short by the time limit of the Transfer VM. *)
THEOREM ExposureOver == Spec => []ExposureEnds
<1>1. Init => ExposureInv
  BY DEF Init, MachineInit, ExposureInv
<1>2. ExposureInv => ExposureEnds
  BY DEF ExposureInv, ExposureEnds
<1> QED
  BY <1>1, <1>2, ExposureKept, TransfersTypeCorrect, PTL DEF Spec

=============================================================================
