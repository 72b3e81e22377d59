------------------------ MODULE BuildPipelineProofs ------------------------
(***************************************************************************)
(* What every build keeps, for every set of configurations, every pipeline *)
(* of the assumptions of BuildRunner, any disks and any number of faults:  *)
(* the types, the rollback of what was created, and the pool's own VDIs.   *)
(***************************************************************************)
EXTENDS BuildPipeline, TLAPS

-----------------------------------------------------------------------------
(* How the building blocks of the actions keep the types.                  *)

(* The pipeline of the build's configuration is a sequence of steps, and   *)
(* the step the runner stands on is one of them.                           *)
LEMMA StepsTyped ==
    ASSUME ControlOK
    PROVE  Steps \in Seq(Step) /\ Len(Steps) \in Nat /\ (ran > 0 => Current \in Step)
  BY PipelineAssumption DEF ControlOK, Current, Steps

(* However a step's Run ends, the runner's state keeps its type.           *)
LEMMA EndsTyped ==
    ASSUME ControlOK, NEW ks \in SUBSET BagKeys, NEW next \in {"run", "cleanup"},
           Ends(ks, next), provisioned' \in BOOLEAN
    PROVE  ControlOK'
  BY DEF ControlOK, Ends, Steps

(* A Run that returns ActionContinue keeps the runner's types.             *)
LEMMA ProceedsTyped ==
    ASSUME ControlOK, NEW ks \in SUBSET BagKeys, Proceeds(ks)
    PROVE  ControlOK'
  BY EndsTyped DEF Proceeds, ControlOK

(* A Run that returns ActionHalt keeps the runner's types.                 *)
LEMMA HaltsTyped ==
    ASSUME ControlOK, NEW ks \in SUBSET BagKeys, Halts(ks)
    PROVE  ControlOK'
<1>1. ks \cup {"halted"} \in SUBSET BagKeys
  BY DEF BagKeys
<1>2. QED
  BY <1>1, EndsTyped DEF Halts, ControlOK

(* A failing call never exceeds the bound on failing calls.                *)
LEMMA FaultTyped ==
    ASSUME faults \in 0 .. MaxFaults, NoFault \/ Fault
    PROVE  faults' \in 0 .. MaxFaults
  BY FaultAssumption DEF NoFault, Fault

(* Plugging a VBD, and unplugging one that is there, keeps the count of    *)
(* VBDs a natural number.                                                  *)
LEMMA VbdsTyped ==
    ASSUME vbds \in [Vdis -> Nat], NEW v \in Vdis,
           Attached(v) \/ (vbds[v] > 0 /\ Detached(v))
    PROVE  vbds' \in [Vdis -> Nat]
<1>1. vbds[v] \in Nat
  OBVIOUS
<1>2. CASE Attached(v)
  BY <1>2, <1>1 DEF Attached
<1>3. CASE vbds[v] > 0 /\ Detached(v)
  <2>1. vbds[v] - 1 \in Nat
    BY <1>1, <1>3
  <2>2. QED
    BY <1>3, <2>1 DEF Detached
<1>4. QED
  BY <1>2, <1>3

(* The steps that only reach the state bag's plain keys.                   *)
QuietStep ==
    \/ StepDownload \/ StepCreateCD \/ StepCreateFloppy \/ StepHTTPServer
    \/ StepSetVmHostSshAddress \/ StepTypeBootCommand \/ StepWaitForIP
    \/ StepForwardPortOverSSH \/ StepConnect \/ StepProvision \/ StepImportInstance

(* The steps that act on the VM alone, or on the templates.                *)
PowerStep ==
    \/ StepStartVmPaused \/ StepBootWait \/ StepShutdown \/ StepSetVmToTemplate
    \/ StepCleanUpTemplate

LocalStep == StepPrepareOutputDir \/ StepExport
BagStep == StepFindVdi \/ StepGetVmTemplate

(* Every Run is of one of these kinds.                                     *)
LEMMA RunStepKinds ==
    ASSUME RunStep
    PROVE  \/ QuietStep \/ PowerStep \/ LocalStep \/ BagStep
           \/ StepUploadVdi \/ StepFindOrUploadVdi \/ StepCreateInstance
           \/ StepAttachVdi \/ StepDetachVdi
  BY DEF RunStep, QuietStep, PowerStep, LocalStep, BagStep

(* What a quiet step leaves alone: pool, disk and media keys.              *)
LEMMA QuietStepFrame ==
    ASSUME QuietStep
    PROVE  UNCHANGED <<pool, local, bag, reported>>
  BY DEF QuietStep, StepDownload, StepCreateCD, StepCreateFloppy, MakeImage,
         StepHTTPServer, StepSetVmHostSshAddress, StepTypeBootCommand,
         StepWaitForIP, StepForwardPortOverSSH, StepConnect, StepProvision, TalkToGuest,
         StepImportInstance

(* What a step on the VM or the templates leaves alone.                    *)
LEMMA PowerStepFrame ==
    ASSUME PowerStep
    PROVE  UNCHANGED <<storage, local, bag, reported>>
  BY DEF PowerStep, StepStartVmPaused, StepBootWait, StepShutdown,
         StepSetVmToTemplate, StepCleanUpTemplate

(* What the steps on the output directory leave alone.                     *)
LEMMA LocalStepFrame ==
    ASSUME LocalStep
    PROVE  UNCHANGED <<pool, bag, reported>>
  BY DEF LocalStep, StepPrepareOutputDir, StepExport

(* What the steps that look objects up leave alone.                        *)
LEMMA BagStepFrame ==
    ASSUME BagStep
    PROVE  UNCHANGED <<pool, local, attachRef, reported>>
  BY DEF BagStep, StepFindVdi, StepGetVmTemplate

-----------------------------------------------------------------------------
(* Type correctness of a step's Run.                                       *)

(* Run of any step keeps the runner's types and the fault count.           *)
LEMMA RunControlTyped ==
    ASSUME TypeOK, RunStep
    PROVE  ControlOK' /\ faults' \in 0 .. MaxFaults
<1> USE ProceedsTyped, HaltsTyped, FaultTyped
        DEF TypeOK, HistoryOK, Succeeds, Fails, Interrupted, BagKeys
<1>1. CASE QuietStep
  BY <1>1 DEF QuietStep, StepDownload, StepCreateCD, StepCreateFloppy, MakeImage,
              ImagePath, Wanted, StepHTTPServer, StepSetVmHostSshAddress,
              StepTypeBootCommand, StepWaitForIP, StepForwardPortOverSSH,
              StepConnect, StepProvision, TalkToGuest, StepImportInstance
<1>2. CASE PowerStep
  BY <1>2 DEF PowerStep, StepStartVmPaused, StepBootWait, StepShutdown,
              StepSetVmToTemplate, StepCleanUpTemplate
<1>3. CASE LocalStep
  BY <1>3 DEF LocalStep, StepPrepareOutputDir, StepExport
<1>4. CASE BagStep
  BY <1>4 DEF BagStep, StepFindVdi, StepGetVmTemplate
<1>5. CASE StepUploadVdi
  BY <1>5 DEF StepUploadVdi, UploadVdi
<1>6. CASE StepFindOrUploadVdi
  BY <1>6 DEF StepFindOrUploadVdi, UploadVdi
<1>7. CASE StepCreateInstance
  BY <1>7 DEF StepCreateInstance
<1>8. CASE StepAttachVdi
  BY <1>8 DEF StepAttachVdi
<1>9. CASE StepDetachVdi
  BY <1>9 DEF StepDetachVdi
<1>10. QED
  BY RunStepKinds, <1>1, <1>2, <1>3, <1>4, <1>5, <1>6, <1>7, <1>8, <1>9

(* Run of any step keeps the types of the state bag and of the pool.       *)
LEMMA RunDataTyped ==
    ASSUME TypeOK, RunStep
    PROVE  BagOK' /\ PoolOK' /\ reported' \subseteq Vdis \cup {"vm"}
<1>0. ControlOK /\ BagOK /\ PoolOK /\ reported \subseteq Vdis \cup {"vm"}
  BY DEF TypeOK, HistoryOK
<1>1. CASE QuietStep
  BY <1>0, <1>1, QuietStepFrame DEF BagOK, PoolOK, pool, bag
<1>2. CASE PowerStep
  <2>1. UNCHANGED <<storage, bag, reported>>
    BY <1>2, PowerStepFrame
  <2>2. /\ vm' \in {vm, "halted", "paused", "running", "destroyed"}
        /\ isTemplate' \in {isTemplate, TRUE}
        /\ templates' \subseteq templates
    BY <1>2 DEF PowerStep, StepStartVmPaused, StepBootWait, StepShutdown,
                StepSetVmToTemplate, StepCleanUpTemplate
  <2>3. QED
    BY <1>0, <2>1, <2>2 DEF BagOK, PoolOK, storage, bag
<1>3. CASE LocalStep
  BY <1>0, <1>3, LocalStepFrame DEF BagOK, PoolOK, pool, bag
<1>4. CASE BagStep
  <2>1. UNCHANGED <<pool, attachRef, reported>>
    BY <1>4, BagStepFrame
  <2>2. media' \in [MediaKeys -> Vdis \cup {"none", "cleared"}]
    BY <1>0, <1>4 DEF BagStep, StepFindVdi, StepGetVmTemplate, BagOK, LibraryVdi,
                      Vdis, Library
  <2>3. listed' \subseteq OldTemplates \cup {"vm"}
    BY <1>0, <1>4 DEF BagStep, StepFindVdi, StepGetVmTemplate, BagOK, PoolOK,
                      SameNameTemplates
  <2>4. QED
    BY <1>0, <2>1, <2>2, <2>3 DEF BagOK, PoolOK, pool
<1>5. ASSUME StepUploadVdi \/ StepFindOrUploadVdi
      PROVE  BagOK' /\ PoolOK' /\ reported' \subseteq Vdis \cup {"vm"}
  <2>1. Current.arg \in Uploads
    BY <1>0, <1>5, StepsTyped DEF StepUploadVdi, StepFindOrUploadVdi, Executing,
       Step, PlainOps, Uploads, ControlOK
  <2>2. UNCHANGED <<listed, attachRef, machine, vbds, templates>>
    BY <1>5 DEF StepUploadVdi, StepFindOrUploadVdi
  <2>3. /\ vdis' \subseteq vdis \cup Uploads
        /\ reported' \subseteq reported \cup Uploads
        /\ media' \in [MediaKeys -> Vdis \cup {"none", "cleared"}]
    BY <1>0, <1>5, <2>1 DEF StepUploadVdi, StepFindOrUploadVdi, UploadVdi, IsoNamed,
       BagOK, Vdis, Uploads, Library
  <2>4. QED
    BY <1>0, <2>2, <2>3 DEF BagOK, PoolOK, machine, Vdis
<1>6. CASE StepCreateInstance
  <2>1. UNCHANGED <<templates, bag, reported>>
    BY <1>6 DEF StepCreateInstance
  <2>2. vdis' \subseteq Vdis
    <3>1. \/ UNCHANGED vdis
          \/ \E made \in SUBSET NewDisks : vdis' = vdis \cup made \cup ClonedDisk
      BY <1>6, Zenon DEF StepCreateInstance, storage
    <3>2. NewDisks \subseteq Vdis /\ ClonedDisk \subseteq Vdis
      BY DEF NewDisks, ClonedDisk, Vdis
    <3>3. QED
      BY <1>0, <3>1, <3>2 DEF PoolOK
  <2>3. vbds' \in [Vdis -> Nat]
    <3>1. \/ UNCHANGED vbds
          \/ \E P : vbds' = [v \in Vdis |-> IF v \in P THEN 1 ELSE 0]
      BY <1>6, Zenon DEF StepCreateInstance, storage
    <3>2. ASSUME NEW P
          PROVE  [v \in Vdis |-> IF v \in P THEN 1 ELSE 0] \in [Vdis -> Nat]
      OBVIOUS
    <3>3. QED
      BY <1>0, <3>1, <3>2 DEF PoolOK
  <2>4. vm' \in {vm, "halted"} /\ isTemplate' \in BOOLEAN
    BY <1>0, <1>6 DEF StepCreateInstance, machine, PoolOK
  <2>5. QED
    BY <1>0, <2>1, <2>2, <2>3, <2>4 DEF BagOK, PoolOK, bag
<1>7. CASE StepAttachVdi
  <2>1. UNCHANGED <<media, listed, machine, vdis, templates, reported>>
    BY <1>7 DEF StepAttachVdi
  <2>2. Current.arg \in MediaKeys
    BY <1>0, <1>7, StepsTyped DEF StepAttachVdi, Executing, Step, PlainOps, MediaKeys,
       ControlOK
  <2>3. attachRef' \subseteq attachRef \cup {Current.arg}
    BY <1>7 DEF StepAttachVdi
  <2>4. vbds' \in [Vdis -> Nat]
    BY <1>0, <1>7, VbdsTyped DEF StepAttachVdi, PoolOK
  <2>5. QED
    BY <1>0, <2>1, <2>2, <2>3, <2>4 DEF BagOK, PoolOK, machine
<1>8. CASE StepDetachVdi
  <2>1. UNCHANGED <<bag, machine, vdis, templates>>
    BY <1>8 DEF StepDetachVdi
  <2>2. vbds' \in [Vdis -> Nat] /\ reported' \subseteq reported \cup vdis
    BY <1>0, <1>8, VbdsTyped DEF StepDetachVdi, PoolOK
  <2>3. QED
    BY <1>0, <2>1, <2>2 DEF BagOK, PoolOK, bag, machine
<1>9. QED
  BY RunStepKinds, <1>1, <1>2, <1>3, <1>4, <1>5, <1>6, <1>7, <1>8

(* Run of any step keeps the types of the output directory.                *)
LEMMA RunLocalTyped ==
    ASSUME LocalOK, RunStep
    PROVE  LocalOK'
<1>1. CASE LocalStep
  BY <1>1 DEF LocalStep, StepPrepareOutputDir, StepExport, LocalOK
<1>2. CASE ~LocalStep
  <2>1. UNCHANGED local
    BY <1>2, RunStepKinds, QuietStepFrame, PowerStepFrame, BagStepFrame
       DEF StepUploadVdi, StepFindOrUploadVdi, StepCreateInstance, StepAttachVdi,
           StepDetachVdi
  <2>2. QED
    BY <2>1 DEF LocalOK, local
<1>3. QED
  BY <1>1, <1>2

-----------------------------------------------------------------------------
(* Type correctness of the cleanups, the runner and the environment.       *)

(* Any Cleanup keeps the types of the runner and of the state bag.         *)
LEMMA CleanupControlTyped ==
    ASSUME TypeOK, CleanupStep
    PROVE  ControlOK' /\ BagOK' /\ faults' \in 0 .. MaxFaults
<1>1. CleanedUp /\ phase = "cleanup" /\ ran > 0
  BY DEF CleanupStep, CleanupPrepareOutputDir, CleanupUploadVdi, CleanupCreateInstance,
         CleanupAttachVdi, VmCleanup, CleanupNothing, Unwinding
<1>2. ControlOK'
  <2>1. ran - 1 \in 0 .. Len(Steps) /\ ~running
    BY <1>1 DEF TypeOK, ControlOK
  <2>2. QED
    BY <1>1, <2>1 DEF TypeOK, ControlOK, CleanedUp, Steps
<1>3. faults' \in 0 .. MaxFaults
  BY FaultTyped DEF CleanupStep, CleanupPrepareOutputDir, CleanupUploadVdi,
     CleanupCreateInstance, CleanupAttachVdi, VmCleanup, CleanupNothing, PoweredOff,
     TypeOK, HistoryOK, NoFault
<1>4. media' = media \/ \E k : media' = [media EXCEPT ![k] = "cleared"]
  BY Zenon DEF CleanupStep, CleanupPrepareOutputDir, CleanupUploadVdi, CleanupCreateInstance,
         CleanupAttachVdi, VmCleanup, CleanupNothing
<1>5. BagOK'
  BY <1>1, <1>4 DEF TypeOK, BagOK, CleanedUp
<1>6. QED
  BY <1>2, <1>3, <1>5

(* Any Cleanup keeps the types of the pool and of the directory.           *)
LEMMA CleanupDataTyped ==
    ASSUME TypeOK, CleanupStep
    PROVE  PoolOK' /\ LocalOK' /\ reported' \subseteq Vdis \cup {"vm"}
<1>0. ControlOK /\ BagOK /\ PoolOK /\ LocalOK /\ reported \subseteq Vdis \cup {"vm"}
  BY DEF TypeOK, HistoryOK
<1>1. CASE CleanupPrepareOutputDir
  BY <1>0, <1>1 DEF CleanupPrepareOutputDir, PoolOK, LocalOK, CleanedUp, machine,
                    storage, local
<1>2. CASE CleanupUploadVdi
  <2>1. UNCHANGED <<machine, local, templates>>
    BY <1>2 DEF CleanupUploadVdi, CleanedUp
  <2>2. vdis' \subseteq vdis
    BY <1>2 DEF CleanupUploadVdi
  <2>3. vbds' = vbds \/ \E v : vbds' = [vbds EXCEPT ![v] = 0]
    BY <1>2, Zenon DEF CleanupUploadVdi
  <2>4. vbds' \in [Vdis -> Nat]
    BY <1>0, <2>3 DEF PoolOK
  <2>5. reported' \subseteq Vdis \cup {"vm"}
    <3>1. Current.arg \in Uploads
      BY <1>0, <1>2, StepsTyped DEF CleanupUploadVdi, Unwinding, Step, PlainOps,
         Uploads, ControlOK
    <3>2. media[Current.arg] \in Vdis \cup {"none", "cleared"}
      BY <1>0, <3>1 DEF BagOK, MediaKeys, Uploads
    <3>3. QED
      BY <1>0, <1>2, <3>2 DEF CleanupUploadVdi
  <2>6. QED
    BY <1>0, <2>1, <2>2, <2>4, <2>5 DEF PoolOK, LocalOK, machine, local
<1>3. CASE CleanupCreateInstance
  <2>1. UNCHANGED <<local, templates, isTemplate>>
    BY <1>3 DEF CleanupCreateInstance, CleanedUp, machine
  <2>2. /\ vm' \in {vm, "destroyed", "halted"}
        /\ vdis' \subseteq vdis
        /\ reported' \subseteq reported \cup vdis \cup {"vm"}
    BY <1>3 DEF CleanupCreateInstance, machine, storage
  <2>3. vbds' = vbds \/ \E P : vbds' = [v \in Vdis |-> IF v \in P THEN 0 ELSE vbds[v]]
    <3>1. CASE UNCHANGED storage
      BY <3>1 DEF storage
    <3>2. ASSUME NEW kept,
                 vbds' = [v \in Vdis |-> IF "vm" \notin kept \/ v \in (Disks \cap vdis) \ kept
                                         THEN 0 ELSE vbds[v]]
          PROVE  \E P : vbds' = [v \in Vdis |-> IF v \in P THEN 0 ELSE vbds[v]]
      <4>1. WITNESS IF "vm" \notin kept THEN Vdis ELSE (Disks \cap vdis) \ kept
      <4>2. QED
        BY <3>2
    <3>3. QED
      BY <1>3, <3>1, <3>2 DEF CleanupCreateInstance
  <2>4. vbds' \in [Vdis -> Nat]
    BY <1>0, <2>3 DEF PoolOK
  <2>5. QED
    BY <1>0, <2>1, <2>2, <2>4 DEF PoolOK, LocalOK, local
<1>4. CASE CleanupAttachVdi
  <2>1. UNCHANGED <<machine, vdis, templates, local, reported>>
    BY <1>4 DEF CleanupAttachVdi, CleanedUp
  <2>2. vbds' = vbds \/ \E v : vbds[v] > 0 /\ Detached(v)
    BY <1>4 DEF CleanupAttachVdi
  <2>3. vbds' \in [Vdis -> Nat]
    <3>1. ASSUME NEW v, v \notin Vdis, Detached(v)
          PROVE  vbds' = vbds
      BY <1>0, <3>1 DEF Detached, PoolOK
    <3>2. QED
      BY <1>0, <2>2, <3>1, VbdsTyped DEF PoolOK
  <2>4. QED
    BY <1>0, <2>1, <2>3 DEF PoolOK, LocalOK, machine, local
<1>5. CASE VmCleanup
  BY <1>0, <1>5 DEF VmCleanup, PoweredOff, CleanedUp, PoolOK, LocalOK, storage, local
<1>6. CASE CleanupNothing
  BY <1>0, <1>6 DEF CleanupNothing, CleanedUp, PoolOK, LocalOK, machine, storage, local
<1>7. QED
  BY <1>1, <1>2, <1>3, <1>4, <1>5, <1>6 DEF CleanupStep

(* What the runner does between the steps, and the cancellation.           *)
RunnerStep ==
    StartStep \/ BreakOnCancel \/ AllStepsRan \/ BuilderReturns \/ Cancel \/ MarkCancelled

(* The runner's own steps and a cancellation keep every type.              *)
LEMMA RunnerTyped ==
    ASSUME TypeOK, RunnerStep
    PROVE  TypeOK'
<1>1. Stays
  BY DEF RunnerStep, StartStep, BreakOnCancel, AllStepsRan, BuilderReturns, Cancel,
         MarkCancelled
<1>2. ControlOK'
  <2>1. CASE StartStep
    <3>1. ran + 1 \in 0 .. Len(Steps) /\ ran + 1 > 0
      BY <2>1, StepsTyped DEF StartStep, TypeOK, ControlOK
    <3>2. QED
      BY <2>1, <3>1 DEF StartStep, Stays, TypeOK, ControlOK, Steps
  <2>2. CASE BreakOnCancel \/ AllStepsRan \/ Cancel \/ MarkCancelled
    <3>1. UNCHANGED <<cfg, ran, running, result, provisioned>> /\ Steps' = Steps
      BY <2>2 DEF BreakOnCancel, AllStepsRan, Cancel, MarkCancelled, Stays, Steps
    <3>2. phase' = phase \/ (phase' = "cleanup" /\ ~running)
      BY <2>2 DEF BreakOnCancel, AllStepsRan, Cancel, MarkCancelled
    <3>3. keys' \subseteq keys \cup {"cancelled"}
      BY <2>2 DEF BreakOnCancel, AllStepsRan, Cancel, MarkCancelled
    <3>4. ctxDone' \in {ctxDone, TRUE}
      BY <2>2 DEF BreakOnCancel, AllStepsRan, Cancel, MarkCancelled
    <3>5. lateMark' \in BOOLEAN
      <4>1. \/ lateMark' = lateMark
            \/ lateMark' = (lateMark \/ (phase = "cleanup" /\ "halted" \notin keys))
        BY <2>2, Zenon DEF BreakOnCancel, AllStepsRan, Cancel, MarkCancelled
      <4>2. QED
        BY <4>1 DEF TypeOK, ControlOK
    <3>6. QED
      BY <3>1, <3>2, <3>3, <3>4, <3>5 DEF TypeOK, ControlOK, BagKeys
  <2>3. CASE BuilderReturns
    <3>1. Outcome \in {"error", "cancelled", "halted", "artifact"}
      BY DEF Outcome
    <3>2. QED
      BY <2>3, <3>1 DEF BuilderReturns, Stays, TypeOK, ControlOK, Steps
  <2>4. QED
    BY <2>1, <2>2, <2>3 DEF RunnerStep
<1>3. QED
  BY <1>1, <1>2 DEF Stays, pool, local, bag, TypeOK, BagOK, PoolOK, LocalOK, HistoryOK

(* A build starts with every variable in its type.                         *)
LEMMA InitTyped == Init => TypeOK
<1>1. SUFFICES ASSUME Init PROVE TypeOK
  OBVIOUS
<1>2. cfg \in Config /\ Steps \in Seq(Step)
  BY <1>1, ConfigAssumption, PipelineAssumption DEF Init, Steps
<1>3. ControlOK
  <2>1. 0 \in 0 .. Len(Steps)
    BY <1>2
  <2>2. /\ cfg \in Configs /\ phase = "run" /\ ran = 0 /\ running = FALSE
        /\ ctxDone = FALSE /\ lateMark = FALSE /\ provisioned = FALSE /\ keys = {}
        /\ result = "none"
    BY <1>1 DEF Init
  <2>3. QED
    BY <2>1, <2>2 DEF ControlOK
<1>4. BagOK /\ LocalOK /\ HistoryOK
  BY <1>1, FaultAssumption DEF Init, BagOK, LocalOK, HistoryOK
<1>5. PoolOK
  BY <1>1, <1>2 DEF Init, PoolOK, Config, Vdis
<1>6. QED
  BY <1>3, <1>4, <1>5 DEF TypeOK

(* Every step of a build keeps every variable in its type.                 *)
LEMMA NextTyped == TypeOK /\ [Next]_vars => TypeOK'
<1>1. SUFFICES ASSUME TypeOK, [Next]_vars PROVE TypeOK'
  OBVIOUS
<1>2. CASE RunStep
  BY <1>1, <1>2, RunControlTyped, RunDataTyped, RunLocalTyped DEF TypeOK, HistoryOK
<1>3. CASE CleanupStep
  BY <1>1, <1>3, CleanupControlTyped, CleanupDataTyped DEF TypeOK, HistoryOK
<1>4. CASE RunnerStep
  BY <1>1, <1>4, RunnerTyped
<1>5. CASE GuestHalts
  BY <1>1, <1>5 DEF GuestHalts, control, bag, storage, local, TypeOK, ControlOK, Steps,
     BagOK, PoolOK, LocalOK, HistoryOK
<1>6. CASE UNCHANGED vars
  BY <1>1, <1>6 DEF vars, TypeOK, ControlOK, Steps, BagOK, PoolOK, LocalOK, HistoryOK
<1>7. QED
  BY <1>1, <1>2, <1>3, <1>4, <1>5, <1>6 DEF Next, Builder, RunnerStep, Done

(* Every variable keeps its type, in every build of every pipeline.        *)
THEOREM TypeCorrect == Spec => []TypeOK
  BY InitTyped, NextTyped, PTL DEF Spec

=============================================================================
