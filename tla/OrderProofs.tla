---------------------------- MODULE OrderProofs ----------------------------
(***************************************************************************)
(* What the order of the pipeline gives a build, for every pipeline that   *)
(* meets the assumptions of BuildPipeline: no step asserts a key that is   *)
(* not there, an artifact has its directory and its export, templates of   *)
(* earlier builds go last, and a kept image is whole, with empty drives.   *)
(* At the end, what holds of every pipeline again: a build comes to its    *)
(* end, and a cancelled one has no artifact.                               *)
(***************************************************************************)
EXTENDS RollbackProofs, FiniteSetTheorems

(* The steps that have run to their end and let the build go on.           *)
Through(i) == i \in 1 .. ran /\ (i < ran \/ (phase = "run" /\ ~running))

(* Each step that is through has left its keys, and a VDI key that Cleanup *)
(* will assert has been put.                                               *)
KeysLeft ==
    /\ \A i \in 1 .. ran : Through(i) =>
         \A key \in BagKeys : Puts(Steps[i].op, key) => key \in keys
    /\ \A k \in attachRef : media[k] # "none"
    /\ phase = "run" => "halted" \notin keys

(* The build goes on: Run has returned ActionContinue, no flag was there.  *)
GoesOn == phase' = "run"

Flagged == "cancelled" \in keys \/ "halted" \in keys

(* What the runner makes of a Run's StepAction.                            *)
LEMMA EndsGoOn ==
    /\ \A ks : Proceeds(ks) =>
          keys' = keys \cup ks /\ running' = FALSE /\ (GoesOn \/ Flagged')
    /\ \A ks : Halts(ks) =>
          keys \subseteq keys' /\ running' = FALSE /\ ~GoesOn /\ Flagged'
  BY DEF Proceeds, Halts, Ends, GoesOn, Flagged

(* The action of a step is that of the step the runner stands on.          *)
LEMMA RunStepOp ==
    ASSUME RunStep
    PROVE  /\ Current.op = "StepPrepareOutputDir" => StepPrepareOutputDir
           /\ Current.op = "StepExport" => StepExport
           /\ Current.op = "StepShutdown" => StepShutdown
           /\ Current.op = "StepGetVmTemplate" => StepGetVmTemplate
           /\ Current.op = "StepCreateInstance" => StepCreateInstance
           /\ Current.op = "StepAttachVdi" => StepAttachVdi
           /\ Current.op = "StepDetachVdi" => StepDetachVdi
           /\ Current.op = "StepSetVmToTemplate" => StepSetVmToTemplate
  BY DEF RunStep, Executing, StepPrepareOutputDir, StepDownload, StepCreateCD,
     StepCreateFloppy, MakeImage, StepHTTPServer, StepUploadVdi, StepFindOrUploadVdi,
     StepFindVdi, StepGetVmTemplate, StepCreateInstance, StepImportInstance,
     StepAttachVdi, StepStartVmPaused, StepSetVmHostSshAddress, StepBootWait,
     StepTypeBootCommand, StepWaitForIP, StepForwardPortOverSSH, StepConnect,
     StepProvision, TalkToGuest, StepShutdown, StepCleanUpTemplate,
     StepSetVmToTemplate, StepDetachVdi, StepExport

(* A Run that lets the build go on has put its keys; one that does not has *)
(* left a flag.                                                            *)
LEMMA RunPuts ==
    ASSUME RunStep
    PROVE  /\ keys \subseteq keys' /\ running' = FALSE
           /\ GoesOn => /\ \A key : Puts(Current.op, key) => key \in keys'
                        /\ "halted" \in keys' => "halted" \in keys
           /\ GoesOn \/ Flagged'
<1> USE EndsGoOn
<1>1. CASE StepHTTPServer
  BY <1>1 DEF StepHTTPServer, Executing, Succeeds, Fails, Puts
<1>2. CASE StepSetVmHostSshAddress
  BY <1>2 DEF StepSetVmHostSshAddress, Executing, Succeeds, Fails, Puts
<1>3. CASE StepWaitForIP
  BY <1>3 DEF StepWaitForIP, Executing, Succeeds, Fails, Interrupted, Puts
<1>4. CASE StepForwardPortOverSSH
  BY <1>4 DEF StepForwardPortOverSSH, Executing, Succeeds, Fails, Puts
<1>5. CASE StepCreateInstance
  <2>1. Current.op = "StepCreateInstance" /\ (Succeeds({"instance_uuid"}) \/ Fails({}) \/ Halts({}))
    BY <1>5, Zenon DEF StepCreateInstance, Executing
  <2>2. QED
    BY <2>1 DEF Succeeds, Fails, Puts
<1>6. CASE StepDownload \/ StepCreateCD \/ StepCreateFloppy
  BY <1>6 DEF StepDownload, StepCreateCD, StepCreateFloppy, MakeImage, ImagePath,
     Executing, Succeeds, Fails, Puts
<1>7. CASE StepTypeBootCommand \/ StepConnect \/ StepProvision \/ StepImportInstance
  BY <1>7 DEF StepTypeBootCommand, StepConnect, StepProvision, TalkToGuest,
     StepImportInstance, Executing, Succeeds, Fails, Puts
<1>8. CASE PowerStep
  BY <1>8 DEF PowerStep, StepStartVmPaused, StepBootWait, StepShutdown,
     StepSetVmToTemplate, StepCleanUpTemplate, Executing, Succeeds, Fails, Puts
<1>9. CASE LocalStep
  BY <1>9 DEF LocalStep, StepPrepareOutputDir, StepExport, Executing, Succeeds, Fails, Puts
<1>10. CASE BagStep
  BY <1>10 DEF BagStep, StepFindVdi, StepGetVmTemplate, Executing, Succeeds, Fails, Puts
<1>11. CASE StepUploadVdi \/ StepFindOrUploadVdi
  BY <1>11 DEF StepUploadVdi, StepFindOrUploadVdi, UploadVdi, Executing, Succeeds, Fails,
     Interrupted, Puts
<1>12. CASE StepAttachVdi \/ StepDetachVdi
  <2>1. Current.op \in {"StepAttachVdi", "StepDetachVdi"} /\ (Proceeds({}) \/ Halts({}))
    BY <1>12, Zenon DEF StepAttachVdi, StepDetachVdi, Succeeds, Fails, Executing
  <2>2. QED
    BY <2>1 DEF Puts
<1>13. QED
  BY RunStepKinds, <1>1, <1>2, <1>3, <1>4, <1>5, <1>6, <1>7, <1>8, <1>9, <1>10, <1>11,
     <1>12 DEF QuietStep

(* A media key that has been put is never taken back to nothing.           *)
LEMMA MediaStays ==
    ASSUME Inv, [Next]_vars
    PROVE  \A k \in MediaKeys : media'[k] = "none" => media[k] = "none"
<1>0. media \in [MediaKeys -> Vdis \cup {"none", "cleared"}] /\ TypeOK
  BY DEF Inv, TypeOK, BagOK
<1>1. CASE StepUploadVdi \/ StepFindOrUploadVdi
  <2>1. \/ media' = media
        \/ \E k \in Uploads : media' = [media EXCEPT ![k] = k]
        \/ \E v \in IsoNamed : media' = [media EXCEPT ![Current.arg] = v]
    <3>1. Current.arg \in Uploads
      BY <1>0, <1>1, StepsTyped DEF StepUploadVdi, StepFindOrUploadVdi, Executing, TypeOK,
         ControlOK, Step, PlainOps, Uploads
    <3>2. QED
      BY <1>1, <3>1, Zenon DEF StepUploadVdi, StepFindOrUploadVdi, UploadVdi
  <2>2. QED
    BY <1>0, <2>1 DEF Uploads, IsoNamed
<1>2. CASE StepFindVdi
  <2>1. media' = media \/ media' = [media EXCEPT ![Current.arg] = LibraryVdi(Current.arg)]
    BY <1>2, Zenon DEF StepFindVdi
  <2>2. QED
    BY <1>0, <2>1 DEF LibraryVdi
<1>3. CASE CleanupUploadVdi
  <2>1. media' = media \/ media' = [media EXCEPT ![Current.arg] = "cleared"]
    BY <1>3, Zenon DEF CleanupUploadVdi
  <2>2. QED
    BY <1>0, <2>1
<1>4. CASE RunStep /\ ~StepUploadVdi /\ ~StepFindOrUploadVdi /\ ~StepFindVdi
  BY <1>4, RunStepKinds, QuietStepFrame, PowerStepFrame, LocalStepFrame
     DEF BagStep, StepGetVmTemplate, StepCreateInstance, StepAttachVdi, StepDetachVdi, bag
<1>5. CASE CleanupStep /\ ~CleanupUploadVdi
  BY <1>0, <1>5, MildCleanup, CreateCleanupEffect
<1>6. CASE RunnerStep \/ GuestHalts \/ UNCHANGED vars
  BY <1>6 DEF RunnerStep, StartStep, BreakOnCancel, AllStepsRan, BuilderReturns, Cancel,
     MarkCancelled, Stays, GuestHalts, bag, vars
<1>7. QED
  BY <1>1, <1>2, <1>3, <1>4, <1>5, <1>6 DEF Next, Builder, RunnerStep, Done

(* Only StepAttachVdi sets its field vdi, to the VDI that its key names.   *)
LEMMA AttachRefPut ==
    ASSUME Inv, \A k \in attachRef : media[k] # "none", [Next]_vars
    PROVE  \A k \in attachRef' : media'[k] # "none"
<1>0. TypeOK /\ attachRef \subseteq MediaKeys
  BY DEF Inv, TypeOK, BagOK
<1>1. CASE StepAttachVdi
  <2>1. /\ media' = media
        /\ attachRef' = attachRef
           \/ (media[Current.arg] \in vdis /\ attachRef' = attachRef \cup {Current.arg})
    BY <1>1, Zenon DEF StepAttachVdi
  <2>2. "none" \notin vdis
    BY <1>0, DisksAssumption DEF TypeOK, PoolOK, Vdis, Uploads, Library
  <2>3. QED
    BY <2>1, <2>2
<1>2. CASE ~StepAttachVdi
  <2>1. attachRef' = attachRef
    <3>1. CASE RunStep
      BY <1>2, <3>1, RunStepKinds, QuietStepFrame, PowerStepFrame, LocalStepFrame,
         BagStepFrame DEF StepUploadVdi, StepFindOrUploadVdi, StepCreateInstance,
         StepDetachVdi, bag
    <3>2. CASE CleanupStep
      BY <3>2 DEF CleanupStep, CleanupPrepareOutputDir, CleanupUploadVdi,
         CleanupCreateInstance, CleanupAttachVdi, VmCleanup, CleanupNothing, CleanedUp
    <3>3. CASE RunnerStep \/ GuestHalts \/ UNCHANGED vars
      BY <3>3 DEF RunnerStep, StartStep, BreakOnCancel, AllStepsRan, BuilderReturns, Cancel,
         MarkCancelled, Stays, GuestHalts, bag, vars
    <3>4. QED
      BY <3>1, <3>2, <3>3 DEF Next, Builder, RunnerStep, Done
  <2>2. QED
    BY <1>0, <2>1, MediaStays
<1>3. QED
  BY <1>1, <1>2

(* The keys of the steps that are through stay where they are.             *)
LEMMA NextKeys ==
    ASSUME Inv, KeysLeft, [Next]_vars
    PROVE  KeysLeft'
<1>0. TypeOK /\ ran \in Nat /\ (\A k \in attachRef' : media'[k] # "none")
  BY AttachRefPut DEF Inv, TypeOK, ControlOK, KeysLeft
<1>1. CASE RunStep
  <2>1. UNCHANGED <<cfg, ran>> /\ phase = "run" /\ running /\ ran > 0 /\ Steps' = Steps
    BY <1>0, <1>1, RunFrame DEF Steps, TypeOK, ControlOK
  <2>2. \A i \in 1 .. ran' : Through(i)' => Through(i) \/ (i = ran /\ GoesOn)
    BY <1>0, <2>1 DEF Through, GoesOn
  <2>3. QED
    BY <1>0, <1>1, <2>1, <2>2, RunPuts DEF KeysLeft, Current, GoesOn
<1>2. CASE CleanupStep
  <2>1. \A i \in 1 .. ran' : i \in 1 .. ran /\ (Through(i)' => Through(i))
    BY <1>0, <1>2, CleanupFrame DEF Through
  <2>2. QED
    BY <1>0, <1>2, <2>1, CleanupFrame DEF KeysLeft
<1>3. CASE RunnerStep
  <2>1. cfg' = cfg /\ Steps' = Steps
    BY <1>3 DEF RunnerStep, StartStep, BreakOnCancel, AllStepsRan, BuilderReturns, Cancel,
       MarkCancelled, Stays, Steps
  <2>2. keys \subseteq keys' /\ ("halted" \in keys' => "halted" \in keys)
    BY <1>3 DEF RunnerStep, StartStep, BreakOnCancel, AllStepsRan, BuilderReturns, Cancel,
       MarkCancelled
  <2>3. phase' = "run" => phase = "run"
    BY <1>3 DEF RunnerStep, StartStep, BreakOnCancel, AllStepsRan, BuilderReturns, Cancel,
       MarkCancelled
  <2>4. \A i \in 1 .. ran' : Through(i)' => i \in 1 .. ran /\ Through(i)
    BY <1>0, <1>3 DEF RunnerStep, StartStep, BreakOnCancel, AllStepsRan, BuilderReturns, Cancel,
       MarkCancelled, Through
  <2>5. QED
    BY <1>0, <2>1, <2>2, <2>3, <2>4 DEF KeysLeft
<1>4. CASE GuestHalts \/ UNCHANGED vars
  <2>1. UNCHANGED <<cfg, ran, phase, running, keys>>
    BY <1>4 DEF GuestHalts, control, vars
  <2>2. QED
    BY <1>0, <2>1 DEF KeysLeft, Through, Steps
<1>5. QED
  BY <1>1, <1>2, <1>3, <1>4 DEF Next, Builder, RunnerStep, Done

(* A key that a step asserts has been put by a step that is through.       *)
LEMMA KeysAreThere ==
    ASSUME TypeOK, KeysLeft, ran > 0, NEW key \in BagKeys, Needs(Current.op, key)
    PROVE  key \in keys
<1>1. cfg \in Configs /\ ran \in 1 .. Len(Steps) /\ Steps = Pipeline[cfg]
      /\ Steps \in Seq(Step) /\ ran \in DOMAIN Steps
  BY StepsTyped DEF TypeOK, ControlOK, Steps
<1>2. PICK j \in 1 .. (ran - 1) : Puts(Steps[j].op, key)
  BY <1>1, KeysAssumption DEF KeysComeFirst, Current
<1>3. j \in 1 .. ran /\ Through(j)
  BY <1>1, <1>2 DEF Through
<1>4. QED
  BY <1>2, <1>3 DEF KeysLeft

(* No step, in Run or in Cleanup, asserts a key of the state bag that is   *)
(* not there, whatever failed or was cancelled before.                     *)
THEOREM KeysNeverMissed == Spec => []NoPanic
<1>1. Init => KeysLeft
  BY DEF Init, KeysLeft
<1>2. TypeOK /\ KeysLeft => NoPanic
  <2>1. SUFFICES ASSUME TypeOK, KeysLeft PROVE NoPanic
    OBVIOUS
  <2>2. ASSUME running PROVE RunAsserts(Current) \subseteq keys
    BY <2>1, <2>2, KeysAreThere DEF RunAsserts, TypeOK, ControlOK
  <2>3. ASSUME phase = "cleanup", ran > 0
        PROVE  CleanupAsserts(Current) \subseteq keys
    BY <2>1, <2>3, KeysAreThere DEF CleanupAsserts, Needs, VmOps, BagKeys
  <2>4. QED
    BY <2>1, <2>2, <2>3 DEF NoPanic, KeysLeft
<1>3. Inv => TypeOK
  BY DEF Inv
<1>4. QED
  BY <1>1, <1>2, <1>3, InitInv, NextInv, NextKeys, PTL DEF Spec

-----------------------------------------------------------------------------
(* The output directory and the export.                                    *)

Exported == outputDir # "absent" /\ (cfg.format = "none" \/ exported # "none")

(* The directory is there once its step is through, the export likewise,   *)
(* and both stay for a build that no flag has been raised in.              *)
ExportKept ==
    /\ phase = "run" => \A i \in 1 .. ran : Through(i) =>
         /\ Steps[i].op = "StepPrepareOutputDir" => outputDir # "absent"
         /\ Steps[i].op = "StepExport" => cfg.format = "none" \/ exported # "none"
    /\ phase # "run" => Exported \/ Flagged
    /\ phase = "returned" /\ result = "artifact" => ~Flagged

(* What a Run that lets the build go on does to the output directory.      *)
LEMMA RunExport ==
    ASSUME RunStep, GoesOn
    PROVE  /\ outputDir # "absent" \/ Current.op = "StepPrepareOutputDir"
                => outputDir' # "absent"
           /\ exported # "none" \/ Current.op = "StepExport"
                => cfg.format = "none" \/ exported' # "none"
<1> USE EndsGoOn
<1>1. CASE StepPrepareOutputDir
  BY <1>1 DEF StepPrepareOutputDir, Executing, Succeeds, Fails
<1>2. CASE StepExport
  BY <1>2 DEF StepExport, Executing, Succeeds, Fails
<1>3. CASE ~LocalStep
  <2>1. UNCHANGED local
    BY <1>3, RunStepKinds, QuietStepFrame, PowerStepFrame, BagStepFrame
       DEF StepUploadVdi, StepFindOrUploadVdi, StepCreateInstance, StepAttachVdi,
           StepDetachVdi
  <2>2. Current.op \notin {"StepPrepareOutputDir", "StepExport"}
    BY <1>3, RunStepOp DEF LocalStep
  <2>3. QED
    BY <2>1, <2>2 DEF local
<1>4. QED
  BY <1>1, <1>2, <1>3 DEF LocalStep

(* No Cleanup of a build without a flag touches what was exported.         *)
LEMMA CleanupExport ==
    ASSUME CleanupStep, ~Flagged
    PROVE  UNCHANGED local
  BY DEF CleanupStep, CleanupPrepareOutputDir, CleanupUploadVdi, CleanupCreateInstance,
     CleanupAttachVdi, VmCleanup, CleanupNothing, Flagged

(* When all steps are through there is an export. *)
LEMMA AllThrough ==
    ASSUME TypeOK, ExportKept, AllStepsRan
    PROVE  Exported
<1>1. cfg \in Configs /\ Steps = Pipeline[cfg] /\ Steps \in Seq(Step) /\ ran = Len(Steps)
      /\ phase = "run" /\ ~running
  BY StepsTyped DEF TypeOK, ControlOK, Steps, AllStepsRan
<1>2. PICK i \in DOMAIN Steps : Steps[i].op = "StepPrepareOutputDir"
  BY <1>1, ExportAssumption DEF IsExported, Places
<1>3. PICK j \in DOMAIN Steps : Steps[j].op = "StepExport"
  BY <1>1, ExportAssumption DEF IsExported, Places
<1>4. i \in 1 .. ran /\ Through(i) /\ j \in 1 .. ran /\ Through(j)
  BY <1>1 DEF Through
<1>5. QED
  BY <1>1, <1>2, <1>3, <1>4 DEF ExportKept, Exported

(* The directory and the export stay. *)
LEMMA NextExport ==
    ASSUME Inv, ExportKept, [Next]_vars
    PROVE  ExportKept'
<1>0. TypeOK /\ ran \in Nat /\ phase \in {"run", "cleanup", "returned"}
  BY DEF Inv, TypeOK, ControlOK
<1>1. CASE RunStep
  <2>1. UNCHANGED <<cfg, ran>> /\ phase = "run" /\ running /\ ran > 0 /\ Steps' = Steps
        /\ phase' \in {"run", "cleanup"}
    BY <1>0, <1>1, RunFrame DEF Steps, TypeOK, ControlOK
  <2>2. CASE GoesOn
    <3>1. \A i \in 1 .. ran' : Through(i)' => Through(i) \/ i = ran
      BY <1>0, <2>1 DEF Through
    <3>2. QED
      BY <1>1, <2>1, <2>2, <3>1, RunExport DEF ExportKept, Current, GoesOn
  <2>3. CASE ~GoesOn
    BY <1>1, <2>1, <2>3, RunPuts DEF ExportKept, GoesOn
  <2>4. QED
    BY <2>2, <2>3
<1>2. CASE CleanupStep
  <2>1. phase = "cleanup" /\ phase' = "cleanup" /\ UNCHANGED <<cfg, keys>>
    BY <1>0, <1>2, CleanupFrame
  <2>2. QED
    BY <1>2, <2>1, CleanupExport DEF ExportKept, Exported, Flagged, local
<1>3. CASE AllStepsRan
  <2>1. Exported /\ UNCHANGED <<cfg, keys, outputDir, exported>> /\ phase' = "cleanup"
    BY <1>0, <1>3, AllThrough DEF AllStepsRan, Stays, local
  <2>2. QED
    BY <2>1 DEF ExportKept, Exported
<1>4. CASE BreakOnCancel
  BY <1>4 DEF BreakOnCancel, ExportKept, Flagged
<1>5. CASE StartStep
  <2>1. UNCHANGED <<cfg, phase, outputDir, exported>> /\ phase = "run" /\ Steps' = Steps
    BY <1>5 DEF StartStep, Stays, local, Steps
  <2>2. \A i \in 1 .. ran' : Through(i)' => i \in 1 .. ran /\ Through(i)
    BY <1>0, <1>5 DEF StartStep, Through
  <2>3. QED
    BY <2>1, <2>2 DEF ExportKept
<1>6. CASE BuilderReturns
  <2>1. UNCHANGED <<cfg, keys, outputDir, exported>> /\ phase = "cleanup" /\ phase' = "returned"
    BY <1>6 DEF BuilderReturns, Stays, local
  <2>2. result' = "artifact" => ~Flagged
    BY <1>6 DEF BuilderReturns, Outcome, Flagged
  <2>3. QED
    BY <2>1, <2>2 DEF ExportKept, Exported, Flagged
<1>7. CASE Cancel \/ MarkCancelled \/ GuestHalts \/ UNCHANGED vars
  <2>1. UNCHANGED <<cfg, phase, ran, running, outputDir, exported, result>> /\ Steps' = Steps
    BY <1>7 DEF Cancel, MarkCancelled, GuestHalts, Stays, local, control, vars, Steps
  <2>2. keys' = keys \/ (phase # "returned" /\ keys \subseteq keys')
    BY <1>7 DEF Cancel, MarkCancelled, GuestHalts, vars
  <2>3. QED
    BY <2>1, <2>2 DEF ExportKept, Exported, Flagged, Through
<1>8. QED
  BY <1>1, <1>2, <1>3, <1>4, <1>5, <1>6, <1>7 DEF Next, Builder, Done

(* An artifact names a directory that is there, with an export in it.      *)
THEOREM ArtifactHasExport == Spec => []ArtifactIsThere
<1>1. Init => ExportKept
  BY DEF Init, ExportKept
<1>2. ExportKept => ArtifactIsThere
  BY DEF ExportKept, Exported, ArtifactIsThere
<1>3. QED
  BY <1>1, <1>2, InitInv, NextInv, NextExport, PTL DEF Spec

-----------------------------------------------------------------------------
(* The templates of earlier builds.                                        *)

(* What StepCleanUpTemplate relies on: only a build that does not skip the *)
(* templates has listed any; the list was made before there was a VM, so   *)
(* the VM is not in it; once StepShutdown is through the VM stays off; and *)
(* once StepProvision is through the image stays provisioned.              *)
TemplatesInv ==
    /\ listed # {} => ~cfg.skipTemplate
    /\ "vm" \notin listed
    /\ phase = "run" /\ vm # "absent" => CreatePending
    /\ phase = "run" => \A i \in 1 .. ran :
          Through(i) => /\ Steps[i].op = "StepShutdown" => vm = "halted"
                        /\ Steps[i].op = "StepProvision" => provisioned

(* What a Run may do to the list ...                                       *)
LEMMA RunListed ==
    ASSUME RunStep
    PROVE  listed' = listed \/ StepGetVmTemplate
<1>1. CASE StepFindVdi \/ StepUploadVdi \/ StepFindOrUploadVdi \/ StepCreateInstance
  BY <1>1 DEF StepFindVdi, StepUploadVdi, StepFindOrUploadVdi, StepCreateInstance, bag
<1>2. CASE StepAttachVdi \/ StepDetachVdi
  BY <1>2 DEF StepAttachVdi, StepDetachVdi, bag
<1>3. QED
  BY RunStepKinds, QuietStepFrame, PowerStepFrame, LocalStepFrame, <1>1, <1>2
     DEF BagStep, bag

(* ... and to the power state.                                             *)
LEMMA RunPower ==
    ASSUME RunStep, "vm" \notin listed
    PROVE  /\ vm = "halted" =>
                vm' = "halted" \/ (Current.op = "StepStartVmPaused" /\ vm' = "paused")
           /\ GoesOn /\ Current.op = "StepShutdown" => vm' = "halted"
           /\ vm' # "absent" => vm # "absent" \/ Current.op = "StepCreateInstance"
<1> USE EndsGoOn
<1>1. CASE StepStartVmPaused
  BY <1>1 DEF StepStartVmPaused, Executing
<1>2. CASE StepBootWait
  BY <1>2 DEF StepBootWait, Executing
<1>3. CASE StepShutdown
  BY <1>3 DEF StepShutdown, Executing, Fails, Live
<1>4. CASE StepSetVmToTemplate
  BY <1>4 DEF StepSetVmToTemplate, Executing
<1>5. CASE StepCleanUpTemplate
  <2>1. PICK gone \in SUBSET listed : vm' = IF "vm" \in gone THEN "destroyed" ELSE vm
    BY <1>5 DEF StepCleanUpTemplate
  <2>2. vm' = vm /\ Current.op = "StepCleanUpTemplate"
    BY <1>5, <2>1 DEF StepCleanUpTemplate, Executing
  <2>3. QED
    BY <2>2
<1>6. CASE StepCreateInstance
  <2>1. Current.op = "StepCreateInstance" /\ (vm' = vm \/ vm' = "halted")
    BY <1>6, Zenon DEF StepCreateInstance, Executing, machine
  <2>2. QED
    BY <2>1
<1>7. CASE ~PowerStep /\ ~StepCreateInstance
  <2>1. vm' = vm
    BY <1>7, RunStepKinds, QuietStepFrame, LocalStepFrame, BagStepFrame
       DEF StepUploadVdi, StepFindOrUploadVdi, StepAttachVdi, StepDetachVdi, pool, machine
  <2>2. Current.op # "StepShutdown"
    BY <1>7, RunStepOp DEF PowerStep
  <2>3. QED
    BY <2>1, <2>2
<1>8. QED
  BY <1>1, <1>2, <1>3, <1>4, <1>5, <1>6, <1>7 DEF PowerStep

(* What is provisioned stays so, and StepProvision goes on only with that. *)
LEMMA RunProvisions ==
    ASSUME RunStep
    PROVE  /\ provisioned => provisioned'
           /\ GoesOn /\ Current.op = "StepProvision" => provisioned'
<1>1. /\ \A ks : Proceeds(ks) =>
            provisioned' = (provisioned \/ Current.op = "StepProvision")
      /\ \A ks : Halts(ks) => provisioned' = provisioned /\ ~GoesOn
  BY EndsGoOn DEF Proceeds, Halts
<1>2. \E ks : Proceeds(ks) \/ Halts(ks)
  <2>1. CASE QuietStep
    BY <2>1 DEF QuietStep, StepDownload, StepCreateCD, StepCreateFloppy, MakeImage,
       StepHTTPServer, StepSetVmHostSshAddress, StepTypeBootCommand, StepWaitForIP,
       StepForwardPortOverSSH, StepConnect, StepProvision, TalkToGuest,
       StepImportInstance, Succeeds, Fails, Interrupted
  <2>2. CASE PowerStep \/ LocalStep
    BY <2>2 DEF PowerStep, LocalStep, StepStartVmPaused, StepBootWait, StepShutdown,
       StepSetVmToTemplate, StepCleanUpTemplate, StepPrepareOutputDir, StepExport,
       Succeeds, Fails
  <2>3. CASE BagStep \/ StepUploadVdi \/ StepFindOrUploadVdi
    BY <2>3 DEF BagStep, StepFindVdi, StepGetVmTemplate, StepUploadVdi,
       StepFindOrUploadVdi, UploadVdi, Succeeds, Fails, Interrupted
  <2>4. CASE StepCreateInstance \/ StepAttachVdi \/ StepDetachVdi
    BY <2>4, Zenon DEF StepCreateInstance, StepAttachVdi, StepDetachVdi, Succeeds, Fails
  <2>5. QED
    BY RunStepKinds, <2>1, <2>2, <2>3, <2>4
<1>3. \/ provisioned' = (provisioned \/ Current.op = "StepProvision")
      \/ provisioned' = provisioned /\ ~GoesOn
  BY <1>1, <1>2
<1>4. CASE provisioned' = (provisioned \/ Current.op = "StepProvision")
  BY <1>4, Zenon
<1>5. QED
  BY <1>3, <1>4, Zenon

(* The step that makes the list comes before the one that makes the VM.    *)
LEMMA ListedBefore ==
    ASSUME TypeOK, TemplatesInv, StepGetVmTemplate
    PROVE  /\ "vm" \notin listed'
           /\ listed' # {} => ~cfg.skipTemplate
<1>1. cfg \in Configs /\ Steps = Pipeline[cfg] /\ Steps \in Seq(Step) /\ ran \in Nat
      /\ ran \in 1 .. Len(Steps) /\ phase = "run" /\ Steps[ran].op = "StepGetVmTemplate"
  BY StepsTyped DEF TypeOK, ControlOK, Steps, Current, StepGetVmTemplate, Executing
<1>2. ~CreatePending
  <2>1. SUFFICES ASSUME NEW i \in 1 .. ran, Steps[i].op = "StepCreateInstance"
                 PROVE  FALSE
    BY DEF CreatePending
  <2>2. i \in DOMAIN Steps /\ ran \in DOMAIN Steps
    BY <1>1
  <2>3. i \in Places(Pipeline[cfg], "StepCreateInstance") /\ ran \in Places(Pipeline[cfg], "StepGetVmTemplate")
    BY <1>1, <2>1, <2>2 DEF Places
  <2>4. ran < i
    BY <1>1, <2>3, TemplateAssumption DEF CleansUpLast
  <2>5. QED
    BY <1>1, <2>4
<1>3. vm = "absent"
  BY <1>1, <1>2 DEF TemplatesInv
<1>4. "vm" \notin SameNameTemplates
  <2>1. templates \subseteq {"old1", "old2"}
    BY DEF TypeOK, PoolOK, OldTemplates
  <2>2. QED
    BY <1>3, <2>1 DEF SameNameTemplates, Exists
<1>5. \/ listed' = listed
      \/ listed' = SameNameTemplates /\ ~cfg.skipTemplate
  BY DEF StepGetVmTemplate
<1>6. QED
  BY <1>4, <1>5 DEF TemplatesInv

LEMMA NextTemplates ==
    ASSUME Inv, TemplatesInv, [Next]_vars
    PROVE  TemplatesInv'
<1>0. TypeOK /\ ran \in Nat /\ phase \in {"run", "cleanup", "returned"}
  BY DEF Inv, TypeOK, ControlOK
<1>1. CASE RunStep
  <2>1. UNCHANGED <<cfg, ran>> /\ phase = "run" /\ running /\ ran > 0 /\ Steps' = Steps
        /\ ran \in 1 .. ran /\ Current = Steps[ran]
    BY <1>0, <1>1, RunFrame DEF Steps, Current, TypeOK, ControlOK
  <2>2. "vm" \notin listed' /\ (listed' # {} => ~cfg'.skipTemplate)
    BY <1>0, <1>1, <2>1, RunListed, ListedBefore DEF TemplatesInv
  <2>3. /\ vm = "halted" =>
             vm' = "halted" \/ (Current.op = "StepStartVmPaused" /\ vm' = "paused")
        /\ GoesOn /\ Current.op = "StepShutdown" => vm' = "halted"
        /\ vm' # "absent" => vm # "absent" \/ Current.op = "StepCreateInstance"
    BY <1>1, RunPower DEF TemplatesInv
  <2>4. vm' # "absent" => CreatePending'
    BY <2>1, <2>3 DEF TemplatesInv, CreatePending
  <2>5. ASSUME phase' = "run", NEW i \in 1 .. ran', Through(i)',
               Steps'[i].op = "StepProvision"
        PROVE  provisioned'
    <3>1. i \in 1 .. ran /\ Steps[i].op = "StepProvision"
      BY <2>1, <2>5
    <3>2. CASE i = ran
      BY <1>1, <2>1, <2>5, <3>1, <3>2, RunProvisions DEF GoesOn
    <3>3. CASE i < ran
      <4>1. provisioned
        BY <2>1, <3>1, <3>3 DEF Through, TemplatesInv
      <4>2. QED
        BY <1>1, <4>1, RunProvisions
    <3>4. QED
      BY <1>0, <3>1, <3>2, <3>3
  <2>6. ASSUME phase' = "run", NEW i \in 1 .. ran', Through(i)',
               Steps'[i].op = "StepShutdown"
        PROVE  vm' = "halted"
    <3>1. i \in 1 .. ran /\ Steps[i].op = "StepShutdown"
      BY <2>1, <2>6
    <3>2. CASE i = ran
      BY <2>1, <2>3, <2>6, <3>1, <3>2 DEF GoesOn
    <3>3. CASE i < ran
      <4>1. vm = "halted"
        BY <2>1, <3>1, <3>3 DEF Through, TemplatesInv
      <4>2. Current.op # "StepStartVmPaused"
        <5>1. SUFFICES ASSUME Steps[ran].op = "StepStartVmPaused" PROVE FALSE
          BY <2>1
        <5>2. cfg \in Configs /\ Steps = Pipeline[cfg] /\ Steps \in Seq(Step)
              /\ ran \in 1 .. Len(Steps)
          BY <1>0, <2>1, StepsTyped DEF TypeOK, ControlOK, Steps
        <5>3. i \in DOMAIN Steps /\ ran \in DOMAIN Steps
          BY <3>1, <5>2
        <5>4. i \in Places(Pipeline[cfg], "StepShutdown") /\ ran \in Places(Pipeline[cfg], "StepStartVmPaused")
          BY <3>1, <5>1, <5>2, <5>3 DEF Places
        <5>5. ran < i
          BY <5>2, <5>4, TemplateAssumption DEF CleansUpLast
        <5>6. QED
          BY <3>1, <5>2, <5>5
      <4>3. QED
        BY <2>3, <4>1, <4>2
    <3>4. QED
      BY <1>0, <3>1, <3>2, <3>3
  <2>7. QED
    BY <2>2, <2>4, <2>5, <2>6 DEF TemplatesInv
<1>2. CASE CleanupStep
  <2>1. phase' = "cleanup" /\ cfg' = cfg
    BY <1>0, <1>2, CleanupFrame
  <2>2. listed' = listed
    BY <1>2 DEF CleanupStep, CleanupPrepareOutputDir, CleanupUploadVdi,
       CleanupCreateInstance, CleanupAttachVdi, VmCleanup, CleanupNothing, CleanedUp
  <2>3. QED
    BY <2>1, <2>2 DEF TemplatesInv
<1>3. CASE RunnerStep
  <2>1. UNCHANGED <<cfg, vm, listed, provisioned>> /\ Steps' = Steps
    BY <1>3 DEF RunnerStep, StartStep, BreakOnCancel, AllStepsRan, BuilderReturns, Cancel,
       MarkCancelled, Stays, Steps, pool, bag
  <2>2. phase' = "run" => phase = "run" /\ ran' \in {ran, ran + 1}
    BY <1>3 DEF RunnerStep, StartStep, BreakOnCancel, AllStepsRan, BuilderReturns, Cancel,
       MarkCancelled
  <2>3. \A i \in 1 .. ran' : Through(i)' => i \in 1 .. ran /\ Through(i)
    BY <1>0, <1>3 DEF RunnerStep, StartStep, BreakOnCancel, AllStepsRan, BuilderReturns, Cancel,
       MarkCancelled, Through
  <2>4. phase' = "run" /\ CreatePending => CreatePending'
    BY <1>0, <2>1, <2>2 DEF CreatePending
  <2>5. QED
    BY <2>1, <2>2, <2>3, <2>4 DEF TemplatesInv
<1>4. CASE GuestHalts \/ UNCHANGED vars
  <2>1. UNCHANGED <<cfg, phase, ran, running, listed, provisioned>> /\ Steps' = Steps
        /\ (vm' = vm \/ (vm = "running" /\ vm' = "halted"))
    BY <1>4 DEF GuestHalts, control, bag, vars, Steps
  <2>2. QED
    BY <1>0, <2>1 DEF TemplatesInv, Through, CreatePending
<1>5. QED
  BY <1>1, <1>2, <1>3, <1>4 DEF Next, Builder, RunnerStep, Done

(* Only StepCleanUpTemplate destroys templates of earlier builds.          *)
LEMMA OnlyCleanUp ==
    ASSUME [Next]_vars, templates' # templates
    PROVE  StepCleanUpTemplate
<1>1. CASE RunStep
  <2>1. CASE StepStartVmPaused \/ StepBootWait \/ StepShutdown \/ StepSetVmToTemplate
    BY <2>1 DEF StepStartVmPaused, StepBootWait, StepShutdown, StepSetVmToTemplate
  <2>2. CASE StepUploadVdi \/ StepFindOrUploadVdi \/ StepCreateInstance
    BY <2>2 DEF StepUploadVdi, StepFindOrUploadVdi, StepCreateInstance
  <2>3. CASE StepAttachVdi \/ StepDetachVdi
    BY <2>3 DEF StepAttachVdi, StepDetachVdi
  <2>4. QED
    BY <1>1, <2>1, <2>2, <2>3, RunStepKinds, QuietStepFrame, LocalStepFrame, BagStepFrame
       DEF PowerStep, pool
<1>2. CASE CleanupStep
  BY <1>2 DEF CleanupStep, CleanupPrepareOutputDir, CleanupUploadVdi,
     CleanupCreateInstance, CleanupAttachVdi, VmCleanup, CleanupNothing, CleanedUp
<1>3. CASE RunnerStep \/ GuestHalts \/ UNCHANGED vars
  BY <1>3 DEF RunnerStep, StartStep, BreakOnCancel, AllStepsRan, BuilderReturns, Cancel,
     MarkCancelled, Stays, GuestHalts, pool, vars
<1>4. QED
  BY <1>1, <1>2, <1>3 DEF Next, Builder, RunnerStep, Done

(* When templates go, the VM is shut down and was provisioned.             *)
LEMMA CleanUpLast ==
    ASSUME Inv, KeysLeft, TemplatesInv, StepCleanUpTemplate, templates' # templates
    PROVE  /\ cfg.force /\ ~cfg.skipTemplate /\ vm = "halted" /\ vm' = vm
           /\ provisioned /\ "halted" \notin keys
<1>1. PICK gone \in SUBSET listed :
        /\ cfg.force \/ gone = {}
        /\ templates' = templates \ gone
        /\ vm' = IF "vm" \in gone THEN "destroyed" ELSE vm
  BY DEF StepCleanUpTemplate
<1>2. gone # {} /\ cfg.force /\ ~cfg.skipTemplate /\ vm' = vm
  BY <1>1 DEF TemplatesInv
<1>3. /\ cfg \in Configs /\ Steps = Pipeline[cfg] /\ Steps \in Seq(Step) /\ ran \in Nat
      /\ ran \in 1 .. Len(Steps) /\ phase = "run" /\ Steps[ran].op = "StepCleanUpTemplate"
      /\ ran \in DOMAIN Steps
  BY StepsTyped DEF Inv, TypeOK, ControlOK, Steps, Current, StepCleanUpTemplate, Executing
<1>4. ran \in Places(Pipeline[cfg], "StepCleanUpTemplate")
  BY <1>3 DEF Places
<1>5. PICK i \in Places(Pipeline[cfg], "StepProvision") : i < ran
  BY <1>3, <1>4, TemplateAssumption DEF CleansUpLast
<1>6. PICK j \in Places(Pipeline[cfg], "StepShutdown") : j < ran
  BY <1>3, <1>4, TemplateAssumption DEF CleansUpLast
<1>7. /\ i \in 1 .. ran /\ Through(i) /\ Steps[i].op = "StepProvision"
      /\ j \in 1 .. ran /\ Through(j) /\ Steps[j].op = "StepShutdown"
  BY <1>3, <1>5, <1>6 DEF Places, Through
<1>8. provisioned
  BY <1>3, <1>7 DEF TemplatesInv
<1>9. vm = "halted" /\ "halted" \notin keys
  BY <1>3, <1>7 DEF TemplatesInv, KeysLeft
<1>10. QED
  BY <1>2, <1>8, <1>9

(* A template of an earlier build is destroyed only under -force, and only *)
(* when the provisioners have succeeded on the new image and it is halted, *)
(* for every pipeline that provisions and shuts down before it cleans up.  *)
THEOREM TemplatesGoLast == Spec => OldTemplatesGoLast
<1>1. Init => KeysLeft /\ TemplatesInv
  BY DEF Init, KeysLeft, TemplatesInv
<1>2. Inv /\ KeysLeft /\ TemplatesInv /\ [Next]_vars =>
        [templates' # templates =>
           /\ cfg.force /\ ~cfg.skipTemplate
           /\ vm = "halted" /\ vm' = vm
           /\ provisioned /\ "halted" \notin keys]_vars
  BY OnlyCleanUp, CleanUpLast
<1>3. QED
  BY <1>1, <1>2, InitInv, NextInv, NextKeys, NextTemplates, PTL
     DEF Spec, OldTemplatesGoLast

-----------------------------------------------------------------------------
(* The image that a build leaves behind.                                   *)

(* The media keys that have been attached and not detached since, of those *)
(* that name the VDI v.                                                    *)
IsAttached(k) ==
    \E i \in 1 .. ran :
        /\ Through(i) /\ Steps[i].op = "StepAttachVdi" /\ Steps[i].arg = k
        /\ \A j \in 1 .. ran :
              Through(j) /\ Steps[j].op = "StepDetachVdi" /\ Steps[j].arg = k => j < i
Holders(v) == {k \in MediaKeys : media[k] = v /\ IsAttached(k)}

(* No VDI of a media has more VBDs than keys that hold it, unless a failed *)
(* detaching has been reported.                                            *)
MediaHeld == \A v \in Uploads \cup Library : v \in reported \/ vbds[v] <= Cardinality(Holders(v))

DisksPlugged == \A d \in ConfiguredDisks : d \in vdis /\ vbds[d] = 1

Whole ==
    /\ vm = "halted" /\ (isTemplate \/ cfg.skipTemplate)
    /\ DisksPlugged
    /\ \A v \in Uploads \cup Library : vbds[v] > 0 => v \in reported

(* No media is a disk; the steps that are through have done their part;    *)
(* and the cleanups of a build that keeps its VM take nothing back.        *)
ImageInv ==
    /\ \A k \in MediaKeys : media[k] \notin Disks
    /\ phase = "run" =>
         /\ \A i \in 1 .. ran : Through(i) =>
              /\ Steps[i].op = "StepSetVmToTemplate" => isTemplate
              /\ Steps[i].op = "StepCreateInstance" => DisksPlugged
         /\ MediaHeld
    /\ phase # "run" => Whole \/ Flagged \/ cfg.keep = "never"

(* A Run puts at most the media key it was made for, and no disk there.    *)
LEMMA RunPutsMedia ==
    ASSUME TypeOK, RunStep, NEW k \in MediaKeys, media'[k] # media[k]
    PROVE  /\ Current.arg = k /\ Current.op # "StepDetachVdi"
           /\ media'[k] \in Uploads \cup Library
<1>0. media \in [MediaKeys -> Vdis \cup {"none", "cleared"}]
  BY DEF TypeOK, BagOK
<1>1. CASE StepUploadVdi \/ StepFindOrUploadVdi
  <2>1. Current.arg \in Uploads /\ Current.op # "StepDetachVdi"
    BY <1>1, StepsTyped DEF StepUploadVdi, StepFindOrUploadVdi, Executing, TypeOK,
       ControlOK, Step, PlainOps, Uploads
  <2>2. \/ media' = media
        \/ \E v \in Uploads \cup Library : media' = [media EXCEPT ![Current.arg] = v]
    <3>1. \/ media' = media \/ media' = [media EXCEPT ![Current.arg] = Current.arg]
          \/ \E v \in IsoNamed : media' = [media EXCEPT ![Current.arg] = v]
      BY <1>1, Zenon DEF StepUploadVdi, StepFindOrUploadVdi, UploadVdi
    <3> QED
      BY <2>1, <3>1 DEF IsoNamed, Uploads, Library
  <2> QED
    BY <1>0, <2>1, <2>2
<1>2. CASE StepFindVdi
  <2>1. Current.op = "StepFindVdi"
        /\ (media' = media \/ media' = [media EXCEPT ![Current.arg] = LibraryVdi(Current.arg)])
    BY <1>2, Zenon DEF StepFindVdi, Executing
  <2> QED
    BY <1>0, <2>1 DEF LibraryVdi, Library
<1>3. CASE ~StepUploadVdi /\ ~StepFindOrUploadVdi /\ ~StepFindVdi
  BY <1>3, RunStepKinds, QuietStepFrame, PowerStepFrame, LocalStepFrame
     DEF BagStep, StepGetVmTemplate, StepCreateInstance, StepAttachVdi, StepDetachVdi, bag
<1> QED
  BY <1>1, <1>2, <1>3

(* No media key ever names a disk.                                         *)
LEMMA MediaNoDisk ==
    ASSUME Inv, \A k \in MediaKeys : media[k] \notin Disks, [Next]_vars
    PROVE  \A k \in MediaKeys : media'[k] \notin Disks
<1>0. TypeOK /\ media \in [MediaKeys -> Vdis \cup {"none", "cleared"}]
  BY DEF Inv, TypeOK, BagOK
<1>1. CASE RunStep
  BY <1>0, <1>1, RunPutsMedia, DisksAssumption
<1>2. CASE CleanupUploadVdi
  <2>1. media' = media \/ media' = [media EXCEPT ![Current.arg] = "cleared"]
    BY <1>2, Zenon DEF CleanupUploadVdi
  <2> QED
    BY <1>0, <2>1, DisksAssumption
<1>3. CASE CleanupStep /\ ~CleanupUploadVdi
  BY <1>0, <1>3, MildCleanup, CreateCleanupEffect
<1>4. CASE RunnerStep \/ GuestHalts \/ UNCHANGED vars
  BY <1>4 DEF RunnerStep, StartStep, BreakOnCancel, AllStepsRan, BuilderReturns, Cancel,
     MarkCancelled, Stays, GuestHalts, bag, vars
<1> QED
  BY <1>1, <1>2, <1>3, <1>4 DEF Next, Builder, RunnerStep, Done

(* What the Runs do to the VBDs.                                           *)
LEMMA RunVbds ==
    ASSUME RunStep, ~StepCreateInstance
    PROVE  /\ vdis \subseteq vdis' /\ reported \subseteq reported'
           /\ isTemplate' = isTemplate \/ StepSetVmToTemplate
           /\ \/ vbds' = vbds
              \/ StepAttachVdi /\ Attached(media[Current.arg]) /\ media[Current.arg] \in vdis
              \/ StepDetachVdi /\ Detached(media[Current.arg]) /\ media[Current.arg] \in vdis
                 /\ vbds[media[Current.arg]] > 0
<1>1. CASE StepUploadVdi \/ StepFindOrUploadVdi
  BY <1>1, Zenon DEF StepUploadVdi, StepFindOrUploadVdi, UploadVdi, machine
<1>2. CASE StepAttachVdi
  BY <1>2, Zenon DEF StepAttachVdi, machine
<1>3. CASE StepDetachVdi
  BY <1>3, Zenon DEF StepDetachVdi, machine
<1>4. CASE PowerStep
  <2>1. isTemplate' = isTemplate \/ StepSetVmToTemplate
    BY <1>4 DEF PowerStep, StepStartVmPaused, StepBootWait, StepShutdown, StepCleanUpTemplate
  <2> QED
    BY <1>4, <2>1, PowerStepFrame DEF storage
<1>5. CASE QuietStep \/ LocalStep \/ BagStep
  BY <1>5, QuietStepFrame, LocalStepFrame, BagStepFrame DEF pool
<1> QED
  BY RunStepKinds, <1>1, <1>2, <1>3, <1>4, <1>5

(* A machine that was made has all its disks plugged, and no media.        *)
LEMMA CreatePlugs ==
    ASSUME TypeOK, StepCreateInstance, GoesOn
    PROVE  /\ DisksPlugged'
           /\ \A v \in Uploads \cup Library : vbds'[v] = 0
           /\ reported' = reported
<1>1. cfg \in Configs /\ Steps = Pipeline[cfg] /\ ran \in DOMAIN Steps
      /\ Current = Pipeline[cfg][ran] /\ Current.op = "StepCreateInstance" /\ cfg' = cfg
  <2>1. RunStep
    BY DEF RunStep
  <2>2. Current.op = "StepCreateInstance" /\ running
    BY DEF StepCreateInstance, Executing
  <2> QED
    BY <2>1, <2>2, RunFrame, StepsTyped DEF TypeOK, ControlOK, Steps, Current
<1>2. cfg.builder = "iso" => Current.arg = "new_disks"
  BY <1>1, ImageAssumption DEF MakesImage, Places
<1>3. /\ vdis' = vdis \cup NewDisks \cup ClonedDisk
      /\ vbds' = [v \in Vdis |-> IF v \in NewDisks \cup ClonedDisk THEN 1 ELSE 0]
  BY EndsGoOn, Zenon DEF StepCreateInstance, Fails
<1>4. reported' = reported
  BY DEF StepCreateInstance
<1>5. ConfiguredDisks' = ConfiguredDisks /\ ConfiguredDisks \subseteq NewDisks
      /\ ConfiguredDisks \subseteq Vdis
  BY <1>1, <1>2 DEF ConfiguredDisks, NewDisks, Vdis
<1>6. \A v \in Uploads \cup Library : v \in Vdis /\ v \notin NewDisks \cup ClonedDisk
  BY DisksAssumption DEF NewDisks, ClonedDisk, Uploads, Library, Vdis
<1>7. \A v \in ConfiguredDisks : v \in vdis' /\ vbds'[v] = 1
  BY <1>3, <1>5
<1>8. \A v \in Uploads \cup Library : vbds'[v] = 0
  BY <1>3, <1>6
<1> QED
  BY <1>4, <1>5, <1>7, <1>8 DEF DisksPlugged

(* The other Runs leave the disks plugged.                                 *)
LEMMA DisksStay ==
    ASSUME TypeOK, \A k \in MediaKeys : media[k] \notin Disks, RunStep, ~StepCreateInstance,
           DisksPlugged
    PROVE  DisksPlugged'
<1>1. cfg' = cfg /\ ConfiguredDisks' = ConfiguredDisks /\ ConfiguredDisks \subseteq Disks
  BY RunFrame DEF ConfiguredDisks
<1>2. vbds \in [Vdis -> Nat] /\ Disks \subseteq Vdis
  BY DEF TypeOK, PoolOK, Vdis
<1>3. StepAttachVdi \/ StepDetachVdi => Current.arg \in MediaKeys
  BY StepsTyped DEF StepAttachVdi, StepDetachVdi, Executing, TypeOK, ControlOK, Step, PlainOps
<1>4. \A d \in Disks : vbds'[d] = vbds[d]
  BY <1>2, <1>3, RunVbds DEF Attached, Detached
<1> QED
  BY <1>1, <1>4, RunVbds DEF DisksPlugged

(* Where the runner is while a Run goes on, and what is through after it.  *)
LEMMA RunPlace ==
    ASSUME TypeOK, RunStep, GoesOn
    PROVE  /\ cfg \in Configs /\ Steps = Pipeline[cfg] /\ Steps' = Steps /\ ran' = ran
           /\ ran \in Nat /\ ran \in DOMAIN Steps /\ 1 .. ran \subseteq DOMAIN Steps
           /\ ran \in 1 .. ran /\ Current = Steps[ran] /\ cfg' = cfg
           /\ \A i \in 1 .. ran : /\ Through(i)'
                                  /\ i = ran \/ (i < ran /\ Through(i))
                                  /\ Through(i) => i < ran
<1>1. /\ cfg \in Configs /\ Steps = Pipeline[cfg] /\ Steps \in Seq(Step)
      /\ running /\ ran \in Nat /\ ran > 0 /\ ran <= Len(Steps) /\ phase = "run"
      /\ UNCHANGED <<cfg, ran>>
  BY RunFrame, StepsTyped DEF TypeOK, ControlOK, Steps
<1>2. running' = FALSE /\ phase' = "run"
  BY RunPuts DEF GoesOn
<1> QED
  BY <1>1, <1>2 DEF Through, Steps, Current

(* A step that ran is one of its pipeline's places.                        *)
LEMMA PlaceOf ==
    ASSUME TypeOK, RunStep, GoesOn, NEW i \in 1 .. ran
    PROVE  i \in Places(Pipeline[cfg], Steps[i].op) /\ i \in DOMAIN Pipeline[cfg]
  BY RunPlace DEF Places

(* A Run that is not a detaching of k leaves k attached ...                *)
LEMMA AttachedStays ==
    ASSUME TypeOK, RunStep, GoesOn, NEW k,
           Current.op # "StepDetachVdi" \/ Current.arg # k, IsAttached(k)
    PROVE  IsAttached(k)'
<1>1. PICK i \in 1 .. ran :
         /\ Through(i) /\ Steps[i].op = "StepAttachVdi" /\ Steps[i].arg = k
         /\ \A j \in 1 .. ran :
               Through(j) /\ Steps[j].op = "StepDetachVdi" /\ Steps[j].arg = k => j < i
  BY DEF IsAttached
<1>2. ASSUME NEW j \in 1 .. ran', Through(j)', Steps'[j].op = "StepDetachVdi", Steps'[j].arg = k
      PROVE  j < i
  BY <1>1, <1>2, RunPlace
<1>3. i \in 1 .. ran' /\ Through(i)' /\ Steps'[i].op = "StepAttachVdi" /\ Steps'[i].arg = k
  BY <1>1, RunPlace
<1> QED
  BY <1>2, <1>3 DEF IsAttached

(* ... and a key that a Run puts or attaches was not attached before.      *)
LEMMA AttachedOnce ==
    ASSUME TypeOK, RunStep, GoesOn, Current.op # "StepDetachVdi"
    PROVE  ~IsAttached(Current.arg)
<1>1. SUFFICES ASSUME NEW i \in 1 .. ran, Through(i), Steps[i].op = "StepAttachVdi",
                      Steps[i].arg = Current.arg
               PROVE  FALSE
  BY DEF IsAttached
<1>2. i < ran /\ ran \in Nat /\ i \in Nat
  BY <1>1, RunPlace
<1>3. i \in Places(Pipeline[cfg], "StepAttachVdi") /\ ran \in DOMAIN Pipeline[cfg] /\ cfg \in Configs
      /\ Pipeline[cfg][ran].arg = Pipeline[cfg][i].arg
      /\ Pipeline[cfg][ran].op # "StepDetachVdi"
  BY <1>1, PlaceOf, RunPlace
<1>4. ran <= i
  BY <1>3, MediaAssumption DEF DetachesMedia
<1> QED
  BY <1>2, <1>4

(* The step that attaches k leaves it attached.                            *)
LEMMA NewlyAttached ==
    ASSUME TypeOK, RunStep, GoesOn, Current.op = "StepAttachVdi", NEW k, k = Current.arg
    PROVE  IsAttached(k)'
<1>1. PICK i \in 1 .. ran : i = ran
  BY RunPlace
<1>2. ASSUME NEW j \in 1 .. ran', Steps'[j].op = "StepDetachVdi" PROVE j < i
  BY <1>1, <1>2, RunPlace
<1>3. i \in 1 .. ran' /\ Through(i)' /\ Steps'[i].op = "StepAttachVdi" /\ Steps'[i].arg = k
  BY <1>1, RunPlace
<1> QED
  BY <1>2, <1>3 DEF IsAttached

(* The five keys can be counted.                                           *)
LEMMA HoldersFinite ==
    ASSUME NEW S \in SUBSET MediaKeys
    PROVE  IsFiniteSet(S) /\ Cardinality(S) \in Nat
<1>1. /\ IsFiniteSet({"cd"}) /\ IsFiniteSet({"floppy"}) /\ IsFiniteSet({"iso"})
      /\ IsFiniteSet({"isoname"}) /\ IsFiniteSet({"tools"})
  BY FS_Singleton
<1>2. IsFiniteSet(({"cd"} \cup {"floppy"}) \cup (({"iso"} \cup {"isoname"}) \cup {"tools"}))
  BY <1>1, FS_Union
<1>3. IsFiniteSet(MediaKeys)
  <2>1. MediaKeys = ({"cd"} \cup {"floppy"}) \cup (({"iso"} \cup {"isoname"}) \cup {"tools"})
    BY DEF MediaKeys
  <2> QED
    BY <1>2, <2>1
<1> QED
  BY <1>3, FS_Subset, FS_CardinalityType

(* More keys hold no fewer VBDs.                                           *)
LEMMA HeldMore ==
    ASSUME NEW S \in SUBSET MediaKeys, NEW T \in SUBSET MediaKeys, NEW k \in MediaKeys
    PROVE  /\ S \subseteq T => Cardinality(S) <= Cardinality(T)
           /\ S \cup {k} \subseteq T /\ k \notin S => Cardinality(S) + 1 <= Cardinality(T)
           /\ S \ {k} \subseteq T => Cardinality(S) <= Cardinality(T) + 1
<1>1. /\ IsFiniteSet(S) /\ Cardinality(S) \in Nat /\ IsFiniteSet(T) /\ Cardinality(T) \in Nat
  BY HoldersFinite
<1>2. S \subseteq T => Cardinality(S) <= Cardinality(T)
  BY <1>1, FS_Subset
<1>3. ASSUME S \cup {k} \subseteq T, k \notin S
      PROVE  Cardinality(S) + 1 <= Cardinality(T)
  <2>1. Cardinality(S \cup {k}) = Cardinality(S) + 1
    BY <1>1, <1>3, FS_AddElement
  <2>2. Cardinality(S \cup {k}) <= Cardinality(T)
    BY <1>1, <1>3, FS_Subset
  <2> QED
    BY <2>1, <2>2
<1>4. ASSUME S \ {k} \subseteq T
      PROVE  Cardinality(S) <= Cardinality(T) + 1
  <2>1. Cardinality(S \ {k}) <= Cardinality(T)
    BY <1>1, <1>4, FS_Subset
  <2>2. Cardinality(S \ {k}) = IF k \in S THEN Cardinality(S) - 1 ELSE Cardinality(S)
    BY <1>1, FS_RemoveElement
  <2> QED
    BY <1>1, <2>1, <2>2
<1> QED
  BY <1>2, <1>3, <1>4

(* The VBDs of the media stay with the keys that hold them.                *)
LEMMA RunHeld ==
    ASSUME TypeOK, MediaHeld, RunStep, GoesOn
    PROVE  MediaHeld'
<1>0. /\ vbds \in [Vdis -> Nat] /\ Uploads \cup Library \subseteq Vdis
      /\ media \in [MediaKeys -> Vdis \cup {"none", "cleared"}]
  BY DEF TypeOK, BagOK, PoolOK, Vdis
<1>1. CASE StepCreateInstance
  <2>1. \A v \in Uploads \cup Library : vbds'[v] = 0 /\ Holders(v)' \in SUBSET MediaKeys
    BY <1>1, CreatePlugs DEF Holders
  <2> QED
    BY <2>1, HoldersFinite DEF MediaHeld
<1>2. CASE ~StepCreateInstance
  <2>1. SUFFICES ASSUME NEW v \in Uploads \cup Library, v \notin reported, v \notin reported'
                 PROVE  vbds'[v] <= Cardinality(Holders(v)')
    BY <1>2, RunVbds DEF MediaHeld
  <2>2. /\ vbds[v] <= Cardinality(Holders(v)) /\ vbds[v] \in Nat
        /\ Holders(v) \in SUBSET MediaKeys /\ Holders(v)' \in SUBSET MediaKeys
    BY <1>0, <2>1 DEF MediaHeld, Holders
  <2>3. Cardinality(Holders(v)) \in Nat /\ Cardinality(Holders(v)') \in Nat
    BY <2>2, HoldersFinite
  <2>4. ASSUME Current.op # "StepDetachVdi" PROVE Holders(v) \subseteq Holders(v)'
    <3>1. \A k \in MediaKeys : IsAttached(k) => IsAttached(k)'
      BY <2>4, AttachedStays
    <3>2. \A k \in MediaKeys : IsAttached(k) => media'[k] = media[k]
      BY <2>4, AttachedOnce, RunPutsMedia
    <3> QED
      BY <3>1, <3>2 DEF Holders
  <2>5. CASE vbds' = vbds /\ Current.op # "StepDetachVdi"
    BY <2>2, <2>3, <2>4, <2>5, HeldMore
  <2>6. CASE Current.op = "StepAttachVdi"
    <3>1. Current.arg \in MediaKeys
      BY <2>6, RunPlace, StepsTyped DEF TypeOK, ControlOK, Step, PlainOps
    <3>2. Holders(v) \subseteq Holders(v)' /\ Current.arg \notin Holders(v)
      BY <2>4, <2>6, AttachedOnce DEF Holders
    <3>3. ASSUME media[Current.arg] = v PROVE Current.arg \in Holders(v)'
      <4>1. PICK k \in MediaKeys : k = Current.arg
        BY <3>1
      <4>2. media'[k] = media[k]
        BY <2>6, RunStepOp, Zenon DEF StepAttachVdi
      <4>3. IsAttached(k)'
        BY <2>6, <4>1, NewlyAttached
      <4>4. k \in Holders(v)'
        BY <3>3, <4>1, <4>2, <4>3 DEF Holders
      <4> QED
        BY <4>1, <4>4
    <3>4. vbds' = vbds \/ vbds' = [vbds EXCEPT ![media[Current.arg]] = @ + 1]
      BY <1>2, <2>6, RunVbds DEF Attached, StepDetachVdi, Executing
    <3>5. vbds'[v] = vbds[v] \/ (media[Current.arg] = v /\ vbds'[v] = vbds[v] + 1)
      BY <1>0, <3>4
    <3>6. CASE vbds'[v] = vbds[v]
      BY <2>2, <2>3, <3>1, <3>2, <3>6, HeldMore
    <3>7. CASE media[Current.arg] = v /\ vbds'[v] = vbds[v] + 1
      <4>1. Cardinality(Holders(v)) + 1 <= Cardinality(Holders(v)')
        BY <2>2, <3>1, <3>2, <3>3, <3>7, HeldMore
      <4> QED
        BY <2>2, <2>3, <3>7, <4>1
    <3> QED
      BY <3>5, <3>6, <3>7
  <2>7. CASE Current.op = "StepDetachVdi"
    <3>1. Current.arg \in MediaKeys /\ StepDetachVdi
      BY <2>7, RunPlace, RunStepOp, StepsTyped DEF TypeOK, ControlOK, Step, PlainOps
    <3>2. media' = media
      BY <3>1, Zenon DEF StepDetachVdi, bag
    <3>3. Holders(v) \ {Current.arg} \subseteq Holders(v)'
      BY <3>2, AttachedStays DEF Holders
    <3>4. \/ vbds' = [vbds EXCEPT ![media[Current.arg]] = @ - 1]
             /\ media[Current.arg] \in vdis /\ vbds[media[Current.arg]] > 0
          \/ vbds' = vbds /\ (media[Current.arg] = "none" \/ media[Current.arg] \in reported')
      BY <3>1, EndsGoOn, Zenon DEF StepDetachVdi, Fails, Detached
    <3>5. CASE media[Current.arg] # v
      <4>1. Current.arg \notin Holders(v) /\ vbds'[v] = vbds[v]
        BY <1>0, <3>4, <3>5 DEF Holders
      <4>2. Holders(v) \subseteq Holders(v)'
        BY <3>3, <4>1
      <4> QED
        BY <2>2, <2>3, <3>1, <4>1, <4>2, HeldMore
    <3>6. CASE media[Current.arg] = v
      <4>1. vbds'[v] = vbds[v] - 1 /\ vbds[v] > 0
        BY <1>0, <2>1, <3>4, <3>6 DEF Uploads, Library
      <4>2. Cardinality(Holders(v)) <= Cardinality(Holders(v)') + 1
        BY <2>2, <3>1, <3>3, HeldMore
      <4> QED
        BY <2>2, <2>3, <4>1, <4>2
    <3> QED
      BY <3>5, <3>6
  <2> QED
    BY <1>2, <2>5, <2>6, <2>7, RunVbds DEF StepDetachVdi, StepAttachVdi, Executing
<1> QED
  BY <1>1, <1>2

(* What a Run adds to the image stays with it.                             *)
LEMMA RunImage ==
    ASSUME Inv, ImageInv, RunStep, GoesOn
    PROVE  /\ \A i \in 1 .. ran' : Through(i)' =>
                /\ Steps'[i].op = "StepSetVmToTemplate" => isTemplate'
                /\ Steps'[i].op = "StepCreateInstance" => DisksPlugged'
           /\ MediaHeld'
<1>0. TypeOK /\ phase = "run" /\ MediaHeld /\ \A k \in MediaKeys : media[k] \notin Disks
  BY RunFrame DEF Inv, ImageInv
<1>1. ASSUME NEW i \in 1 .. ran, Steps[i].op = "StepCreateInstance"
      PROVE  DisksPlugged'
  <2>1. CASE StepCreateInstance
    BY <1>0, <2>1, CreatePlugs
  <2>2. CASE ~StepCreateInstance
    <3>1. i # ran
      BY <1>0, <1>1, <2>2, RunPlace, RunStepOp
    <3>2. DisksPlugged
      BY <1>0, <1>1, <3>1, RunPlace DEF ImageInv
    <3> QED
      BY <1>0, <2>2, <3>2, DisksStay
  <2> QED
    BY <2>1, <2>2
<1>2. ASSUME NEW i \in 1 .. ran, Steps[i].op = "StepSetVmToTemplate"
      PROVE  isTemplate'
  <2>1. CASE i = ran
    <3>1. StepSetVmToTemplate
      BY <1>0, <1>2, <2>1, RunPlace, RunStepOp
    <3> QED
      BY <3>1, EndsGoOn DEF StepSetVmToTemplate, Fails
  <2>2. CASE i # ran
    <3>1. isTemplate /\ i < ran /\ i \in Nat /\ ran \in Nat
      BY <1>0, <1>2, <2>2, RunPlace DEF ImageInv
    <3>2. CASE StepCreateInstance
      <4>1. Steps[ran].op = "StepCreateInstance" /\ ran \in 1 .. ran
        BY <1>0, <3>2, RunPlace DEF StepCreateInstance, Executing
      <4>2. ran \in Places(Pipeline[cfg], "StepCreateInstance") /\ i \in Places(Pipeline[cfg], "StepSetVmToTemplate")
        BY <1>0, <1>2, <4>1, PlaceOf
      <4>3. ran < i
        BY <1>0, <4>2, RunPlace, ImageAssumption DEF MakesImage
      <4> QED
        BY <3>1, <4>3
    <3>3. CASE StepSetVmToTemplate
      BY <3>3, EndsGoOn DEF StepSetVmToTemplate, Fails
    <3> QED
      BY <3>1, <3>2, <3>3, RunVbds
  <2> QED
    BY <2>1, <2>2
<1> QED
  BY <1>0, <1>1, <1>2, RunPlace, RunHeld

(* When all steps are through the image is whole.                          *)
LEMMA WholeAtEnd ==
    ASSUME TypeOK, TemplatesInv, ImageInv, AllStepsRan
    PROVE  Whole
<1>1. cfg \in Configs /\ Steps = Pipeline[cfg] /\ Steps \in Seq(Step) /\ ran = Len(Steps)
      /\ phase = "run" /\ ~running
  BY StepsTyped DEF TypeOK, ControlOK, Steps, AllStepsRan
<1>2. \A op : \A i \in Places(Pipeline[cfg], op) : i \in 1 .. ran /\ Through(i) /\ Steps[i].op = op
  BY <1>1 DEF Places, Through
<1>3. vm = "halted"
  BY <1>1, <1>2, ImageAssumption DEF MakesImage, TemplatesInv
<1>4. isTemplate \/ cfg.skipTemplate
  BY <1>1, <1>2, ImageAssumption DEF MakesImage, ImageInv
<1>5. DisksPlugged
  <2>1. CASE cfg.builder = "iso"
    BY <1>1, <1>2, <2>1, ImageAssumption DEF MakesImage, ImageInv
  <2>2. CASE cfg.builder # "iso"
    BY <2>2 DEF DisksPlugged, ConfiguredDisks
  <2> QED
    BY <2>1, <2>2
<1>6. \A k \in MediaKeys : ~IsAttached(k)
  <2>1. SUFFICES ASSUME NEW k \in MediaKeys, NEW i \in 1 .. ran,
                        Steps[i].op = "StepAttachVdi", Steps[i].arg = k,
                        \A j \in 1 .. ran :
                           Through(j) /\ Steps[j].op = "StepDetachVdi" /\ Steps[j].arg = k
                             => j < i
                 PROVE  FALSE
    BY DEF IsAttached
  <2>2. i \in Places(Pipeline[cfg], "StepAttachVdi")
    BY <1>1, <2>1 DEF Places
  <2>3. PICK j \in Places(Pipeline[cfg], "StepDetachVdi") : i < j /\ Pipeline[cfg][j].arg = k
    BY <1>1, <2>1, <2>2, MediaAssumption DEF DetachesMedia
  <2>4. j \in 1 .. ran /\ j < i
    BY <1>1, <1>2, <2>1, <2>3
  <2> QED
    BY <2>3, <2>4
<1>7. ASSUME NEW v \in Uploads \cup Library, vbds[v] > 0 PROVE v \in reported
  <2>1. Holders(v) = {} /\ vbds[v] \in Nat
    BY <1>6 DEF Holders, TypeOK, PoolOK, Vdis
  <2>2. Cardinality(Holders(v)) = 0
    BY <2>1, FS_EmptySet
  <2>3. v \in reported \/ vbds[v] <= 0
    <3>1. MediaHeld
      BY <1>1 DEF ImageInv
    <3> QED
      BY <2>2, <3>1 DEF MediaHeld
  <2>4. ~(vbds[v] <= 0)
    BY <1>7, <2>1
  <2> QED
    BY <2>3, <2>4
<1> QED
  BY <1>3, <1>4, <1>5, <1>7 DEF Whole

(* The cleanups leave the image of a build that keeps its VM alone.        *)
LEMMA CleanupImage ==
    ASSUME Inv, CleanupStep, Whole, ~Flagged, cfg.keep # "never"
    PROVE  Whole'
<1>1. TypeOK /\ cfg' = cfg /\ ShouldKeepVM
  <2>1. TypeOK /\ cfg \in Configs
    BY DEF Inv, TypeOK, ControlOK
  <2>2. cfg.keep \in {"always", "never", "on_success"}
    BY <2>1, ConfigAssumption DEF Config
  <2> QED
    BY <2>1, <2>2, CleanupFrame DEF Flagged, ShouldKeepVM
<1>2. UNCHANGED <<vm, isTemplate, vdis, vbds>>
  BY <1>1 DEF CleanupStep, CleanupPrepareOutputDir, CleanupUploadVdi,
     CleanupCreateInstance, CleanupAttachVdi, VmCleanup, CleanupNothing, machine, storage
<1>3. reported \subseteq reported'
  BY <1>1, UploadCleanupEffect, CreateCleanupEffect, MildCleanup
<1> QED
  BY <1>1, <1>2, <1>3 DEF Whole, DisksPlugged, ConfiguredDisks

LEMMA NextImage ==
    ASSUME Inv, TemplatesInv, ImageInv, [Next]_vars
    PROVE  ImageInv'
<1>0. TypeOK /\ ran \in Nat /\ phase \in {"run", "cleanup", "returned"}
      /\ \A k \in MediaKeys : media'[k] \notin Disks
  BY MediaNoDisk DEF Inv, TypeOK, ControlOK, ImageInv
<1>1. CASE RunStep
  <2>1. CASE GoesOn
    BY <1>0, <1>1, <2>1, RunImage DEF ImageInv, GoesOn
  <2>2. CASE ~GoesOn
    BY <1>0, <1>1, <2>2, RunPuts DEF ImageInv, GoesOn
  <2> QED
    BY <2>1, <2>2
<1>2. CASE CleanupStep
  <2>1. phase = "cleanup" /\ phase' = "cleanup" /\ UNCHANGED <<cfg, keys>>
    BY <1>0, <1>2, CleanupFrame
  <2>2. Whole \/ Flagged \/ cfg.keep = "never"
    BY <2>1 DEF ImageInv
  <2>3. Flagged => Flagged'
    BY <2>1 DEF Flagged
  <2> QED
    BY <1>0, <1>2, <2>1, <2>2, <2>3, CleanupImage DEF ImageInv
<1>3. CASE AllStepsRan
  <2>1. Whole /\ phase' = "cleanup"
    BY <1>0, <1>3, WholeAtEnd DEF AllStepsRan
  <2>2. Whole'
    BY <1>3, <2>1 DEF AllStepsRan, Stays, pool, Whole, DisksPlugged, ConfiguredDisks
  <2> QED
    BY <1>0, <2>1, <2>2 DEF ImageInv
<1>4. CASE BreakOnCancel
  BY <1>0, <1>4 DEF BreakOnCancel, ImageInv, Flagged
<1>5. CASE StartStep
  <2>1. UNCHANGED <<cfg, phase, pool, media, reported>> /\ Steps' = Steps /\ phase = "run"
    BY <1>5 DEF StartStep, Stays, bag, Steps
  <2>2. \A i \in 1 .. ran' : Through(i)' <=> i \in 1 .. ran /\ Through(i)
    BY <1>0, <1>5 DEF StartStep, Through
  <2>3. 1 .. ran \subseteq 1 .. ran'
    BY <1>0, <1>5 DEF StartStep
  <2>4. \A k : IsAttached(k)' <=> IsAttached(k)
    BY <2>1, <2>2, <2>3 DEF IsAttached
  <2>5. \A v : Holders(v)' = Holders(v)
    BY <2>1, <2>4 DEF Holders
  <2>6. MediaHeld' /\ (DisksPlugged' <=> DisksPlugged)
    BY <2>1, <2>5 DEF ImageInv, MediaHeld, DisksPlugged, ConfiguredDisks, pool
  <2> QED
    BY <1>0, <2>1, <2>2, <2>6 DEF ImageInv, pool
<1>6. CASE BuilderReturns
  <2>1. UNCHANGED <<cfg, keys, pool, reported>> /\ phase = "cleanup" /\ phase' = "returned"
    BY <1>6 DEF BuilderReturns, Stays
  <2> QED
    BY <1>0, <2>1 DEF ImageInv, Whole, Flagged, DisksPlugged, ConfiguredDisks, pool
<1>7. CASE Cancel \/ MarkCancelled \/ GuestHalts \/ UNCHANGED vars
  <2>1. /\ UNCHANGED <<cfg, phase, ran, running, media, isTemplate, storage, reported>>
        /\ Steps' = Steps /\ keys \subseteq keys'
        /\ vm' = vm \/ vm' = "halted"
    BY <1>7 DEF Cancel, MarkCancelled, GuestHalts, Stays, pool, bag, storage, control, vars,
       Steps
  <2>2. \A k : IsAttached(k)' <=> IsAttached(k)
    BY <2>1 DEF IsAttached, Through
  <2>3. \A v : Holders(v)' = Holders(v)
    BY <2>1, <2>2 DEF Holders
  <2>4. (MediaHeld' <=> MediaHeld) /\ (DisksPlugged' <=> DisksPlugged)
        /\ (Whole => Whole') /\ (Flagged => Flagged')
    BY <2>1, <2>3 DEF MediaHeld, DisksPlugged, ConfiguredDisks, storage, Whole, Flagged
  <2>5. \A i : Through(i)' <=> Through(i)
    BY <2>1 DEF Through
  <2> QED
    BY <1>0, <2>1, <2>4, <2>5 DEF ImageInv
<1> QED
  BY <1>1, <1>2, <1>3, <1>4, <1>5, <1>6, <1>7 DEF Next, Builder, Done

(* An artifact that leaves a VM behind leaves it whole and quiet: powered  *)
(* off, with its disks plugged, a template if one was asked for, and with  *)
(* no media in its drives but one whose detaching was reported to fail.    *)
THEOREM KeptImages == Spec => []KeptImageIsWhole
<1>1. Init => TemplatesInv /\ ImageInv /\ ExportKept
  <2>1. SUFFICES ASSUME Init PROVE TemplatesInv /\ ImageInv /\ ExportKept
    OBVIOUS
  <2>2. \A k \in MediaKeys : media[k] \notin Disks
    BY <2>1, DisksAssumption DEF Init
  <2>3. MediaHeld
    <3>1. \A v \in Uploads \cup Library : vbds[v] = 0 /\ Holders(v) \in SUBSET MediaKeys
      BY <2>1 DEF Init, Vdis, Holders
    <3> QED
      BY <3>1, HoldersFinite DEF MediaHeld
  <2> QED
    BY <2>1, <2>2, <2>3 DEF Init, TemplatesInv, ImageInv, ExportKept
<1>2. ImageInv /\ ExportKept => KeptImageIsWhole
  BY DEF ImageInv, ExportKept, KeptImageIsWhole, Whole, DisksPlugged
<1> QED
  BY <1>1, <1>2, InitInv, NextInv, NextTemplates, NextImage, NextExport, PTL DEF Spec

-----------------------------------------------------------------------------
(* How a build ends: what the safety of a build has to say of Terminates   *)
(* and CancelStopsBuild.                                                   *)

(* How many steps of the builder's goroutine are left at most: two for     *)
(* each step to be run, one for each to be unwound, and the two ends.      *)
StepsLeft ==
    IF phase = "run"
    THEN 3 * Len(Steps) - 2 * ran + (IF running THEN 1 ELSE 0) + 2
    ELSE IF phase = "cleanup" THEN ran + 1 ELSE 0

(* They are a number. *)
LEMMA StepsLeftTyped == Inv => StepsLeft \in Nat
<1>1. ASSUME Inv
      PROVE  /\ phase \in {"run", "cleanup", "returned"}
             /\ ran \in 0 .. Len(Steps) /\ Len(Steps) \in Nat
  BY <1>1, StepsTyped DEF Inv, TypeOK, ControlOK
<1>2. QED
  BY <1>1 DEF StepsLeft

(* Each step of the builder takes one of them away, and nobody adds one.   *)
LEMMA NextStepsLeft ==
    ASSUME Inv, Inv', [Next]_vars
    PROVE  (Builder => StepsLeft' < StepsLeft) /\ StepsLeft' <= StepsLeft
<1>0. /\ phase \in {"run", "cleanup", "returned"} /\ ran \in 0 .. Len(Steps)
      /\ Len(Steps) \in Nat
  BY StepsTyped DEF Inv, TypeOK, ControlOK
<1>1. StepsLeft \in Nat /\ (StepsLeft \in Nat)'
  BY StepsLeftTyped, PTL
<1>2. ASSUME RunStep PROVE StepsLeft' < StepsLeft
  <2>1. /\ phase = "run" /\ running /\ phase' \in {"run", "cleanup"}
        /\ UNCHANGED <<cfg, ran>> /\ running' = FALSE
    BY <1>2, RunFrame, RunPuts
  <2>2. Len(Steps)' = Len(Steps)
    BY <2>1 DEF Steps
  <2>3. QED
    BY <1>0, <2>1, <2>2 DEF StepsLeft
<1>3. ASSUME CleanupStep PROVE StepsLeft' < StepsLeft
  BY <1>0, <1>3, CleanupFrame DEF Inv, StepsLeft
<1>4. ASSUME StartStep \/ BreakOnCancel \/ AllStepsRan \/ BuilderReturns
      PROVE  StepsLeft' < StepsLeft
  <2>1. Len(Steps)' = Len(Steps)
    BY <1>4 DEF StartStep, BreakOnCancel, AllStepsRan, BuilderReturns, Stays, Steps
  <2>2. QED
    BY <1>0, <1>4, <2>1 DEF StartStep, BreakOnCancel, AllStepsRan, BuilderReturns, StepsLeft
<1>5. ASSUME Cancel \/ MarkCancelled \/ GuestHalts \/ UNCHANGED vars
      PROVE  UNCHANGED <<cfg, phase, ran, running>>
  BY <1>5 DEF Cancel, MarkCancelled, GuestHalts, Stays, control, vars
<1>6. (Cancel \/ MarkCancelled \/ GuestHalts \/ UNCHANGED vars) => StepsLeft' = StepsLeft
  BY <1>5 DEF StepsLeft, Steps
<1>7. Builder => StepsLeft' < StepsLeft
  BY <1>2, <1>3, <1>4 DEF Builder
<1>8. QED
  BY <1>1, <1>6, <1>7 DEF Next, Done

(* A build ends after finitely many steps of the builder's goroutine: one  *)
(* step less is left after each, and cancellations, the flag's writer and  *)
(* the guest make it no longer.  So Terminates needs no more than that the *)
(* goroutine goes on.                                                      *)
THEOREM EndIsInSight ==
    Spec => [][/\ StepsLeft' \in Nat
               /\ Builder => StepsLeft' < StepsLeft
               /\ StepsLeft' <= StepsLeft]_vars
<1>1. Init => Inv
  BY InitInv
<1>2. Inv /\ [Next]_vars => Inv'
  BY NextInv
<1>3. Inv /\ Inv' /\ [Next]_vars =>
        [/\ StepsLeft' \in Nat
         /\ Builder => StepsLeft' < StepsLeft
         /\ StepsLeft' <= StepsLeft]_vars
  <2>1. Inv' => (StepsLeft \in Nat)'
    BY StepsLeftTyped, PTL
  <2>2. QED
    BY <2>1, NextStepsLeft
<1>4. QED
  BY <1>1, <1>2, <1>3, PTL DEF Spec

(* No Run cancels its own build. *)
LEMMA RunContext ==
    ASSUME RunStep
    PROVE  ctxDone' = ctxDone
<1>1. \A ks, next : Ends(ks, next) => ctxDone' = ctxDone
  BY DEF Ends
<1>2. \A ks : Proceeds(ks) \/ Halts(ks) => ctxDone' = ctxDone
  BY <1>1 DEF Proceeds, Halts
<1>3. CASE QuietStep
  BY <1>2, <1>3 DEF QuietStep, StepDownload, StepCreateCD, StepCreateFloppy, MakeImage,
     StepHTTPServer, StepSetVmHostSshAddress, StepTypeBootCommand, StepWaitForIP,
     StepForwardPortOverSSH, StepConnect, StepProvision, TalkToGuest,
     StepImportInstance, Succeeds, Fails, Interrupted
<1>4. CASE PowerStep \/ LocalStep \/ BagStep
  BY <1>2, <1>4 DEF PowerStep, StepStartVmPaused, StepBootWait, StepShutdown,
     StepSetVmToTemplate, StepCleanUpTemplate, LocalStep, StepPrepareOutputDir,
     StepExport, BagStep, StepFindVdi, StepGetVmTemplate, Succeeds, Fails
<1>5. CASE StepUploadVdi \/ StepFindOrUploadVdi
  BY <1>2, <1>5 DEF StepUploadVdi, StepFindOrUploadVdi, UploadVdi, Succeeds, Fails,
     Interrupted
<1>6. CASE StepCreateInstance \/ StepAttachVdi \/ StepDetachVdi
  BY <1>2, <1>6 DEF StepCreateInstance, StepAttachVdi, StepDetachVdi, Succeeds, Fails
<1>7. QED
  BY RunStepKinds, <1>3, <1>4, <1>5, <1>6

(* The context was cancelled before the last step was started.             *)
TurnsBack == phase = "run" /\ ctxDone /\ ran < Len(Steps)

(* Such a build stays in the loop, or has left it with a flag in the bag;  *)
(* and with a flag in the bag Builder.Run returns no artifact.             *)
LeftWithFlag ==
    /\ phase # "run" /\ Flagged
    /\ phase = "returned" => result # "artifact"

(* It is one or the other until it has returned.                           *)
LEMMA NextTurnsBack ==
    ASSUME Inv, TurnsBack \/ LeftWithFlag, [Next]_vars
    PROVE  TurnsBack' \/ LeftWithFlag'
<1>1. CASE TurnsBack /\ RunStep
  <2>1. /\ phase' \in {"run", "cleanup"} /\ UNCHANGED <<cfg, ran>>
        /\ GoesOn \/ Flagged'
    BY <1>1, RunFrame, RunPuts
  <2>2. ctxDone' = ctxDone
    BY <1>1, RunContext
  <2>3. QED
    BY <1>1, <2>1, <2>2 DEF TurnsBack, LeftWithFlag, GoesOn, Steps
<1>2. CASE TurnsBack /\ ~RunStep
  <2>0. phase = "run" /\ ctxDone /\ ran # Len(Steps)
    BY <1>2, StepsTyped DEF TurnsBack, Inv, TypeOK, ControlOK
  <2>1. /\ ~CleanupStep
        /\ ~StartStep /\ ~AllStepsRan /\ ~BuilderReturns /\ ~Cancel
    <3>1. ~CleanupStep
      BY <2>0, CleanupFrame DEF Inv
    <3>2. QED
      BY <2>0, <3>1 DEF StartStep, AllStepsRan, BuilderReturns, Cancel
  <2>2. ASSUME BreakOnCancel PROVE LeftWithFlag'
    BY <2>2 DEF BreakOnCancel, LeftWithFlag, Flagged
  <2>3. ASSUME MarkCancelled \/ GuestHalts \/ UNCHANGED vars PROVE TurnsBack'
    <3>1. UNCHANGED <<cfg, phase, ran, ctxDone>>
      BY <2>3 DEF MarkCancelled, GuestHalts, Stays, control, vars
    <3>2. QED
      BY <1>2, <3>1 DEF TurnsBack, Steps
  <2>4. QED
    BY <1>2, <2>1, <2>2, <2>3 DEF Next, Builder, Done
<1>3. CASE LeftWithFlag /\ CleanupStep
  BY <1>3, CleanupFrame DEF Inv, LeftWithFlag, Flagged
<1>4. CASE LeftWithFlag /\ BuilderReturns
  BY <1>4 DEF LeftWithFlag, Flagged, BuilderReturns, Outcome
<1>5. CASE LeftWithFlag /\ ~CleanupStep /\ ~BuilderReturns
  BY <1>5, RunFrame DEF LeftWithFlag, Flagged, Next, Builder, Done, StartStep,
     BreakOnCancel, AllStepsRan, Cancel, MarkCancelled, GuestHalts, control, vars
<1>6. QED
  BY <1>1, <1>2, <1>3, <1>4, <1>5

(* A build that has returned stays so. *)
LEMMA ReturnedForGood == Inv /\ phase = "returned" /\ [Next]_vars => (phase = "returned")'
  BY RunFrame, CleanupFrame DEF Inv, Next, Builder, Done, StartStep, BreakOnCancel,
     AllStepsRan, BuilderReturns, Cancel, MarkCancelled, GuestHalts, control, vars

(* A build that ends and is cancelled before its last step ends without an *)
(* artifact, whatever the step that was running makes of it and whenever   *)
(* the flag is written: all that CancelStopsBuild owes to fairness is that *)
(* the build ends.                                                         *)
THEOREM CancelledHasNoArtifact == Spec /\ Terminates => CancelStopsBuild
<1>1. Init => Inv
  BY InitInv
<1>2. Inv /\ [Next]_vars => Inv'
  BY NextInv
<1>3. Inv /\ (TurnsBack \/ LeftWithFlag) /\ [Next]_vars => (TurnsBack \/ LeftWithFlag)'
  BY NextTurnsBack
<1>4. Inv /\ phase = "returned" /\ [Next]_vars => (phase = "returned")'
  BY ReturnedForGood
<1>5. phase = "run" /\ ctxDone /\ ran < Len(Steps) => TurnsBack
  BY DEF TurnsBack
<1>6. (TurnsBack \/ LeftWithFlag) /\ phase = "returned"
         => phase = "returned" /\ result # "artifact"
  BY DEF TurnsBack, LeftWithFlag
<1>7. QED
  BY <1>1, <1>2, <1>3, <1>4, <1>5, <1>6, PTL DEF Spec, Terminates, CancelStopsBuild

=============================================================================
