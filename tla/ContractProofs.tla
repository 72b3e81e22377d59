--------------------------- MODULE ContractProofs --------------------------
(***************************************************************************)
(* BuildPipeline implements BuildContract, for every pipeline, any disks   *)
(* and any number of faults.  A Run is the contract's Work or Turn, a      *)
(* Cleanup its Unwind, the return of Builder.Run its Return; whatever the  *)
(* runner, the packer core and the guest do else is a stutter.             *)
(***************************************************************************)
EXTENDS RollbackProofs

(* The account of the contract holds nothing but what a build can make.    *)
LEMMA OwnedTyped == Owned \in SUBSET (Uploads \cup Disks \cup {"vm"})
  BY DEF Owned

(* What is owned is a matter of the VM's existence, of the VDIs and of the *)
(* messages.                                                               *)
LEMMA OwnedKept ==
    ASSUME UNCHANGED <<vdis, reported>>, Exists' <=> Exists
    PROVE  Owned' = Owned
  BY DEF Owned

(* Fewer VDIs, no other VM and more messages make fewer objects owned.     *)
LEMMA OwnedShrinks ==
    ASSUME vdis' \subseteq vdis, reported \subseteq reported', Exists' => Exists
    PROVE  Owned' \in SUBSET Owned
  BY DEF Owned

(* A build starts as the contract does. *)
LEMMA InitRefines == Init => Contract!Init
<1>1. SUFFICES ASSUME Init PROVE Contract!Init
  OBVIOUS
<1>2. cfg.keep \in {"always", "never", "on_success"}
  BY <1>1, ConfigAssumption DEF Init, Config
<1>3. Owned = {}
  <2>1. cfg.library \subseteq Library
    BY <1>1, ConfigAssumption DEF Init, Config
  <2>2. QED
    BY <1>1, <2>1, DisksAssumption DEF Init, Owned, Exists, Uploads, Library
<1>4. QED
  BY <1>1, <1>2, <1>3 DEF Init, Contract!Init, Contract!Policies, Stage, Failed

(* No Run sets what Builder.Run returns. *)
LEMMA RunResult ==
    ASSUME RunStep
    PROVE  result' = result
<1>1. \A ks, next : Ends(ks, next) => result' = result
  BY DEF Ends
<1>2. \A ks : Proceeds(ks) \/ Halts(ks) => result' = result
  BY <1>1 DEF Proceeds, Halts
<1>3. CASE QuietStep
  BY <1>2, <1>3 DEF QuietStep, StepDownload, StepCreateCD, StepCreateFloppy, MakeImage,
     StepHTTPServer, StepSetVmHostSshAddress, StepTypeBootCommand, StepWaitForIP,
     StepForwardPortOverSSH, StepConnect, StepProvision, TalkToGuest,
     StepImportInstance, Succeeds, Fails, Interrupted
<1>4. CASE PowerStep \/ LocalStep \/ BagStep
  BY <1>2, <1>4 DEF PowerStep, StepStartVmPaused, StepBootWait, StepShutdown,
     StepSetVmToTemplate, StepCleanUpTemplate, LocalStep, StepPrepareOutputDir,
     StepExport, BagStep, StepFindVdi, StepGetVmTemplate, Succeeds, Fails
<1>5. CASE StepUploadVdi \/ StepFindOrUploadVdi
  BY <1>2, <1>5 DEF StepUploadVdi, StepFindOrUploadVdi, UploadVdi, Succeeds, Fails,
     Interrupted
<1>6. CASE StepCreateInstance \/ StepAttachVdi \/ StepDetachVdi
  BY <1>2, <1>6 DEF StepCreateInstance, StepAttachVdi, StepDetachVdi, Succeeds, Fails
<1>7. QED
  BY RunStepKinds, <1>3, <1>4, <1>5, <1>6

(* Run of a step is Work, or Turn if it was the last.                      *)
LEMMA RunRefines ==
    ASSUME Inv, RunStep
    PROVE  Contract!Next \/ UNCHANGED Contract!contract
<1>1. phase = "run" /\ phase' \in {"run", "cleanup"} /\ UNCHANGED <<cfg, ran, lateMark>>
  BY RunFrame
<1>2. result' = result
  BY RunResult
<1>3. Owned' \in SUBSET (Uploads \cup Disks \cup {"vm"})
  BY DEF Owned
<1>4. CASE phase' = "run"
  <2>1. Contract!Work
    BY <1>1, <1>2, <1>3, <1>4 DEF Contract!Work, Stage, Failed
  <2>2. QED
    BY <2>1 DEF Contract!Next
<1>5. CASE phase' = "cleanup"
  <2>1. Contract!Turn
    BY <1>1, <1>2, <1>3, <1>5 DEF Contract!Turn, Stage, Failed
  <2>2. QED
    BY <2>1 DEF Contract!Next
<1>6. QED
  BY <1>1, <1>4, <1>5

(* A Cleanup is Unwind.                                                    *)
LEMMA CleanupRefines ==
    ASSUME Inv, CleanupStep
    PROVE  Contract!Unwind
<1>1. /\ TypeOK /\ phase = "cleanup" /\ phase' = "cleanup" /\ result' = result
      /\ UNCHANGED <<cfg, keys, lateMark>>
  BY CleanupFrame DEF Inv, CleanupStep, CleanupPrepareOutputDir, CleanupUploadVdi,
     CleanupCreateInstance, CleanupAttachVdi, VmCleanup, CleanupNothing, CleanedUp
<1>2. vdis' \subseteq vdis /\ reported \subseteq reported' /\ (Exists' => Exists)
  <2>1. CASE CleanupUploadVdi
    BY <2>1, UploadCleanupEffect DEF machine, Exists
  <2>2. CASE CleanupCreateInstance
    BY <1>1, <2>2, CreateCleanupEffect
  <2>3. CASE ~CleanupUploadVdi /\ ~CleanupCreateInstance
    BY <2>3, MildCleanup
  <2>4. QED
    BY <2>1, <2>2, <2>3
<1>3. Owned' \in SUBSET Owned
  BY <1>2, OwnedShrinks
<1>4. cfg.keep = "always" => Owned' = Owned
  <2>1. SUFFICES ASSUME cfg.keep = "always" PROVE Owned' = Owned
    OBVIOUS
  <2>2. ShouldKeepVM
    BY <2>1 DEF ShouldKeepVM
  <2>3. UNCHANGED <<vm, vdis, reported>>
    BY <2>2 DEF CleanupStep, CleanupPrepareOutputDir, CleanupUploadVdi,
       CleanupCreateInstance, CleanupAttachVdi, VmCleanup, CleanupNothing, machine, storage
  <2>4. QED
    BY <2>3, OwnedKept DEF Exists
<1>5. QED
  BY <1>1, <1>3, <1>4 DEF Contract!Unwind, Stage, Failed

(* A late flag does not change what the contract knows: Failed is settled  *)
(* when the cleanup begins.                                                *)
LEMMA MarkRefines ==
    ASSUME Inv, MarkCancelled
    PROVE  UNCHANGED Contract!contract
<1>1. Stays /\ phase' = phase /\ phase \in {"run", "cleanup"} /\ result' = result
  BY DEF MarkCancelled, Inv, TypeOK, ControlOK
<1>2. UNCHANGED <<cfg, vm, vdis, reported>>
  BY <1>1 DEF Stays, pool
<1>3. Owned' = Owned
  BY <1>2, OwnedKept DEF Exists
<1>4. Failed' = Failed
  BY <1>1 DEF MarkCancelled, Failed
<1>5. QED
  BY <1>1, <1>2, <1>3, <1>4 DEF Contract!contract, Stage

(* When Builder.Run returns, every object that was to go is gone or named, *)
(* and no failed build has an artifact.                                    *)
LEMMA ReturnRefines ==
    ASSUME Inv, Returned', Inv', BuilderReturns
    PROVE  Contract!Return
<1>1. Stays /\ phase = "cleanup" /\ phase' = "returned" /\ UNCHANGED <<keys, lateMark>>
  BY DEF BuilderReturns
<1>2. UNCHANGED <<cfg, vm, vdis, reported>> /\ Owned' = Owned
  BY <1>1, OwnedKept DEF Stays, pool, Exists
<1>3. Failed' = Failed
  BY <1>1 DEF Failed
<1>4. cfg.keep = "never" \/ (cfg.keep = "on_success" /\ Failed) => Owned = {}
  <2>1. SUFFICES ASSUME cfg.keep = "never" \/ (cfg.keep = "on_success" /\ Failed)
                 PROVE  Owned = {}
    OBVIOUS
  <2>2. MustRollBack'
    BY <1>1, <1>2, <2>1 DEF MustRollBack, Failed
  <2>3. CleanRollback'
    BY NothingPending, PTL
  <2>4. (Exists => "vm" \in reported) /\ vdis \cap (Uploads \cup Disks) \subseteq reported
    BY <1>1, <1>2, <2>2, <2>3 DEF CleanRollback, Exists
  <2>5. QED
    BY <2>4 DEF Owned
<1>5. result' \in Contract!Outcomes /\ (Failed => result' # "artifact")
  BY DEF BuilderReturns, Outcome, Failed, Contract!Outcomes
<1>6. QED
  BY <1>1, <1>2, <1>3, <1>4, <1>5 DEF Contract!Return, Contract!Clears, Stage

(* The runner turns to its cleanups, or starts a step. *)
LEMMA RunnerRefines ==
    ASSUME Inv, StartStep \/ BreakOnCancel \/ AllStepsRan \/ Cancel
    PROVE  Contract!Next \/ UNCHANGED Contract!contract
<1>1. Stays /\ result' = result /\ lateMark' = lateMark
  BY DEF StartStep, BreakOnCancel, AllStepsRan, Cancel
<1>2. UNCHANGED <<cfg, vm, vdis, reported>> /\ Owned' = Owned
  BY <1>1, OwnedKept DEF Stays, pool, Exists
<1>3. CASE StartStep \/ Cancel
  BY <1>1, <1>2, <1>3 DEF StartStep, Cancel, Contract!contract, Stage, Failed
<1>4. CASE BreakOnCancel \/ AllStepsRan
  <2>1. phase = "run" /\ phase' = "cleanup"
    BY <1>4 DEF BreakOnCancel, AllStepsRan
  <2>2. Contract!Turn
    BY <1>1, <1>2, <2>1, OwnedTyped DEF Contract!Turn, Stage, Failed
  <2>3. QED
    BY <2>2 DEF Contract!Next
<1>5. QED
  BY <1>3, <1>4

(* Every step of a build is one of the contract's, or a stutter.           *)
LEMMA NextRefines ==
    ASSUME Inv, Inv', Returned', [Next]_vars
    PROVE  [Contract!Next]_(Contract!contract)
<1>1. CASE RunStep
  BY <1>1, RunRefines
<1>2. CASE CleanupStep
  BY <1>2, CleanupRefines DEF Contract!Next
<1>3. CASE StartStep \/ BreakOnCancel \/ AllStepsRan \/ Cancel
  BY <1>3, RunnerRefines
<1>4. CASE BuilderReturns
  BY <1>4, ReturnRefines DEF Contract!Next
<1>5. CASE MarkCancelled
  BY <1>5, MarkRefines
<1>6. CASE GuestHalts \/ UNCHANGED vars
  <2>1. UNCHANGED <<cfg, phase, keys, lateMark, result, vdis, reported>> /\ (Exists' <=> Exists)
    BY <1>6 DEF GuestHalts, vars, control, storage, Exists
  <2>2. QED
    BY <2>1, OwnedKept DEF Contract!contract, Stage, Failed
<1>7. QED
  BY <1>1, <1>2, <1>3, <1>4, <1>5, <1>6 DEF Next, Builder, Done

(* A build keeps its contract: it makes objects, then only takes them      *)
(* away, and returns when nothing its policy wants gone is left unnamed.   *)
THEOREM BuildKeepsContract == Spec => MeetsContract
<1>1. Init => Inv /\ Returned /\ Contract!Init
  BY InitInv, InitRefines DEF Init, Returned
<1>2. Inv /\ Returned /\ [Next]_vars => Inv' /\ Returned'
  BY NextInv, NextReturned
<1>3. Inv /\ Returned /\ [Next]_vars /\ Inv' /\ Returned' => [Contract!Next]_(Contract!contract)
  BY NextRefines
<1>4. QED
  BY <1>1, <1>2, <1>3, PTL DEF Spec, MeetsContract, Contract!Spec

=============================================================================
