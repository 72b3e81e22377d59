--------------------------- MODULE RollbackProofs ---------------------------
(***************************************************************************)
(* What a build leaves in the pool, for every pipeline and any number of   *)
(* faults: nothing of its own that was to be rolled back, and everything   *)
(* that was there before it.                                               *)
(***************************************************************************)
EXTENDS BuildPipelineProofs

(* What the media keys may name: an upload its own VDI, the ISO also the   *)
(* one of the pool that has its name; and with iso_name nothing is         *)
(* uploaded for the ISO.                                                   *)
MediaOrigin ==
    /\ \A k \in Uploads \ {"iso"} : media[k] \in {k, "none", "cleared"}
    /\ media["iso"] \in {"iso", "library_iso", "none", "cleared"}
    /\ cfg.isoName => "iso_path" \notin keys /\ "iso" \notin vdis
    /\ vdis \cap Disks # {} => vm # "absent"

(* The inductive invariant.  CleanRollback is not inductive: it says       *)
(* nothing before the build returns.  Accounted strengthens it, and needs  *)
(* in turn the origin of the media keys, for the cleanup of an ISO that    *)
(* was given by its name removes nothing.                                  *)
Inv == TypeOK /\ MediaOrigin /\ Accounted

-----------------------------------------------------------------------------
(* The Run methods.                                                        *)

(* Run of a step moves neither the configuration nor the place in the      *)
(* pipeline, and does not end the build.                                   *)
LEMMA RunFrame ==
    ASSUME RunStep
    PROVE  /\ phase = "run" /\ running /\ phase' \in {"run", "cleanup"}
           /\ UNCHANGED <<cfg, ran, lateMark>>
<1>1. \A ks, next : next \in {"run", "cleanup"} /\ Ends(ks, next) =>
         phase' \in {"run", "cleanup"} /\ UNCHANGED <<cfg, ran, lateMark>>
  BY DEF Ends
<1>2. \A ks : Proceeds(ks) \/ Halts(ks) =>
         phase' \in {"run", "cleanup"} /\ UNCHANGED <<cfg, ran, lateMark>>
  BY <1>1 DEF Proceeds, Halts
<1>3. CASE QuietStep
  BY <1>2, <1>3 DEF QuietStep, StepDownload, StepCreateCD, StepCreateFloppy, MakeImage,
     StepHTTPServer, StepSetVmHostSshAddress, StepTypeBootCommand, StepWaitForIP,
     StepForwardPortOverSSH, StepConnect, StepProvision, TalkToGuest, Executing,
     StepImportInstance, Succeeds, Fails, Interrupted
<1>4. CASE PowerStep
  BY <1>2, <1>4 DEF PowerStep, StepStartVmPaused, StepBootWait, StepShutdown,
     StepSetVmToTemplate, StepCleanUpTemplate, Executing, Succeeds, Fails
<1>5. CASE LocalStep \/ BagStep
  BY <1>2, <1>5 DEF LocalStep, StepPrepareOutputDir, StepExport, BagStep, StepFindVdi,
     StepGetVmTemplate, Executing, Succeeds, Fails
<1>6. CASE StepUploadVdi \/ StepFindOrUploadVdi
  BY <1>2, <1>6 DEF StepUploadVdi, StepFindOrUploadVdi, UploadVdi, Executing,
     Succeeds, Fails, Interrupted
<1>7. CASE StepCreateInstance \/ StepAttachVdi \/ StepDetachVdi
  BY <1>2, <1>7 DEF StepCreateInstance, StepAttachVdi, StepDetachVdi, Executing,
     Succeeds, Fails
<1>8. QED
  BY RunStepKinds, <1>3, <1>4, <1>5, <1>6, <1>7

(* A cleanup that is to come stays so while the runner moves on.           *)
LEMMA PendingKept ==
    ASSUME TypeOK, cfg' = cfg, ran' \in Nat, ran' >= ran
    PROVE  /\ CreatePending => CreatePending'
           /\ \A k \in Uploads : UploadPending(k) /\ media'[k] = media[k] => UploadPending(k)'
<1>1. 1 .. ran \subseteq 1 .. ran' /\ Steps' = Steps
  BY DEF TypeOK, ControlOK, Steps
<1>2. QED
  BY <1>1 DEF CreatePending, UploadPending

(* What keeps the account: nothing new, no cleanup lost.                   *)
LEMMA AccountKept ==
    ASSUME AllAccounted,
           Exists' => Exists,
           vdis' \cap (Disks \cup Uploads) \subseteq vdis,
           reported \subseteq reported',
           CreatePending => CreatePending',
           \A k \in Uploads : k \in vdis /\ UploadPending(k) => UploadPending(k)'
    PROVE  AllAccounted'
  BY DEF AllAccounted

(* Only the two uploading steps write the key of an upload.                *)
LEMMA RunMedia ==
    ASSUME TypeOK, MediaOrigin, RunStep,
           ~(StepUploadVdi \/ StepFindOrUploadVdi)
    PROVE  \A k \in Uploads : media'[k] = media[k]
<1>1. CASE StepFindVdi
  <2>1. Current.arg \in {"isoname", "tools"}
    BY <1>1, StepsTyped DEF StepFindVdi, Executing, Step, PlainOps, TypeOK, ControlOK
  <2>2. \A k \in Uploads : k # Current.arg
    BY <2>1 DEF Uploads
  <2>3. QED
    BY <1>1, <2>2 DEF StepFindVdi, TypeOK, BagOK, Uploads, MediaKeys
<1>2. CASE ~StepFindVdi
  <2>1. media' = media
    BY <1>2, RunStepKinds, QuietStepFrame, PowerStepFrame, LocalStepFrame
       DEF BagStep, StepGetVmTemplate, StepCreateInstance, StepAttachVdi, StepDetachVdi,
           bag
  <2>2. QED
    BY <2>1
<1>3. QED
  BY <1>1, <1>2

(* An upload puts its own VDI under its key, unless a message names it.    *)
LEMMA UploadEffect ==
    ASSUME TypeOK, MediaOrigin, StepUploadVdi \/ StepFindOrUploadVdi
    PROVE  /\ Current.arg \in Uploads
           /\ \A k \in Uploads \ {Current.arg} : media'[k] = media[k]
           /\ media'[Current.arg] \in {media[Current.arg], Current.arg, "library_iso"}
           /\ media'[Current.arg] = "library_iso" /\ media[Current.arg] # "library_iso" =>
                 Current.arg = "iso" /\ "iso" \notin vdis
           /\ vdis' \subseteq vdis \cup {Current.arg}
           /\ reported \subseteq reported'
           /\ Current.arg \in vdis' \ vdis =>
                 /\ ImagePath[Current.arg] \in keys
                 /\ Current.arg \in reported' \/ media'[Current.arg] = Current.arg
           /\ UNCHANGED <<machine, templates>>
<1>1. /\ Current.op = "StepUploadVdi" => Current.arg \in Uploads
      /\ Current.op = "StepFindOrUploadVdi" => Current.arg = "iso"
      /\ running
  BY StepsTyped DEF StepUploadVdi, StepFindOrUploadVdi, Executing, Step, PlainOps,
     TypeOK, ControlOK
<1>2. media \in [MediaKeys -> Vdis \cup {"none", "cleared"}] /\ Uploads \subseteq MediaKeys
  BY DEF TypeOK, BagOK, Uploads, MediaKeys
<1>3. ASSUME UploadVdi(Current.arg), Current.arg \in Uploads
      PROVE  /\ media' = media \/ media' = [media EXCEPT ![Current.arg] = Current.arg]
             /\ vdis' \subseteq vdis \cup {Current.arg}
             /\ reported \subseteq reported'
             /\ Current.arg \in vdis' \ vdis =>
                 /\ ImagePath[Current.arg] \in keys
                 /\ Current.arg \in reported' \/ media'[Current.arg] = Current.arg
  BY <1>2, <1>3 DEF UploadVdi
<1>4. CASE StepUploadVdi
  BY <1>1, <1>2, <1>3, <1>4 DEF StepUploadVdi, Executing, Uploads
<1>5. CASE StepFindOrUploadVdi
  <2>1. Current.arg = "iso" /\ Current.arg \in Uploads
    BY <1>1, <1>5 DEF StepFindOrUploadVdi, Executing, Uploads
  <2>2. CASE UploadVdi(Current.arg)
    BY <1>2, <1>3, <2>1, <2>2, <1>5 DEF StepFindOrUploadVdi
  <2>3. CASE ~UploadVdi(Current.arg)
    <3>1. /\ UNCHANGED <<vdis, reported, machine, templates>>
          /\ \/ media' = media
             \/ \E v \in IsoNamed : IsoNamed = {v} /\ media' = [media EXCEPT !["iso"] = v]
      BY <1>5, <2>1, <2>3, Zenon DEF StepFindOrUploadVdi
    <3>2. QED
      BY <1>2, <2>1, <3>1 DEF IsoNamed
  <2>4. QED
    BY <2>2, <2>3
<1>6. QED
  BY <1>4, <1>5

(* Only StepDownload puts the path of a downloaded ISO.                    *)
LEMMA RunKeys ==
    ASSUME TypeOK, RunStep, "iso_path" \in keys'
    PROVE  "iso_path" \in keys \/ Current.op = "StepDownload"
<1>1. \A ks, next : Ends(ks, next) => keys' = keys \cup ks
  BY DEF Ends
<1>2. \A ks : Proceeds(ks) \/ Halts(ks) => keys' \subseteq keys \cup ks \cup {"halted"}
  BY <1>1 DEF Proceeds, Halts
<1>3. CASE QuietStep
  BY <1>2, <1>3 DEF QuietStep, StepDownload, StepCreateCD, StepCreateFloppy, MakeImage,
     ImagePath, StepHTTPServer, StepSetVmHostSshAddress, StepTypeBootCommand,
     StepWaitForIP, StepForwardPortOverSSH, StepConnect, StepProvision, TalkToGuest,
     StepImportInstance, Executing, Succeeds, Fails, Interrupted
<1>4. CASE PowerStep
  BY <1>2, <1>4 DEF PowerStep, StepStartVmPaused, StepBootWait, StepShutdown,
     StepSetVmToTemplate, StepCleanUpTemplate, Succeeds, Fails
<1>5. CASE LocalStep \/ BagStep
  BY <1>2, <1>5 DEF LocalStep, StepPrepareOutputDir, StepExport, BagStep, StepFindVdi,
     StepGetVmTemplate, Succeeds, Fails
<1>6. CASE StepUploadVdi \/ StepFindOrUploadVdi
  BY <1>2, <1>6 DEF StepUploadVdi, StepFindOrUploadVdi, UploadVdi, Succeeds, Fails,
     Interrupted
<1>7. CASE StepCreateInstance
  <2>1. Succeeds({"instance_uuid"}) \/ Fails({}) \/ Halts({})
    BY <1>7, Zenon DEF StepCreateInstance
  <2>2. QED
    BY <1>2, <2>1 DEF Succeeds, Fails
<1>8. CASE StepAttachVdi \/ StepDetachVdi
  <2>1. Proceeds({}) \/ Halts({})
    BY <1>8, Zenon DEF StepAttachVdi, StepDetachVdi, Succeeds, Fails
  <2>2. QED
    BY <1>2, <2>1
<1>9. QED
  BY RunStepKinds, <1>3, <1>4, <1>5, <1>6, <1>7, <1>8

(* The steps other than the two that create objects leave vdis alone.      *)
LEMMA RunVdis ==
    ASSUME RunStep, ~StepUploadVdi, ~StepFindOrUploadVdi, ~StepCreateInstance
    PROVE  vdis' = vdis /\ reported \subseteq reported' /\ (Exists' => Exists)
           /\ (vm' = "absent" => vm = "absent")
<1>1. CASE QuietStep
  BY <1>1, QuietStepFrame DEF pool, Exists
<1>2. CASE PowerStep
  <2>1. vdis' = vdis /\ reported' = reported
    BY <1>2, PowerStepFrame DEF storage
  <2>2. (Exists' => Exists) /\ (vm' = "absent" => vm = "absent")
    BY <1>2 DEF PowerStep, StepStartVmPaused, StepBootWait, StepShutdown,
                StepSetVmToTemplate, StepCleanUpTemplate, Exists, Live
  <2>3. QED
    BY <2>1, <2>2
<1>3. CASE LocalStep
  BY <1>3, LocalStepFrame DEF pool, Exists
<1>4. CASE BagStep
  BY <1>4, BagStepFrame DEF pool, Exists
<1>5. CASE StepAttachVdi
  BY <1>5 DEF StepAttachVdi, machine, Exists
<1>6. CASE StepDetachVdi
  BY <1>6 DEF StepDetachVdi, machine, Exists
<1>7. QED
  BY RunStepKinds, <1>1, <1>2, <1>3, <1>4, <1>5, <1>6

(* StepCreateInstance adds disks to the pool only together with the VM.    *)
LEMMA CreateEffect ==
    ASSUME TypeOK, StepCreateInstance
    PROVE  /\ vdis' \subseteq vdis \cup Disks \cup {"clone_disk"}
           /\ vdis \subseteq vdis'
           /\ reported' = reported
           /\ vm' = "halted" \/ (vm' = vm /\ vdis' = vdis)
<1>1. \/ UNCHANGED <<vm, vdis>>
      \/ /\ vm' = "halted"
         /\ \E made \in SUBSET NewDisks : vdis' = vdis \cup made \cup ClonedDisk
  BY Zenon DEF StepCreateInstance, machine, storage
<1>2. NewDisks \subseteq Disks /\ ClonedDisk \subseteq {"clone_disk"}
  BY DEF NewDisks, ClonedDisk
<1>3. reported' = reported
  BY DEF StepCreateInstance
<1>4. QED
  BY <1>1, <1>2, <1>3

(* Whatever a Run creates, its own Cleanup is to come or a message names   *)
(* it.                                                                     *)
LEMMA RunAccounted ==
    ASSUME Inv, RunStep
    PROVE  AllAccounted'
<1>0. TypeOK /\ MediaOrigin /\ AllAccounted
  BY RunFrame DEF Inv, Accounted
<1>1. /\ cfg' = cfg /\ ran' = ran /\ ran \in Nat /\ ran > 0 /\ Steps' = Steps
      /\ ran \in 1 .. ran /\ Current = Steps[ran]
  BY <1>0, RunFrame DEF TypeOK, ControlOK, Steps, Current
<1>2. /\ CreatePending => CreatePending'
      /\ \A k \in Uploads : UploadPending(k) /\ media'[k] = media[k] => UploadPending(k)'
  BY <1>0, <1>1, PendingKept
<1>3. CASE StepCreateInstance
  <2>1. CreatePending'
    BY <1>1, <1>3 DEF StepCreateInstance, Executing, CreatePending
  <2>2. \A k \in Uploads : media'[k] = media[k]
    BY <1>3 DEF StepCreateInstance, bag
  <2>3. vdis' \cap Uploads \subseteq vdis /\ reported' = reported
    BY <1>0, <1>3, CreateEffect, DisksAssumption DEF Uploads
  <2>4. QED
    BY <1>0, <1>2, <2>1, <2>2, <2>3 DEF AllAccounted
<1>4. CASE StepUploadVdi \/ StepFindOrUploadVdi
  <2>1. PICK k \in Uploads : k = Current.arg
    BY <1>0, <1>4, UploadEffect
  <2>2. Exists' => Exists
    BY <1>0, <1>4, UploadEffect DEF machine, Exists
  <2>3. vdis' \cap Disks \subseteq vdis /\ vdis' \subseteq vdis \cup {k}
    BY <1>0, <1>4, <2>1, UploadEffect, DisksAssumption DEF Uploads
  <2>4. reported \subseteq reported'
    BY <1>0, <1>4, UploadEffect
  <2>5. \A j \in Uploads \ {k} : UploadPending(j) => UploadPending(j)'
    BY <1>0, <1>2, <1>4, <2>1, UploadEffect
  <2>6. k \in vdis' => k \in reported' \/ UploadPending(k)'
    <3>1. media'[k] = k => UploadPending(k)'
      BY <1>1, <1>4, <2>1 DEF StepUploadVdi, StepFindOrUploadVdi, Executing, UploadPending
    <3>2. CASE k \in vdis
      <4>1. k \in reported \/ (UploadPending(k) /\ media[k] = k)
        BY <1>0, <3>2 DEF AllAccounted, UploadPending
      <4>2. media[k] = k /\ k # "library_iso" => media'[k] = k \/ k \in reported'
        BY <1>0, <1>4, <2>1, <3>2, UploadEffect
      <4>3. QED
        BY <2>4, <3>1, <4>1, <4>2 DEF Uploads
    <3>3. CASE k \notin vdis
      BY <1>0, <1>4, <2>1, <3>1, <3>3, UploadEffect
    <3>4. QED
      BY <3>2, <3>3
  <2>7. QED
    BY <1>0, <1>2, <2>2, <2>3, <2>4, <2>5, <2>6 DEF AllAccounted
<1>5. CASE ~StepCreateInstance /\ ~StepUploadVdi /\ ~StepFindOrUploadVdi
  BY <1>0, <1>2, <1>5, RunVdis, RunMedia, AccountKept
<1>6. QED
  BY <1>3, <1>4, <1>5

(* Run of any step keeps the origin of the media keys.                     *)
LEMMA RunMediaOrigin ==
    ASSUME Inv, RunStep
    PROVE  MediaOrigin'
<1>0. /\ TypeOK /\ MediaOrigin /\ cfg' = cfg /\ running
      /\ cfg \in Configs /\ Current \in Step /\ ran \in DOMAIN Steps
  BY RunFrame, StepsTyped DEF Inv, TypeOK, ControlOK
<1>1. \A k \in Uploads \ {"iso"} : media'[k] \in {k, "none", "cleared"}
  <2>1. CASE StepUploadVdi \/ StepFindOrUploadVdi
    BY <1>0, <2>1, UploadEffect DEF MediaOrigin
  <2>2. CASE ~(StepUploadVdi \/ StepFindOrUploadVdi)
    BY <1>0, <2>2, RunMedia DEF MediaOrigin
  <2>3. QED
    BY <2>1, <2>2
<1>2. media'["iso"] \in {"iso", "library_iso", "none", "cleared"}
  <2>0. "iso" \in Uploads
    BY DEF Uploads
  <2>1. CASE StepUploadVdi \/ StepFindOrUploadVdi
    BY <1>0, <2>0, <2>1, UploadEffect DEF MediaOrigin
  <2>2. CASE ~(StepUploadVdi \/ StepFindOrUploadVdi)
    BY <1>0, <2>0, <2>2, RunMedia DEF MediaOrigin
  <2>3. QED
    BY <2>1, <2>2
<1>3. cfg.isoName => "iso_path" \notin keys'
  <2>1. cfg.isoName => Current.op # "StepDownload"
    BY <1>0, DownloadAssumption DEF DownloadsByUrl, Steps, Current
  <2>2. QED
    BY <1>0, <2>1, RunKeys DEF MediaOrigin
<1>4. cfg.isoName => "iso" \notin vdis'
  <2>1. CASE StepUploadVdi \/ StepFindOrUploadVdi
    <3>1. "iso" \in vdis' \ vdis => "iso_path" \in keys
      BY <1>0, <2>1, UploadEffect DEF ImagePath
    <3>2. QED
      BY <1>0, <3>1 DEF MediaOrigin
  <2>2. CASE StepCreateInstance
    BY <1>0, <2>2, CreateEffect, DisksAssumption DEF MediaOrigin, Uploads
  <2>3. CASE ~StepCreateInstance /\ ~StepUploadVdi /\ ~StepFindOrUploadVdi
    BY <1>0, <2>3, RunVdis DEF MediaOrigin
  <2>4. QED
    BY <2>1, <2>2, <2>3
<1>5. vdis' \cap Disks # {} => vm' # "absent"
  <2>1. CASE StepUploadVdi \/ StepFindOrUploadVdi
    <3>1. vdis' \cap Disks \subseteq vdis /\ vm' = vm
      BY <1>0, <2>1, UploadEffect, DisksAssumption DEF machine
    <3>2. QED
      BY <1>0, <3>1 DEF MediaOrigin
  <2>2. CASE StepCreateInstance
    BY <1>0, <2>2, CreateEffect DEF MediaOrigin
  <2>3. CASE ~StepCreateInstance /\ ~StepUploadVdi /\ ~StepFindOrUploadVdi
    BY <1>0, <2>3, RunVdis DEF MediaOrigin
  <2>4. QED
    BY <2>1, <2>2, <2>3
<1>6. QED
  BY <1>0, <1>1, <1>2, <1>3, <1>4, <1>5 DEF MediaOrigin

-----------------------------------------------------------------------------
(* The cleanups.                                                           *)

(* A Cleanup takes the runner one step back and nothing else.              *)
LEMMA CleanupFrame ==
    ASSUME TypeOK, CleanupStep
    PROVE  /\ phase = "cleanup" /\ phase' = "cleanup" /\ ran \in Nat /\ ran > 0
           /\ ran' = ran - 1 /\ Steps' = Steps /\ Current = Steps[ran]
           /\ UNCHANGED <<cfg, keys, lateMark>>
  BY DEF CleanupStep, CleanupPrepareOutputDir, CleanupUploadVdi, CleanupCreateInstance,
         CleanupAttachVdi, VmCleanup, CleanupNothing, Unwinding, CleanedUp, TypeOK,
         ControlOK, Steps, Current

(* Only the cleanup of the step itself takes a pending cleanup away.       *)
LEMMA PendingUnwound ==
    ASSUME TypeOK, CleanupStep
    PROVE  /\ CreatePending /\ Current.op # "StepCreateInstance" => CreatePending'
           /\ \A k \in Uploads :
                 UploadPending(k) /\ media'[k] = media[k]
                 /\ (Current.op \notin {"StepUploadVdi", "StepFindOrUploadVdi"}
                     \/ Current.arg # k) => UploadPending(k)'
<1>1. \A i \in 1 .. ran : i # ran => i \in 1 .. ran'
  BY CleanupFrame
<1>2. Steps' = Steps /\ Current = Steps[ran]
  BY CleanupFrame
<1>3. QED
  BY <1>1, <1>2 DEF CreatePending, UploadPending

(* The cleanups that remove nothing from the pool.                         *)
LEMMA MildCleanup ==
    ASSUME CleanupStep, ~CleanupUploadVdi, ~CleanupCreateInstance
    PROVE  /\ vdis' = vdis /\ media' = media /\ reported' = reported
           /\ (Exists' => Exists) /\ (vm' = "absent" => vm = "absent")
           /\ Current.op \notin {"StepCreateInstance", "StepUploadVdi",
                                 "StepFindOrUploadVdi"}
<1>1. CASE CleanupPrepareOutputDir
  BY <1>1 DEF CleanupPrepareOutputDir, Unwinding, machine, storage, Exists
<1>2. CASE CleanupAttachVdi
  BY <1>2 DEF CleanupAttachVdi, Unwinding, machine, Exists
<1>3. CASE VmCleanup
  BY <1>3 DEF VmCleanup, PoweredOff, Unwinding, storage, Exists, Live
<1>4. CASE CleanupNothing
  BY <1>4 DEF CleanupNothing, Unwinding, PassiveOps, machine, storage, Exists
<1>5. QED
  BY <1>1, <1>2, <1>3, <1>4 DEF CleanupStep

(* CleanupUploadVdi removes the VDI its key names or reports it, unless    *)
(* the VM is kept or the ISO was given by name.                            *)
LEMMA UploadCleanupEffect ==
    ASSUME Inv, CleanupUploadVdi
    PROVE  /\ Current.arg \in Uploads
           /\ vdis' \subseteq vdis /\ reported \subseteq reported'
           /\ UNCHANGED <<machine>>
           /\ \A k \in Uploads \ {Current.arg} : media'[k] = media[k]
           /\ media'[Current.arg] \in {media[Current.arg], "cleared"}
           /\ vdis \ vdis' \subseteq {media[Current.arg]}
           /\ ShouldKeepVM \/ PreserveVdi(Current.arg) => UNCHANGED <<vdis, vbds, media>>
           /\ ~ShouldKeepVM /\ ~PreserveVdi(Current.arg) /\ media[Current.arg] = Current.arg
                => Current.arg \notin vdis' \/ Current.arg \in reported'
<1>1. Current.arg \in Uploads
  BY StepsTyped DEF Inv, TypeOK, ControlOK, CleanupUploadVdi, Unwinding, Step, PlainOps,
     Uploads
<1>2. media \in [MediaKeys -> Vdis \cup {"none", "cleared"}] /\ Uploads \subseteq MediaKeys
  BY DEF Inv, TypeOK, BagOK, Uploads, MediaKeys
<1>3. UNCHANGED <<machine>>
  BY DEF CleanupUploadVdi
<1>4. \/ UNCHANGED <<vdis, vbds, media, reported>>
      \/ /\ vdis' = vdis \ {media[Current.arg]}
         /\ media' = [media EXCEPT ![Current.arg] = "cleared"]
         /\ reported' = reported
      \/ reported' = reported \cup {media[Current.arg]} /\ UNCHANGED <<vdis, vbds, media>>
  BY Zenon DEF CleanupUploadVdi
<1>5. ShouldKeepVM \/ PreserveVdi(Current.arg) => UNCHANGED <<vdis, vbds, media>>
  BY Zenon DEF CleanupUploadVdi
<1>6. ~ShouldKeepVM /\ ~PreserveVdi(Current.arg) /\ media[Current.arg] \notin {"none", "cleared"}
        => vdis' = vdis \ {media[Current.arg]} \/ reported' = reported \cup {media[Current.arg]}
  BY Zenon DEF CleanupUploadVdi
<1>7. Current.arg \notin {"none", "cleared"}
  BY <1>1 DEF Uploads
<1>8. QED
  BY <1>1, <1>2, <1>3, <1>4, <1>5, <1>6, <1>7

(* CleanupCreateInstance removes the VM and the disks or reports them,     *)
(* unless the VM is kept; it touches no VDI that is not a disk.            *)
LEMMA CreateCleanupEffect ==
    ASSUME TypeOK, CleanupCreateInstance
    PROVE  /\ vdis' \subseteq vdis /\ reported \subseteq reported' /\ media' = media
           /\ vdis \ vdis' \subseteq Disks
           /\ Exists' => Exists
           /\ vm' = "absent" => vm = "absent"
           /\ ShouldKeepVM => UNCHANGED <<machine, storage>>
           /\ ~ShouldKeepVM /\ vm # "absent" =>
                /\ Exists' => "vm" \in reported'
                /\ vdis' \cap Disks \subseteq reported'
<1>1. CASE ShouldKeepVM \/ vm = "absent"
  BY <1>1 DEF CleanupCreateInstance, machine, storage, Exists
<1>2. CASE ~ShouldKeepVM /\ vm # "absent"
  <2>1. PICK kept \in SUBSET ((Disks \cap vdis) \cup {"vm"}) :
           /\ vm' \in IF "vm" \notin kept THEN {"destroyed"}
                      ELSE IF Live THEN {vm, "halted"} ELSE {vm}
           /\ vdis' = vdis \ ((Disks \cap vdis) \ kept)
           /\ reported' = reported \cup kept
           /\ media' = media
    BY <1>2 DEF CleanupCreateInstance
  <2>2. QED
    BY <1>2, <2>1 DEF Exists, Live
<1>3. QED
  BY <1>1, <1>2

(* Any Cleanup keeps the origin of the media keys.                         *)
LEMMA CleanupMediaOrigin ==
    ASSUME Inv, CleanupStep
    PROVE  MediaOrigin'
<1>0. TypeOK /\ MediaOrigin /\ UNCHANGED <<cfg, keys>>
  BY CleanupFrame DEF Inv
<1>1. CASE CleanupUploadVdi
  BY <1>0, <1>1, UploadCleanupEffect DEF MediaOrigin, machine, Uploads
<1>2. CASE CleanupCreateInstance
  BY <1>0, <1>2, CreateCleanupEffect DEF MediaOrigin
<1>3. CASE ~CleanupUploadVdi /\ ~CleanupCreateInstance
  BY <1>0, <1>3, MildCleanup DEF MediaOrigin
<1>4. QED
  BY <1>1, <1>2, <1>3

(* While a build is rolled back no Cleanup drops an object from the        *)
(* account.                                                                *)
LEMMA CleanupAccounted ==
    ASSUME Inv, CleanupStep
    PROVE  Accounted'
<1>0. /\ TypeOK /\ MediaOrigin /\ Accounted /\ phase = "cleanup" /\ phase' = "cleanup"
      /\ UNCHANGED <<cfg, keys, lateMark>>
  BY CleanupFrame DEF Inv
<1>1. SUFFICES ASSUME MustRollBack' PROVE AllAccounted'
  BY <1>0 DEF Accounted
<1>2. MustRollBack /\ ~ShouldKeepVM /\ AllAccounted
  BY <1>0, <1>1 DEF MustRollBack, ShouldKeepVM, Accounted
<1>3. CASE CleanupUploadVdi
  <2>1. Current.arg \in Uploads /\ vdis' \subseteq vdis /\ reported \subseteq reported'
    BY <1>3, UploadCleanupEffect
  <2>2. (Exists' => Exists) /\ (CreatePending => CreatePending')
    BY <1>0, <1>3, UploadCleanupEffect, PendingUnwound
       DEF machine, Exists, CleanupUploadVdi, Unwinding
  <2>3. \A k \in Uploads \ {Current.arg} : UploadPending(k) => UploadPending(k)'
    BY <1>0, <1>3, UploadCleanupEffect, PendingUnwound
  <2>4. Current.arg \in vdis' => Current.arg \in reported'
    <3>1. CASE PreserveVdi(Current.arg)
      BY <1>0, <2>1, <3>1 DEF PreserveVdi, MediaOrigin
    <3>2. CASE ~PreserveVdi(Current.arg) /\ media[Current.arg] = Current.arg
      BY <1>2, <1>3, <3>2, UploadCleanupEffect
    <3>3. CASE media[Current.arg] # Current.arg
      BY <1>2, <2>1, <3>3 DEF AllAccounted, UploadPending
    <3>4. QED
      BY <3>1, <3>2, <3>3
  <2>5. QED
    BY <1>2, <2>1, <2>2, <2>3, <2>4 DEF AllAccounted
<1>4. CASE CleanupCreateInstance
  <2>1. \A k \in Uploads : UploadPending(k) => UploadPending(k)'
    BY <1>0, <1>4, CreateCleanupEffect, PendingUnwound
       DEF CleanupCreateInstance, Unwinding
  <2>2. vdis' \subseteq vdis /\ reported \subseteq reported'
    BY <1>0, <1>4, CreateCleanupEffect
  <2>3. CASE vm = "absent"
    <3>1. ~Exists /\ vdis \cap Disks = {} /\ (Exists' => Exists)
      BY <1>0, <1>4, <2>3, CreateCleanupEffect DEF MediaOrigin, Exists
    <3>2. QED
      BY <1>2, <2>1, <2>2, <3>1 DEF AllAccounted
  <2>4. CASE vm # "absent"
    <3>1. (Exists' => "vm" \in reported') /\ vdis' \cap Disks \subseteq reported'
      BY <1>0, <1>2, <1>4, <2>4, CreateCleanupEffect
    <3>2. QED
      BY <1>2, <2>1, <2>2, <3>1 DEF AllAccounted
  <2>5. QED
    BY <2>3, <2>4
<1>5. CASE ~CleanupUploadVdi /\ ~CleanupCreateInstance
  <2>1. CreatePending => CreatePending'
    BY <1>0, <1>5, MildCleanup, PendingUnwound
  <2>2. \A k \in Uploads : UploadPending(k) => UploadPending(k)'
    BY <1>0, <1>5, MildCleanup, PendingUnwound
  <2>3. QED
    BY <1>2, <1>5, <2>1, <2>2, MildCleanup, AccountKept
<1>6. QED
  BY <1>3, <1>4, <1>5

-----------------------------------------------------------------------------
(* The runner, the packer core and the guest.                              *)

(* The runner's own steps and a cancellation keep the invariant.           *)
LEMMA RunnerInv ==
    ASSUME Inv, RunnerStep
    PROVE  MediaOrigin' /\ Accounted'
<1>0. TypeOK /\ MediaOrigin /\ Accounted
  BY DEF Inv
<1>1. Stays
  BY DEF RunnerStep, StartStep, BreakOnCancel, AllStepsRan, BuilderReturns, Cancel,
         MarkCancelled
<1>2. UNCHANGED <<cfg, vm, vdis, media, reported>> /\ (Exists' <=> Exists)
  BY <1>1 DEF Stays, pool, bag, Exists
<1>3. MediaOrigin'
  <2>1. keys' \subseteq keys \cup {"cancelled"}
    BY DEF RunnerStep, StartStep, BreakOnCancel, AllStepsRan, BuilderReturns, Cancel,
           MarkCancelled
  <2>2. QED
    BY <1>0, <1>2, <2>1 DEF MediaOrigin
<1>4. AllAccounted => AllAccounted'
  <2>1. ran' \in Nat /\ ran' >= ran
    BY <1>0 DEF RunnerStep, StartStep, BreakOnCancel, AllStepsRan, BuilderReturns, Cancel,
                MarkCancelled, TypeOK, ControlOK
  <2>2. QED
    BY <1>0, <1>2, <2>1, PendingKept, AccountKept
<1>5. phase' = "run" \/ MustRollBack' => phase = "run" \/ MustRollBack
  <2>1. CASE StartStep \/ BreakOnCancel \/ AllStepsRan
    BY <2>1 DEF StartStep, BreakOnCancel, AllStepsRan
  <2>2. CASE BuilderReturns \/ Cancel
    BY <1>2, <2>2 DEF BuilderReturns, Cancel, MustRollBack
  <2>3. CASE MarkCancelled
    <3>1. phase' = phase /\ phase \in {"run", "cleanup", "returned"} /\ phase # "returned"
      BY <1>0, <2>3 DEF MarkCancelled, TypeOK, ControlOK
    <3>2. /\ lateMark' = (lateMark \/ (phase = "cleanup" /\ "halted" \notin keys))
          /\ keys' = keys \cup {"cancelled"}
      BY <2>3 DEF MarkCancelled
    <3>3. QED
      BY <1>2, <3>1, <3>2 DEF MustRollBack
  <2>4. QED
    BY <2>1, <2>2, <2>3 DEF RunnerStep
<1>6. QED
  BY <1>0, <1>3, <1>4, <1>5 DEF Accounted

(* The invariant holds when a build starts.                                *)
LEMMA InitInv == Init => Inv
<1>1. SUFFICES ASSUME Init PROVE Inv
  OBVIOUS
<1>2. cfg \in Config /\ vdis \subseteq Library
  BY <1>1, ConfigAssumption DEF Init, Config
<1>3. /\ vm = "absent" /\ keys = {} /\ media = [k \in MediaKeys |-> "none"]
  BY <1>1 DEF Init
<1>4. \A k \in Uploads : media[k] = "none"
  BY <1>3 DEF Uploads, MediaKeys
<1>5. vdis \cap Disks = {} /\ vdis \cap Uploads = {}
  BY <1>2, DisksAssumption DEF Uploads, Library
<1>6. MediaOrigin
  BY <1>3, <1>4, <1>5 DEF MediaOrigin, Uploads
<1>7. AllAccounted
  BY <1>3, <1>5 DEF AllAccounted, Exists
<1>8. QED
  BY <1>1, <1>6, <1>7, InitTyped DEF Inv, Accounted

(* The invariant is inductive.                                             *)
LEMMA NextInv == Inv /\ [Next]_vars => Inv'
<1>1. SUFFICES ASSUME Inv, [Next]_vars PROVE Inv'
  OBVIOUS
<1>2. TypeOK'
  BY <1>1, NextTyped DEF Inv
<1>3. CASE RunStep
  BY <1>1, <1>2, <1>3, RunMediaOrigin, RunAccounted DEF Inv, Accounted
<1>4. CASE CleanupStep
  BY <1>1, <1>2, <1>4, CleanupMediaOrigin, CleanupAccounted DEF Inv
<1>5. CASE RunnerStep
  BY <1>1, <1>2, <1>5, RunnerInv DEF Inv
<1>6. CASE GuestHalts
  <2>1. UNCHANGED <<control, keys, bag, storage, reported>> /\ Exists /\ vm' = "halted"
    BY <1>6 DEF GuestHalts, Exists
  <2>2. CreatePending' = CreatePending /\ \A k \in Uploads : UploadPending(k)' = UploadPending(k)
    BY <2>1 DEF control, bag, CreatePending, UploadPending, Steps
  <2>3. AllAccounted => AllAccounted'
    BY <2>1, <2>2, AccountKept DEF storage, Exists
  <2>4. MediaOrigin' /\ (phase' = "run" \/ MustRollBack' => phase = "run" \/ MustRollBack)
    BY <1>1, <2>1 DEF Inv, MediaOrigin, MustRollBack, control, bag, storage
  <2>5. QED
    BY <1>1, <1>2, <2>3, <2>4 DEF Inv, Accounted
<1>7. CASE UNCHANGED vars
  BY <1>1, <1>2, <1>7 DEF Inv, MediaOrigin, Accounted, AllAccounted, MustRollBack, Exists,
     CreatePending, UploadPending, Steps, vars
<1>8. QED
  BY <1>1, <1>3, <1>4, <1>5, <1>6, <1>7 DEF Next, Builder, RunnerStep, Done

-----------------------------------------------------------------------------
(* The theorems.                                                           *)

(* A build returns only when all its steps are unwound.                    *)
Returned == phase = "returned" => ran = 0

(* A build that has returned has unwound all its steps.                    *)
LEMMA NextReturned == Inv /\ Returned /\ [Next]_vars => Returned'
<1>1. SUFFICES ASSUME Inv, Returned, [Next]_vars PROVE Returned'
  OBVIOUS
<1>2. CASE RunStep
  BY <1>2, RunFrame DEF Returned
<1>3. CASE CleanupStep
  BY <1>1, <1>3, CleanupFrame DEF Inv, Returned
<1>4. CASE RunnerStep
  BY <1>1, <1>4 DEF Returned, RunnerStep, StartStep, BreakOnCancel, AllStepsRan,
     BuilderReturns, Cancel, MarkCancelled
<1>5. CASE GuestHalts \/ UNCHANGED vars
  BY <1>1, <1>5 DEF Returned, GuestHalts, control, vars
<1>6. QED
  BY <1>1, <1>2, <1>3, <1>4, <1>5 DEF Next, Builder, RunnerStep, Done

(* When a build has returned no cleanup is to come: what the account still *)
(* holds has been named by a message.                                      *)
LEMMA NothingPending ==
    ASSUME Inv, Returned
    PROVE  CleanRollback
<1>1. SUFFICES ASSUME phase = "returned", MustRollBack PROVE CleanRollback
  BY DEF CleanRollback
<1>2. 1 .. ran = {}
  BY <1>1 DEF Returned
<1>3. ~CreatePending /\ \A k \in Uploads : ~UploadPending(k)
  BY <1>2 DEF CreatePending, UploadPending
<1>4. QED
  BY <1>1, <1>3 DEF Inv, Accounted, AllAccounted, CleanRollback

(* At every moment of a build that may still be rolled back, each object   *)
(* it has made has its cleanup to come or has been named by a message.     *)
THEOREM NothingForgotten == Spec => []Accounted
<1>1. Inv => Accounted
  BY DEF Inv
<1>2. QED
  BY <1>1, InitInv, NextInv, PTL DEF Spec

(* A build that the policy wants rolled back leaves in the pool neither    *)
(* its VM nor a disk or an upload of its own but those its messages name.  *)
THEOREM RolledBack == Spec => []CleanRollback
<1>1. Init => Inv /\ Returned
  BY InitInv DEF Init, Returned
<1>2. Inv /\ Returned /\ [Next]_vars => Inv' /\ Returned'
  BY NextInv, NextReturned
<1>3. Inv /\ Returned => CleanRollback
  BY NothingPending
<1>4. QED
  BY <1>1, <1>2, <1>3, PTL DEF Spec

(* No step of a build removes a VDI that LibraryIntact protects.           *)
LEMMA NextLibrary == Inv /\ LibraryIntact /\ [Next]_vars => LibraryIntact'
<1>1. SUFFICES ASSUME Inv, LibraryIntact, [Next]_vars PROVE LibraryIntact'
  OBVIOUS
<1>2. SUFFICES cfg' = cfg /\ \A v \in cfg.library \cap vdis :
                  v = "library_tools" \/ cfg.isoName => v \in vdis'
  BY <1>1 DEF LibraryIntact
<1>3. TypeOK /\ MediaOrigin /\ cfg.library \subseteq Library
  BY <1>1, ConfigAssumption DEF Inv, TypeOK, ControlOK, Config
<1>4. CASE RunStep
  <2>1. cfg' = cfg
    BY <1>4, RunFrame
  <2>2. CASE StepUploadVdi \/ StepFindOrUploadVdi
    <3>1. vdis \subseteq vdis'
      BY <2>2, Zenon DEF StepUploadVdi, StepFindOrUploadVdi, UploadVdi
    <3>2. QED
      BY <2>1, <3>1
  <2>3. CASE StepCreateInstance
    BY <1>3, <2>1, <2>3, CreateEffect
  <2>4. CASE ~StepCreateInstance /\ ~StepUploadVdi /\ ~StepFindOrUploadVdi
    BY <1>4, <2>1, <2>4, RunVdis
  <2>5. QED
    BY <2>2, <2>3, <2>4
<1>5. CASE CleanupStep
  <2>1. cfg' = cfg
    BY <1>3, <1>5, CleanupFrame
  <2>2. CASE CleanupUploadVdi
    <3>1. Current.arg \in Uploads /\ vdis \ vdis' \subseteq {media[Current.arg]}
      BY <1>1, <2>2, UploadCleanupEffect
    <3>2. CASE Current.arg = "iso" /\ cfg.isoName
      BY <1>1, <2>1, <2>2, <3>2, UploadCleanupEffect DEF PreserveVdi
    <3>3. CASE Current.arg = "iso" /\ ~cfg.isoName
      BY <1>3, <2>1, <3>1, <3>3 DEF MediaOrigin
    <3>4. CASE Current.arg # "iso"
      <4>1. media[Current.arg] \in {Current.arg, "none", "cleared"}
        BY <1>3, <3>1, <3>4 DEF MediaOrigin
      <4>2. QED
        BY <1>3, <2>1, <3>1, <4>1 DEF Uploads, Library
    <3>5. QED
      BY <3>2, <3>3, <3>4
  <2>3. CASE CleanupCreateInstance
    BY <1>3, <2>1, <2>3, CreateCleanupEffect, DisksAssumption DEF Library
  <2>4. CASE ~CleanupUploadVdi /\ ~CleanupCreateInstance
    BY <1>5, <2>1, <2>4, MildCleanup
  <2>5. QED
    BY <2>2, <2>3, <2>4
<1>6. CASE RunnerStep \/ GuestHalts \/ UNCHANGED vars
  BY <1>6 DEF RunnerStep, StartStep, BreakOnCancel, AllStepsRan, BuilderReturns, Cancel,
     MarkCancelled, Stays, pool, GuestHalts, control, storage, vars
<1>7. QED
  BY <1>1, <1>4, <1>5, <1>6 DEF Next, Builder, RunnerStep, Done

(* No build destroys a VDI that it found in the pool, except an ISO that   *)
(* it was given by its URL.                                                *)
THEOREM LibrarySafe == Spec => []LibraryIntact
<1>1. Init => LibraryIntact
  BY DEF Init, LibraryIntact
<1>2. QED
  BY <1>1, InitInv, NextInv, NextLibrary, PTL DEF Spec

(* With keep_vm = "always" no cleanup changes anything in the pool.        *)
THEOREM KeepsAlways == Spec => AlwaysKeeps
<1>1. ASSUME TypeOK, [Next]_vars, cfg.keep = "always", ran' < ran
      PROVE  UNCHANGED pool
  <2>1. CASE CleanupStep
    <3>1. ShouldKeepVM /\ UNCHANGED <<isTemplate, templates>>
      BY <1>1, <2>1 DEF ShouldKeepVM, CleanupStep, CleanupPrepareOutputDir,
         CleanupUploadVdi, CleanupCreateInstance, CleanupAttachVdi, VmCleanup,
         CleanupNothing, CleanedUp, machine
    <3>2. UNCHANGED <<vm, vdis, vbds>>
      BY <2>1, <3>1 DEF CleanupStep, CleanupPrepareOutputDir,
         CleanupUploadVdi, CleanupCreateInstance, CleanupAttachVdi, VmCleanup,
         CleanupNothing, machine, storage
    <3>3. QED
      BY <3>1, <3>2 DEF pool
  <2>2. CASE ~CleanupStep
    <3>1. ran \in Nat /\ (ran' = ran \/ ran' = ran + 1)
      BY <1>1, <2>2, RunFrame DEF TypeOK, ControlOK, Next, Builder, Done, StartStep,
         BreakOnCancel, AllStepsRan, BuilderReturns, Cancel, MarkCancelled, GuestHalts,
         control, vars
    <3>2. QED
      BY <1>1, <3>1
  <2>3. QED
    BY <2>1, <2>2
<1>2. TypeOK /\ [Next]_vars => [cfg.keep = "always" /\ ran' < ran => UNCHANGED pool]_vars
  BY <1>1
<1>3. QED
  BY <1>2, TypeCorrect, PTL DEF Spec, AlwaysKeeps

=============================================================================
