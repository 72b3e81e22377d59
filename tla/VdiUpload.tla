----------------------------- MODULE VdiUpload ------------------------------
(***************************************************************************)
(* The upload of an image to a VDI: StepUploadVdi with HTTPUpload, beside  *)
(* the import handler of XAPI that reads the body of the PUT, writes the   *)
(* VDI, and sets the status of the task.  The answer to the PUT may come   *)
(* before the body is sent, and a handler whose connection breaks holds    *)
(* the VDI for some time yet.  InterruptibleWait is used by its contract.  *)
(***************************************************************************)
EXTENDS Transfer

CONSTANT MaxHold    \* bound: seconds a broken import may hold the VDI

ASSUME HoldAssumption == MaxHold \in Nat

VARIABLES
    upload,         \* where StepUploadVdi is
    vdi,            \* "absent", "present" or "destroyed"
    content,        \* what has been written to it: "none", "part", "whole"
    vdiUuid,        \* "<k>_vdi_uuid" in the bag: "none", "put", "cleared"
    task,           \* "none", a status of XAPI, or "destroyed"
    import,         \* the import handler: "none", "reading", "breaking", "over"
    hold,           \* seconds until a breaking import lets go of the VDI
    tries,          \* calls of VDI.Destroy the cleanup has made
    heldFor         \* history: hold when the cleanup began to try

xapi == <<vdi, content, task, import, hold>>
cleaning == <<tries, heldFor>>
uploadVars == <<upload, xapi, vdiUuid, cleaning>>

UploadInit ==
    /\ upload = "idle" /\ vdi = "absent" /\ content = "none" /\ vdiUuid = "none"
    /\ task = "none" /\ import = "none" /\ hold = 0
    /\ tries = 0 /\ heldFor = 0

-----------------------------------------------------------------------------
(* StepUploadVdi.Run.                                                      *)

(* GetISOSR: the one SR of that name, or the default SR of the pool.       *)
IsoSrFound == choice.isoSr \in {"default", "unique"}

CreateVdi ==
    /\ upload = "idle"
    /\ \/ ~choice.image /\ upload' = "continued" /\ NoFault /\ UNCHANGED vdi
       \/ choice.image /\ upload' = "halted" /\ UNCHANGED vdi
          /\ (Fault \/ (~IsoSrFound /\ NoFault))
       \/ choice.image /\ IsoSrFound /\ upload' = "created" /\ NoFault /\ vdi' = "present"
    /\ UNCHANGED <<content, task, import, hold, vdiUuid, cleaning, choice, cancelled, reported>>

(* Careless form of GetUuid: the UUID is put when the upload is through.   *)
GetUuidOnly ==
    /\ upload = "created" /\ upload' = "tasking" /\ NoFault
    /\ UNCHANGED <<xapi, vdiUuid, cleaning, choice, cancelled, reported>>

GetUuid ==
    /\ upload = "created"
    /\ \/ Fault /\ upload' = "halted" /\ Says({"upload"}) /\ UNCHANGED vdiUuid
       \/ NoFault /\ upload' = "tasking" /\ vdiUuid' = "put" /\ UNCHANGED reported
    /\ UNCHANGED <<xapi, cleaning, choice, cancelled>>

-----------------------------------------------------------------------------
(* HTTPUpload.                                                             *)

CreateTask ==
    /\ upload = "tasking"
    /\ \/ Fault /\ upload' = "halted" /\ UNCHANGED task
       \/ NoFault /\ upload' = "sending" /\ task' = "pending"
       \/ Fault /\ upload' = "halted" /\ task' = "destroyed"
    /\ UNCHANGED <<vdi, content, import, hold, vdiUuid, cleaning, choice, cancelled, reported>>

(* HTTPUpload returns an error: the connection is gone, its deferred call  *)
(* destroys the task, and the step halts.  An error of that call is        *)
(* dropped and the task stays in the pool; as nothing looks at the task    *)
(* any more, it counts as destroyed here.                                  *)
UploadBreaks ==
    /\ upload' = "halted" /\ task' = "destroyed"
    /\ IF import = "reading"
       THEN import' = "breaking" /\ hold' \in 0 .. MaxHold
       ELSE UNCHANGED <<import, hold>>
    /\ UNCHANGED <<vdi, content, vdiUuid, cleaning, choice, cancelled, reported>>

(* The PUT is answered, with 200 or not, or fails. *)
Do ==
    /\ upload = "sending"
    /\ \/ /\ import # "none" /\ NoFault /\ upload' = "waiting"
          /\ UNCHANGED <<xapi, vdiUuid, cleaning, choice, cancelled, reported>>
       \/ Fault /\ UploadBreaks

(* Careless forms: a task that is not pending any more is done; an         *)
(* interrupt is nothing the wait looks for.                                *)
TaskNotPending == task # "pending"
NoReason == task \in {"failure", "cancelled"} /\ NoFault

TaskSucceeded == task = "success"

WaitEndsWell ==
    /\ upload = "waiting" /\ TaskSucceeded
    /\ upload' = "asking" /\ NoFault
    /\ UNCHANGED <<xapi, vdiUuid, cleaning, choice, cancelled, reported>>

(* The predicate reads a bad status, or the interrupt is seen.             *)
Reason == (task \in {"failure", "cancelled"} \/ cancelled) /\ NoFault

WaitEndsBadly == upload = "waiting" /\ Reason /\ UploadBreaks

(* A status cannot be read, or the 24 hours are over. *)
WaitGivesUp == upload = "waiting" /\ Fault /\ UploadBreaks

GetResult ==
    /\ upload = "asking" /\ task' = "destroyed"
    /\ \/ Fault /\ upload' = "halted"
       \/ NoFault /\ upload' = "continued"
    /\ UNCHANGED <<vdi, content, import, hold, vdiUuid, cleaning, choice, cancelled, reported>>

-----------------------------------------------------------------------------
(* XAPI.                                                                   *)

Status(s) == task' = IF task = "pending" THEN s ELSE task

ImportBegins ==
    /\ upload = "sending" /\ import = "none"
    /\ import' = "reading"
    /\ UNCHANGED <<upload, vdi, content, task, hold, vdiUuid, cleaning, choice,
                   cancelled, faults, reported>>

ImportReads ==
    /\ import = "reading" /\ content # "whole"
    /\ content' = IF content = "none" THEN "part" ELSE "whole"
    /\ UNCHANGED <<upload, vdi, task, import, hold, vdiUuid, cleaning, choice,
                   cancelled, faults, reported>>

ImportEnds ==
    /\ import = "reading" /\ content = "whole"
    /\ import' = "over" /\ Status("success")
    /\ UNCHANGED <<upload, vdi, content, hold, vdiUuid, cleaning, choice,
                   cancelled, faults, reported>>

(* The storage is full, or somebody cancels the task. *)
ImportFails ==
    /\ import = "reading" /\ Fault
    /\ import' = "over" /\ (Status("failure") \/ Status("cancelled"))
    /\ UNCHANGED <<upload, vdi, content, hold, vdiUuid, cleaning, choice,
                   cancelled, reported>>

(* A second passes for an import that is breaking. *)
SecondPasses ==
    /\ import = "breaking"
    /\ IF hold = 0 THEN import' = "over" /\ UNCHANGED hold
       ELSE hold' = hold - 1 /\ UNCHANGED import
    /\ UNCHANGED <<upload, vdi, content, task, vdiUuid, cleaning, choice,
                   cancelled, faults, reported>>

-----------------------------------------------------------------------------
(* StepUploadVdi.Cleanup.                                                  *)

CleanupUpload ==
    /\ upload \in {"continued", "halted"}
    /\ \/ /\ choice.keep \/ vdiUuid = "none"
          /\ upload' = "clean" /\ NoFault /\ UNCHANGED <<heldFor, reported>>
       \/ /\ ~choice.keep /\ vdiUuid = "put"
          /\ \/ Fault /\ upload' = "clean" /\ Says({"upload"}) /\ UNCHANGED heldFor
             \/ NoFault /\ upload' = "destroying" /\ heldFor' = hold /\ UNCHANGED reported
    /\ UNCHANGED <<xapi, vdiUuid, tries, choice, cancelled>>

(* Careless form of Tries. *)
TwoTries == 2

Tries == 3

(* A try that fails is followed by a second of sleep, the last one too.    *)
DestroyVdi ==
    /\ upload = "destroying" /\ tries < Tries
    /\ \/ /\ hold = 0 /\ NoFault
          /\ vdi' = "destroyed" /\ vdiUuid' = "cleared" /\ upload' = "clean"
          /\ UNCHANGED <<hold, tries>>
       \/ /\ (hold > 0 /\ NoFault) \/ Fault
          /\ tries' = tries + 1 /\ hold' = IF hold = 0 THEN 0 ELSE hold - 1
          /\ UNCHANGED <<vdi, vdiUuid, upload>>
    /\ UNCHANGED <<content, task, import, heldFor, choice, cancelled, reported>>

TriesAreOver ==
    /\ upload = "destroying" /\ tries = Tries
    /\ upload' = "clean" /\ Says({"upload"})
    /\ UNCHANGED <<xapi, vdiUuid, cleaning, choice, cancelled, faults>>

RunUpload ==
    CreateVdi \/ GetUuid \/ CreateTask \/ Do \/ WaitEndsWell \/ WaitEndsBadly \/ GetResult
UnwindUpload == CleanupUpload \/ DestroyVdi \/ TriesAreOver
Import == ImportBegins \/ ImportReads \/ ImportEnds \/ ImportFails \/ SecondPasses
=============================================================================
