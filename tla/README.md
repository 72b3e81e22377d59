# A TLA+ model of the XenServer packer plugin

The plugin holds two packer builders, `xenserver-iso` (install a VM from an ISO)
and `xenserver-xva` (start from a VM that is there).  Each turns a configuration
into a list of steps, runs them against a XenServer pool, and rolls back what a
failed or cancelled build has made.  This directory models that program in TLA+,
checks the model with TLC, and proves its safety with TLAPS.

## The system

| component | state | operations | what makes it correct |
|---|---|---|---|
| Step runner (`multistep.BasicRunner`, driven by `iso/builder.go`, `xva/builder.go`) | the steps run so far, the context, the flags `cancelled` and `halted` in the state bag | run a step, stop at a halt or a cancellation, call `Cleanup` last step first | it always ends; a cancelled build yields no artifact |
| State bag | the keys the steps leave for each other | `Put`, `Get` with a type assertion | no assertion meets a missing key, in `Run` or in `Cleanup` |
| VM instance (`step_create_instance.go`, `step_start_vm_paused.go`, `step_boot_wait.go`, `step_shutdown.go`, `vm_cleanup.go`) | the VM's power state, its disks and VBDs | clone, add disks, start paused, unpause, shut down, destroy | whatever call fails, nothing of the VM is left unless kept or reported |
| Media VDIs (`step_upload_vdi.go`, `step_find_vdi.go`, `step_find_or_upload_vdi.go`, `step_attach_vdi.go`, `step_detach_vdi.go`) | the VDIs, the `*_vdi_uuid` keys, the VBDs | upload or find, attach, detach, destroy | uploads go, VDIs of the pool stay, a kept image has empty drives |
| Template rotation (`step_manage_template.go`, `step_set_vm_to_template.go`) | the templates of the build's name | list, destroy with `-force`, turn the VM into one | old templates go late, only under `-force`, never the new one |
| Export and output (`step_export.go`, `step_prepare_output_dir.go`, `artifact.go`) | the output directory and its files | create, download, delete on failure | an artifact has a directory with an export in it |
| `keep_vm` policy (`common_config.go`) | the policy and the two flags | `ShouldKeepVM`, asked by every cleanup | all cleanups of a build agree |
| Interruptible wait (`interruptible_wait.go`) | a timer, a polling goroutine, a channel | `Wait` | ends by predicate, timeout or interrupt |
| IP discovery (`step_wait_for_ip.go`, `step_http_server.go`) | getter goroutine, snooper's channel of one, `instance_ssh_address` | snoop, poll, wait | the step goes on with an address of the guest |
| SSH forwarding (`step_set_vm_host_ssh_address.go`, `step_forward_port_over_ssh.go`, `ssh.go`, `find_port.go`) | a listener, one pair of goroutines per connection | search a port, accept, forward | the port in the bag is ours; a connection is served or closed while the accept loop runs |
| HTTP upload (`http_upload.go`) | an XAPI task, the PUT | upload, poll the task, destroy it | the step goes on only when the whole image is there |
| Networks and export formats (`step_create_instance.go`, `step_export.go`, `client.go`) | the VIFs, the Transfer VM's exposures, the files | connect, replace, expose, download | the networks and the disks are those that were asked for |
| Configuration (`Prepare` of both builders, `common_config.go`, `ssh_config.go`) | the configuration | defaults, validation | what passes can be run |

They interact through the state bag (steps), through the pool (every step), and
through two flags that the runner writes and every cleanup reads.  Several actors
move at once: the builder's goroutine; the packer core, which cancels the
context at any moment, together with the runner's second goroutine, which then
writes `cancelled` whenever it is scheduled; the guest, which may power itself
off and gets its addresses as it likes; the goroutines that a step leaves running
(a poller, the HTTP handler, the IP getter, the accept loop and its connections);
XAPI's import, which reads the body of a PUT; and other programs on packer's
machine, which take ports.  Every call to XAPI, to the guest or to the file system may fail,
and a step gives up at the first that does.  These failures in the middle of a
step, and the flag that appears in the middle of a cleanup, are what a unit test
hardly reaches; the list `hazards` of `PROJECT.json` gives each at its line.

## The modules

* `BuildRunner`: the configuration (`Config`, the choices of `common_config.go`
  and `config.go` that change a build), all variables, `ShouldKeepVM`, and the
  runner.  `StartStep` enters a step's `Run`; the step's own action is the return
  of `Run`; between the two the other actors may act.  `Proceeds` and `Halts` are
  the two `StepAction`s with what the runner does about them.  `BreakOnCancel`,
  `AllStepsRan` and `BuilderReturns` are the rest of its loop and the end of
  `Builder.Run`; `Cancel`, `MarkCancelled` and `GuestHalts` are the environment.
* `BuildSteps`: one action for the `Run` of each step and one for each `Cleanup`
  that does anything.  A `Run` is one action with one outcome per way it can
  return: how many of its calls had succeeded, what it has put into the bag.
* `Pipelines`: the two step lists as functions of the configuration.
* `BuildPipeline`: `Init`, `Next`, `Spec`, `FairSpec`, all properties, and the
  assumptions on the order of the steps that the proofs use (`Puts` and `Needs` say
  which step puts and which asserts a key).
* `BuildContract`: what a build promises, in four steps: it makes objects, turns
  round, takes objects away (none under `always`), and returns when the policy is
  met.  `BuildPipeline` instantiates it as `Contract`; `Owned` and `Stage` map a
  build's pool and runner to its objects and its stage.
* `InterruptibleWait`: the waits of a build, one after another, each with the
  goroutine in `Wait` (`waiter`) and the one that calls the Predicate (`poller`),
  their channel of one, `stopWaiting` and the timer.  One action per case of each
  `select`.  `WaitContract` is what a step may rely on: every outcome has its
  reason, the Predicate has one last word, a wait begun after the interrupt is
  interrupted, and a wait with a reason to be over returns.  `InterruptibleWait`
  instantiates it as `Contract`; `stage` and `spoken` are its view of `waiter`,
  `late` and `verdict`.
* `IpDiscovery`: the HTTP handler that drops what the channel has no room for, the
  getter goroutine that is never stopped, the step that waits and writes back, and
  a guest that gets its addresses as it likes.  The wait inside is used by its
  contract: the Predicate's last reading, or an end by timeout or interrupt.
* `ConfigPrepare`: `Prepare` of both builders as operators on a configuration: the
  defaults (`Prepared`) and the rules (`PrepareErrors`), one operator per function of
  the source.  A configuration is the decoded `Config` without the texts that no rule
  looks into.
* `GuestAccess`: such a configuration on its way through a build.  `Prepare`; the two
  searches of `FindPort`, a round at a time and with the width of a `uint`; the HTTP
  server; the host's address and port with the Go type they have in the bag; the
  listener, `AcceptLoop` and `Forward` for each connection, and the two ways in which the
  loop may return on an error while its listener stays open (`AcceptLoopFails`);
  `StepShutdown` with `shutdown_command`, whose Dial waits for that connection as long as
  nobody serves or closes it; and the two places that panic on a word they do not know.
* `Transfer`, `VdiUpload`, `MachineExport`, `Transfers`: what goes in and out of the
  pool, call by call.  `VdiUpload` is `StepUploadVdi` and `HTTPUpload` beside XAPI's
  import, which may answer the PUT before the body is through and holds the VDI for
  some seconds when its connection breaks.  `MachineExport` is the clone with its
  disks and VIFs, the other networks of the export, each format, and the Transfer VM
  of old hosts.  `Transfers` runs one after the other under the runner, with the
  cancelled flag and the cleanups in reverse order.  `Transfer` holds what both share.
* `MCBuild`, `MCWait`, `MCIp`, `MCAccess`, `MCTransfers`: the instances TLC explores.
* `BuildPipelineProofs`, `RollbackProofs`, `OrderProofs`, `ContractProofs`,
  `InterruptibleWaitProofs`, `IpDiscoveryProofs`, `AccessProofs`, `TransferProofs`: the
  theorems.

How they fit together.  `BuildPipeline` has the whole pipeline with one action per
`Run`; the other modules open single actions up, and `BuildSteps` has the outcomes
they justify:

| action of `BuildSteps` | opened up in | outcomes justified by |
|---|---|---|
| every step that waits | `InterruptibleWait` | its contract |
| `StepWaitForIP` | `IpDiscovery` | `AddressStays`: it continues with an address |
| `StepUploadVdi` | `VdiUpload` | `UploadIsWhole`, `NothingLeft`: a whole VDI, or one in the bag or in a message |
| `StepCreateInstance`, `StepExport` | `MachineExport` | `NothingLeft`, `EveryDiskExported` |
| `StepForwardPortOverSSH`, `StepShutdown` | `GuestAccess` | `ForwardIsOurs`, `AccessEnds` |

State and code of the pipeline: `keys` are the plain keys of the state bag, `media[k]` the value
of `<k>_vdi_uuid` (`"cleared"` is the empty string a cleanup leaves), `attachRef`
the `StepAttachVdi` objects whose field `vdi` is set, `vdis`/`vbds`/`templates`
the pool, `vm`/`isTemplate` the build's VM, `outputDir`/`exported` the local disk.
`faults`, `reported`, `lateMark` and `provisioned` are history: the number of failed
calls, the objects a message said could not be removed or traced, whether the
`cancelled` flag was written after the cleanup had begun, and whether `StepProvision`
has returned `ActionContinue`.

The actions suffixed "careless form" in the comments (`UploadThenPut`,
`KeepOnFailure`, `FlagWithoutBreak`, `NextPortWide`, ...) are not part of any specification.  They
are plausible bugs; each property has one that it rejects (`mutants` in
`PROJECT.json`).

## What TLC checks

| run | what it shows | size |
|---|---|---|
| `MCBuild.cfg` | ten properties of builds of both builders, the contract among them | 674 000 states |
| `MCBuildLive.cfg` | a build ends; a cancelled one has no artifact | 98 000 states |
| `MCWait.cfg` | three waits keep their contract, their goroutines end | 412 states |
| `MCIp.cfg` | the address in the bag, for each `ip_getter`; one sign of the guest is enough; stale ones are overcome | 126 000 states |
| `MCAccess.cfg` | 91 configurations: what passes can be run, the ports are ours, connections and searches end | 302 000 states |
| `MCTransfers.cfg` | uploads, networks and exports: nothing half done is taken for done, nothing is left unnamed | 32 000 states |
| `DocInterrupted.cfg` | a wait that is interrupted may return something else than its comment says | violated |
| `DocShutdownCommand.cfg` | `shutdown_command` never reaches the guest: the port it is forwarded to is read with the wrong type and is 0 | violated |
| `DocOnSuccess.cfg`, `DocKeepOnlyOnSuccess.cfg`, `DocGoldenImage.cfg`, `DocExport.cfg` | four places where a build does not do what its documentation says | violated |

The properties, in the order of their weight:

* `CleanRollback`: a build that the policy wants rolled back leaves nothing of its
  own in the pool that no message has named.  `Accounted` is the same promise at
  every moment: each object has its cleanup to come or has been named.
* `LibraryIntact`: what was in the pool before stays there, but for an ISO given by
  URL that the pool had under the same name (the code destroys it like an upload).
* `KeptImageIsWhole`: an artifact's kept VM is halted, has its disks, is a template
  if asked for, and has no media in its drives.
* `NoPanic`: no type assertion on the bag fails, in particular in cleanups of steps
  that failed half way.
* `MeetsContract` of `BuildPipeline`: all the steps and cleanups behave as the four
  steps of the contract; nothing is made once the build has turned round, nothing is
  taken away under `always`, and no build returns before its policy is met.
* `UploadIsWhole`: a VM is made only of an upload that is whole and over, whatever was
  answered to the PUT.  `NothingLeft`: what stays in the pool has been named, at
  whatever call or second it broke off.  `RetriesCover`: the three tries of the cleanup
  are enough for an import that lets go within two seconds.  `CancelEnds`: a cancelled
  build ends.
* `NetworksAsAsked`, `EveryDiskExported`, `ExposureEnds`: the VIFs the provisioners and
  the export meet, a file for each disk and none for the media, no disk left exposed.
* `PassedIsComplete`, `NeverPanics`: `Prepare` checks all that the steps take for granted.
* `ForwardIsOurs`, `SocketsLeft`, `AccessEnds`, `ConnectionsEnd`: the forwarded port is
  this build's own while other programs take ports; what still listens when a build is
  over; the search ends though a `uint` wraps around; a connection waits for ever only
  if the accept loop has returned on an error.  `AccessEnds` names the one hang there is:
  the Dial of `shutdown_command` (`ssh.go:69`) after `Accept` has failed
  (`ssh.go:174`).  The code neither closes the listener there nor gives the Dial a
  timeout; that the build ends otherwise is what the property says.
* `MeetsContract` of `InterruptibleWait`, `NilIsQuiet`, `PollersEnd`: `Wait` tells the truth and returns, also
  when its timeout of 24 hours never fires; a step never reads what a Predicate is
  still writing; no goroutine is left for good.
* `AddressStays`, `BagFollowsGetter`, `KnownIsFound`, `GetterConverges`: the steps after
  `StepWaitForIP` always have an address, of the kind asked for; it is the last one
  learnt but for the write-back of `step_wait_for_ip.go:102`, which may undo a newer
  one until the guest moves again; one request in the channel is not lost; stale
  addresses are overcome by a guest that goes on talking.
* `OldTemplatesGoLast`: a template of an earlier build goes only under `-force`, once the
  provisioners have succeeded on the new image and it is halted, and never the new image
  with them.  (That the build may still fail after that is `DocGoldenImage`.)
* `ArtifactIsThere`, `AlwaysKeeps`, `Terminates`,
  `CancelStopsBuild`: see their comments.

Bounds.  `MaxFaults` is the number of calls that fail in one build: three lets a
step fail, a cleanup after it fail, and one more failure (a media that could not
be detached) happen before; one is enough to force every early return once and is
used for liveness and the counterexamples.  Two disks make a partial creation
with one disk plugged and one not.  The eight ISO and five XVA configurations of
`MCBuild` take
each policy, `-force` and not, ISO by name and by URL (also found in the pool),
tools, CD and floppy, export and none, one and two old templates, and a template
with a disk of its own.  The pipelines are not shortened.
Three waits let a goroutine that was left behind run beside the next wait, and
have one without a Predicate between two with one.  `MaxMoves` is how often the
guest gets an address: with three the channel, the metrics, the getter and the
step can each hold another one.
`MCAccess` scales the ports down: 6 stands for 65535, 8 for the greatest `uint`, and
the defaults keep their order; ranges overlap, are inverted, lie beyond the ports of
TCP and end with the greatest `uint`, where `port++` wraps around to 0.  Its 91
configurations take each word a rule knows and one it does not, each form of disks,
vCPUs, ISO and image, and each rule once broken; two failing calls and one move of
another program (a port, the key file) are enough for each search to lose a port it
has just passed.  `MCTransfers` has 58 choices of names, formats, hosts and pools;
names of one network, of two and of none; an import that holds its VDI for up to
three seconds (`MaxHold`), one more than the tries outlast; and three failing calls.

Fairness.  `FairSpec` has weak fairness of the builder's goroutine alone: a Go
goroutine that can run does, and every call it makes returns, because XAPI calls
answer, `InterruptibleWait` has a timeout wherever it is used (`install_timeout`,
five minutes, 24 hours), and the SDK's waits have theirs.  Nothing is assumed of
cancellations, of the flag's writer or of the guest.  `InterruptibleWait` adds
strong fairness of the cases of a `select` other than the tick: the channels of
the result, of the timeout and of `stopWaiting` stay ready, and Go chooses at random
among the ready cases.  No timer is assumed to fire.  `IpDiscovery` has weak
fairness of the getter and of the step; `GetterConverges` states what it needs of
the guest (`GuestTalks`) as its hypothesis.  `GuestAccess` has weak fairness of the
builder, of the accept loop and of the goroutine of each connection, none of the guest,
of the other programs, or of `AcceptLoopFails`.  Of the calls that are taken to return
the Dial of `shutdown_command` is the one that another part of the same program has to
answer: `GuestAccess` models that wait and finds it endless when the accept loop has
failed, whereas `Terminates` of `BuildPipeline` takes `StepShutdown` to return.  `Transfers` has it of the builder and of one step of XAPI, that it begins to
read the PUT: the HTTP client has no timeout, and `CancelEnds` would fail without it.
The GET of a download and the run of the `xe` program do not look at the cancelled flag
either; the fairness of the builder has them return.
Nothing makes the 24 hours pass or a call fail (`GivesUp`).
Deadlock is not checked where a system may come to rest: `MCWait` when all waits are
over, `MCIp` when the guest is silent, `MCAccess` when a build is over.

## What is proved

Every safety invariant and every action property of the passing runs is a theorem; the
runs show it on a small instance, TLAPS for every value of the constants.

For every set of configurations, every pipeline that is a sequence of steps
(`PipelineAssumption`) and downloads no ISO that is given by name
(`DownloadAssumption`), any set of disks and any number of faults:

* `TypeCorrect`: `Spec => []TypeOK`;
* `NothingForgotten`, `RolledBack`: `Spec => []Accounted`, `Spec => []CleanRollback`;
* `LibrarySafe`: `Spec => []LibraryIntact`;
* `KeepsAlways`: `Spec => AlwaysKeeps`;
* `BuildKeepsContract`: `Spec => MeetsContract`, the refinement of `BuildContract`;
* `EndIsInSight`: each step of the builder's goroutine leaves fewer of them
  (`StepsLeft`), and nobody else adds one;
* `CancelledHasNoArtifact`: `Spec /\ Terminates => CancelStopsBuild`.

For the pipelines among these in which a step comes after those that put the keys it
asserts (`KeysAssumption`), there is an output directory and an export
(`ExportAssumption`), templates are listed before the VM is made and cleaned up after it
was provisioned and shut down (`TemplateAssumption`), the VM is made with its disks and turned into a
template later (`ImageAssumption`), and a media is attached once and detached after that
(`MediaAssumption`):

* `KeysNeverMissed`: `Spec => []NoPanic`;
* `ArtifactHasExport`: `Spec => []ArtifactIsThere`;
* `TemplatesGoLast`: `Spec => OldTemplatesGoLast`;
* `KeptImages`: `Spec => []KeptImageIsWhole`.

That the code's own pipelines are such (`SoundPipeline`) is no matter of the few
configurations of `MCBuild`: the step lists depend on three choices (the builder,
`iso_name`, `skip_set_template`), and TLC evaluates the assumptions on all eight
(`ShapesAssumption`).

For any sequence of waits, and for any addresses, gateways and moves of the guest:

* `WaitTypeCorrect`, `NilMeansQuiet`: `Spec => []TypeOK`, `Spec => []NilIsQuiet`;
* `KeepsContract`: `Spec => Contract!Spec`, the refinement without its fairness;
* `DiscoveryTypeCorrect`, `AddressIsThere`, `BagFollows`: `Spec => []TypeOK`,
  `Spec => []AddressStays`, `Spec => []BagFollowsGetter`.

For any raw configurations, any numbering of ports (`PortAssumption`: the defaults are
ports, their ranges not empty, and a `uint` goes beyond 65535), any number of failing
calls and of moves of other programs:

* `AccessTypeCorrect`: `Spec => []TypeOK`;
* `PassedComplete`, `NeverPanicking`: `Spec => []PassedIsComplete`, `Spec => []NeverPanics`;
* `ForwardOurs`, `SocketsLeftOver`: `Spec => []ForwardIsOurs`, `Spec => []SocketsLeft`;
* `BuildMovesOn`: each step of the builder is a round of `FindPort` less (`RoundsLeft`) or
  a place further (`PlacesLeft`), and nothing else undoes one.

For any choices, networks and disks, any number of failing calls, and however long an
import holds its VDI:

* `TransfersTypeCorrect`: `Spec => []TypeOK`;
* `WholeUpload`, `NothingUnnamed`: `Spec => []UploadIsWhole`, `Spec => []NothingLeft`;
* `RetriesOutlast`: `Spec => []RetriesCover`;
* `NetworksInOrder`: `Spec => []NetworksAsAsked`;
* `DisksFound`, `DisksExported`, `ExposureOver`: what `GetDisks` returns,
  `Spec => []EveryDiskExported`, `Spec => []ExposureEnds`.

The invariant of the waits (`InStep`) ties the two goroutines of one wait together:
what is in the channel is the Predicate's last word, said by a goroutine that has
ended.  It speaks of one wait at a time, and a step of one wait leaves the others
alone (`LeftAlone`).  That of the discovery follows an address from the guest to the
bag (`Sources`) and keeps the order in which getter and step can come to it (`Order`).

`CleanRollback` speaks of builds that are over and is not inductive.  `Accounted`
says what holds before: while the build runs, or unwinds without a kept VM, each
object is one whose cleanup is still on the runner's stack, or was reported.  It is
preserved by a `Run` because the step that creates is itself on the stack, and by
a cleanup because the cleanup that leaves the stack removes its object or reports
it.  The one cleanup that does neither is that of an ISO given by its name, and
there `MediaOrigin` shows that nothing had been uploaded.  When the build has
returned the stack is empty, and `CleanRollback` is what is left.  No order of the
steps is assumed: these theorems hold of any pipeline one may put together.

The contract follows from the same invariant: a `Run` only makes objects, a cleanup
only takes them away, and the one step that could return too early is excluded by
`CleanRollback`.  The theorems about the order rest on what the steps that are
`Through` have left behind: their keys (`KeysLeft`), the directory and the export
(`ExportKept`), a provisioned and halted VM and a list of templates without it
(`TemplatesInv`).

`KeptImageIsWhole` speaks of artifacts too, and of a media that four steps have handled.
Its invariant (`ImageInv`) counts: a VDI has no more VBDs than media keys hold it
(`Holders`: the keys that name it, whose `StepAttachVdi` is through and whose
`StepDetachVdi` is not), unless a message has named it (`MediaHeld`).  Counting is needed
because two keys may name one VDI.  The order of the pipeline makes the holders none
at the end.  From there on the image is `Whole`, and the cleanups of a build that keeps
its VM, which has no flag in its bag, take nothing back.

`PassedIsComplete` is a statement about the operators of `ConfigPrepare`
(`PreparedComplete`): the defaults and the rules together leave no configuration that a
step could not use; after that nothing writes the configuration (`ConfigFixed`).  The
invariant of the sockets (`SocketInv`) says where the loop variable of `FindPort` can
be: in the range, or anywhere if the range ends with the greatest `uint`.  There the
search ends because port 0 can be listened on unless a call fails; `RoundsLeft` counts
one turn around for each call that may still fail.

That of an upload (`TransferInv`) says who knows that the import is through, and where
the VDI's UUID is until it is destroyed or named.  `HoldInv` counts its seconds: each try
that failed for no other reason has taken one.  The loops have invariants
of their own over `next`: the names before it are connected (`NetworkInv`; the VIFs of the
template, the management network and the export's names succeed one another), the
disks before it have their files and nothing else has one (`FileInv`), and at most the
disk of this round is exposed (`ExposureInv`).  `FileInv` needs `GetDisks` to be what its
loop collects: `DisksFound` proves it of the recursive function `Round` for any number
of VBDs, from the least number for which it would fail, as the library's induction
takes an operator for its parameter and cannot be used here.

Model-checked only: liveness, which needs `ENABLED` and fairness and is beyond the prover
(`Terminates`, `CancelStopsBuild` without its hypothesis, `PollersEnd`, `KnownIsFound`,
`GetterConverges`, `AccessEnds`, `ConnectionsEnd`, `CancelEnds`, and the fairness of
`MeetsContract` of `InterruptibleWait`).  `EndIsInSight` and `BuildMovesOn` are what safety
has to say of `Terminates` and `AccessEnds`: there is no way round in a circle, so that all
they take from fairness is that the builder goes on; that it always can, in `GuestAccess`
but for the one Dial, is what the runs add.

## What is not modelled

* Lost replies: an XAPI call has happened or it has not.
* Disks that belong to a cloned template (`clone_disk`): the code never destroys
  them, and no statement of the repository says it should.  `CleanRollback` leaves
  them out by name.
* Panics of the code in states that `NoPanic` and `NeverPanics` exclude; tags, memory,
  platform arguments and descriptions, which are calls that may fail and change nothing
  else; the `sr_name` of a single disk, as the model has one storage repository.
* The text typed at the console (`step_type_boot_command.go`): the step has its outcomes.
* The error of `Task.Destroy` (`http_upload.go:37`): the code drops it, and as nothing
  looks at the task afterwards it counts as destroyed; a task left in the pool's list is
  no object of `NothingLeft`.
* The two copies of `forward` (`ssh.go`): they are one state of a connection.  As
  `ssh_port` is read as 0 no run of the program gets there.
* `install_timeout` of an XVA build, which is neither given a default nor parsed
  (`XvaDefaults`): a wait that times out at once is among the behaviours of
  `InterruptibleWait`.
* Two builds at once.  Nothing in the code coordinates them; the names of templates and
  ISOs are looked up in a pool that the model lets only one build change.
* `Expose` asks the Transfer VM plugin, which is not in the repository; a call that it
  refuses is one of the failures of the action.
* Two texts differ from the code and no property is about them: the documented default
  of `boot_wait` (10 s, the code has 5 s), and the name of a single disk without a name.
* `stepImportInstance` beyond its early return: a configuration has a `source_path`
  or a `clone_template`, never both, and without the latter `StepCreateInstance`
  finds no template and halts the build before the import.
* `step_start_on_himn.go`, `step_get_vnc_port.go`: no builder uses them.
  `config.hcl2spec.go`: generated.  `main.go`, `version.go`: no state.

## Plan

Done: the order of the first plan (the pipeline, the waits, the discovery of the
address, the forwarding, the upload, the configuration, the contract of a build), and
a proof of each safety property.  Left, in this order:

1. What safety has to say of the other liveness properties, as for `Terminates` and
   `AccessEnds`: measures for the waits, for the transfers and for the getter.
2. Two builds of one name in one pool, if the code comes to coordinate them.
3. The copies of `forward` one by one, when the port is read with its type.
