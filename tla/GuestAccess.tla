---------------------------- MODULE GuestAccess ----------------------------
(***************************************************************************)
(* A configuration on its way through a build, as far as it decides how    *)
(* the guest is reached and stopped: Prepare, the two searches for a free  *)
(* port (find_port.go), the HTTP server, the forwarding of a local port    *)
(* over SSH (ssh.go), StepShutdown with its shutdown_command, the format   *)
(* of the export and the policy the cleanups ask for.                      *)
(*                                                                         *)
(* Beside the builder's goroutine run the accept loop of the forwarded     *)
(* port with one goroutine per connection, other programs on the machine   *)
(* (they take ports and connect to the forwarded one), and the guest.      *)
(***************************************************************************)
EXTENDS ConfigPrepare

CONSTANTS
    RawConfigs,     \* the configurations Decode may deliver
    TakenAtFirst,   \* the sets of ports that other programs may listen on at first
    MaxMoves,       \* bound: ports taken or given up by other programs, keys changed
    MaxFaults       \* bound: calls that fail

ASSUME RawAssumption == RawConfigs \subseteq Config
ASSUME TakenAssumption == TakenAtFirst \subseteq SUBSET (1 .. MaxPort)
ASSUME BoundAssumption == MaxMoves \in Nat /\ MaxFaults \in Nat

Clients == {"shutdown_command", "other"}
Servers == {"http", "forward"}

VARIABLES
    config,         \* the builder's config, filled in by Prepare
    pc,             \* where the builder's goroutine is
    port,           \* the loop variable of FindPort
    held,           \* held[s]: the port server s listens on, 0 for none
    stray,          \* the servers for which port 0, any port, was listened on
    taken,          \* the ports other programs listen on
    keyFile,        \* what is in the file ssh_key_path names
    sshAddress,     \* "ssh_address" in the bag: the host's, "" or "missing"
    sshPort,        \* "ssh_port" in the bag, with its Go type
    localSshPort,   \* "local_ssh_port" in the bag, 0 before it is put
    conn,           \* conn[x]: the connection of x to the forwarded port
    accepting,      \* the accept loop of the forwarded port runs
    vm,             \* the VM's power state
    stopped,        \* history: who stopped the VM
    faults, moves   \* history: failed calls, moves of the environment

sockets == <<port, held, stray>>
addresses == <<sshAddress, sshPort, localSshPort>>
tunnel == <<conn, accepting>>
machine == <<vm, stopped>>
world == <<taken, keyFile, moves>>
vars == <<config, pc, sockets, addresses, tunnel, machine, world, faults>>

NoPort == [kind |-> "none", value |-> 0]

Init ==
    /\ config \in RawConfigs
    /\ pc = "prepare" /\ port = 0
    /\ held = [s \in Servers |-> 0] /\ stray = {}
    /\ taken \in TakenAtFirst
    /\ keyFile \in IF config.SSHKeyPath THEN KeyFiles ELSE {"absent"}
    /\ sshAddress = "missing" /\ sshPort = NoPort /\ localSshPort = 0
    /\ conn = [x \in Clients |-> "none"] /\ accepting = FALSE
    /\ vm = "running" /\ stopped = "nobody"
    /\ faults = 0 /\ moves = 0

NoFault == UNCHANGED faults
Fault == faults < MaxFaults /\ faults' = faults + 1

(* The step halts the build. *)
Halt == pc' = "unwind"

-----------------------------------------------------------------------------
Prepare ==
    /\ pc = "prepare"
    /\ config' = Prepared(config)
    /\ pc' = IF PrepareErrors(config, keyFile) = {} THEN "http" ELSE "refused"
    /\ UNCHANGED <<sockets, addresses, tunnel, machine, world, faults>>

(* FindPort, one round of its loop at a time. *)
First(s) == IF s = "http" THEN config.Ports.HTTPPortMin ELSE config.Ports.HostPortMin
Last(s) == IF s = "http" THEN config.Ports.HTTPPortMax ELSE config.Ports.HostPortMax

(* Careless forms of NextPort, without the width of a uint, and of Found.  *)
NextPortWide(p) == p + 1
FoundNext(p) == p + 1

NextPort(p) == (p + 1) % (MaxUint + 1)
Found(p) == p

(* A port of 0 stands for any free port. *)
MayListen(p) == p = 0 \/ p \in (1 .. MaxPort) \ (taken \cup {held[s] : s \in Servers})

Searching == [http |-> "http_search", forward |-> "forward_search"]
Search(s) == pc = Searching[s]
BeginSearch(s) == pc' = Searching[s] /\ port' = First(s)

TryPort(s) ==
    /\ Search(s) /\ port <= Last(s)
    /\ \/ /\ ~MayListen(port) /\ NoFault
       \/ Fault
    /\ port' = NextPort(port)
    /\ UNCHANGED <<config, pc, held, stray, addresses, tunnel, machine, world>>

(* The loop is through, or port 0 was listened on. *)
NoPortFound(s) ==
    /\ Search(s)
    /\ \/ port > Last(s) /\ UNCHANGED stray
       \/ port = 0 /\ stray' = stray \cup {s}
    /\ Halt
    /\ UNCHANGED <<config, port, held, addresses, tunnel, machine, world, faults>>

HttpPort ==
    /\ Search("http") /\ port <= Last("http") /\ port # 0 /\ MayListen(port)
    /\ held' = [held EXCEPT !["http"] = Found(port)]
    /\ pc' = "address"
    /\ UNCHANGED <<config, port, stray, addresses, tunnel, machine, world, faults>>

StepHTTPServer ==
    /\ pc = "http"
    /\ \/ ~config.HTTPDir /\ pc' = "address" /\ UNCHANGED port
       \/ config.HTTPDir /\ BeginSearch("http")
    /\ UNCHANGED <<config, held, stray, addresses, tunnel, machine, world, faults>>

(* The errors of GetResidentOn and GetAddress are shown and dropped.       *)
StepSetVmHostSshAddress ==
    /\ pc = "address"
    /\ \/ Fault /\ Halt /\ UNCHANGED addresses
       \/ /\ (NoFault /\ sshAddress' = "host") \/ (Fault /\ sshAddress' = "")
          /\ sshPort' = [kind |-> "uint", value |-> config.Ports.HostSshPort]
          /\ pc' = "forward"
          /\ UNCHANGED localSshPort
    /\ UNCHANGED <<config, sockets, tunnel, machine, world>>

-----------------------------------------------------------------------------
(* The forwarded port.                                                     *)

StepForwardPortOverSSH ==
    /\ pc = "forward" /\ BeginSearch("forward")
    /\ UNCHANGED <<config, held, stray, addresses, tunnel, machine, world, faults>>

ForwardPort ==
    /\ Search("forward") /\ port <= Last("forward") /\ port # 0 /\ MayListen(port)
    /\ held' = [held EXCEPT !["forward"] = Found(port)]
    /\ localSshPort' = Found(port) /\ accepting' = TRUE
    /\ pc' = "shutdown"
    /\ UNCHANGED <<config, port, stray, sshAddress, sshPort, conn, machine, world, faults>>

(* The comma-ok form of a type assertion: the zero value for another type. *)
Int(v) == IF v.kind = "int" THEN v.value ELSE 0

HostAnswers ==
    sshAddress = "host" /\ Int(sshPort) = config.Ports.HostSshPort

(* Careless forms of AcceptLoop and Forward: one connection is all the     *)
(* loop serves; the connection stays open when the host does not answer.   *)
AcceptOnce(x) ==
    /\ accepting /\ conn[x] = "pending"
    /\ \A y \in Clients : conn[y] \in {"none", "pending"}
    /\ conn' = [conn EXCEPT ![x] = "accepted"]
    /\ UNCHANGED <<config, pc, sockets, addresses, accepting, machine, world, faults>>
ForwardLeaks(x) ==
    /\ conn[x] = "accepted" /\ HostAnswers
    /\ conn' = [conn EXCEPT ![x] = "linked"]
    /\ UNCHANGED <<config, pc, sockets, addresses, accepting, machine, world, faults>>

(* ssh_port_forward, a round of its loop.                                  *)
AcceptLoop(x) ==
    /\ accepting /\ conn[x] = "pending"
    /\ conn' = [conn EXCEPT ![x] = "accepted"]
    /\ UNCHANGED <<config, pc, sockets, addresses, accepting, machine, world, faults>>

(* Its two returns: Accept fails, and what is pending stays so, or         *)
(* get_remote_dest does, and the connection just accepted is neither       *)
(* served nor closed.  The listener stays open in both, so that others may *)
(* still connect.  (InstanceSSHIP, the get_remote_dest of both builders,   *)
(* returns no error.)                                                      *)
AcceptLoopFails ==
    /\ accepting /\ Fault /\ accepting' = FALSE
    /\ \/ UNCHANGED conn
       \/ \E x \in Clients :
             conn[x] = "pending" /\ conn' = [conn EXCEPT ![x] = "abandoned"]
    /\ UNCHANGED <<config, pc, sockets, addresses, machine, world>>

(* forward dials the host, then the guest; when either fails it closes the *)
(* connection it was given.  What follows once both are there, two copies  *)
(* and a wait for both, is one state.                                      *)
Forward(x) ==
    /\ conn[x] = "accepted"
    /\ conn' = [conn EXCEPT ![x] = IF HostAnswers THEN "linked" ELSE "closed"]
    /\ UNCHANGED <<config, pc, sockets, addresses, accepting, machine, world, faults>>

-----------------------------------------------------------------------------
(* StepShutdown.                                                           *)

Shutdown ==
    /\ pc = "shutdown"
    /\ \/ Fault /\ Halt /\ UNCHANGED conn
       \/ /\ ~config.ShutdownCommand
          /\ NoFault /\ pc' = "clean_shutdown" /\ UNCHANGED conn
       \/ /\ config.ShutdownCommand /\ config.SSHKeyPath /\ ~FileSigner(keyFile)
          /\ NoFault /\ pc' = "hard_shutdown" /\ UNCHANGED conn
       \/ /\ config.ShutdownCommand /\ (config.SSHKeyPath => FileSigner(keyFile))
          /\ NoFault /\ pc' = "command"
          /\ conn' = [conn EXCEPT !["shutdown_command"] = "pending"]
    /\ UNCHANGED <<config, sockets, addresses, accepting, machine, world>>

(* The command has run and the VM has halted, or the handshake has met a   *)
(* connection that is closed.  The Dial before has no timeout: while       *)
(* nobody serves or closes the connection it does not return.              *)
CommandReturns ==
    /\ pc = "command" /\ conn["shutdown_command"] \in {"linked", "closed"}
    /\ IF conn["shutdown_command"] = "linked" /\ vm = "running"
       THEN pc' = "export" /\ vm' = "halted" /\ stopped' = "command"
       ELSE pc' = "hard_shutdown" /\ UNCHANGED machine
    /\ UNCHANGED <<config, sockets, addresses, tunnel, world, faults>>

CleanShutdown ==
    /\ pc = "clean_shutdown"
    /\ \/ /\ vm = "running" /\ NoFault /\ pc' = "export"
          /\ vm' = "halted" /\ stopped' = "clean"
       \/ /\ (vm = "halted" /\ NoFault) \/ Fault
          /\ pc' = "hard_shutdown" /\ UNCHANGED machine
    /\ UNCHANGED <<config, sockets, addresses, tunnel, world>>

HardShutdown ==
    /\ pc = "hard_shutdown"
    /\ \/ /\ vm = "running" /\ NoFault /\ pc' = "export"
          /\ vm' = "halted" /\ stopped' = "hard"
       \/ /\ (vm = "halted" /\ NoFault) \/ Fault
          /\ Halt /\ UNCHANGED machine
    /\ UNCHANGED <<config, sockets, addresses, tunnel, world>>

-----------------------------------------------------------------------------
(* The end of the build.                                                   *)

(* StepExport panics when it does not know the format ... *)
StepExport ==
    /\ pc = "export"
    /\ pc' = IF config.Format \in Formats THEN "unwind" ELSE "panicked"
    /\ UNCHANGED <<config, sockets, addresses, tunnel, machine, world, faults>>

(* Careless form of Closed: nobody closes the HTTP server's listener.      *)
ClosedNone == {}

(* The cleanups close the listener of the HTTP server only.                *)
Closed == {"http"}

(* ... and ShouldKeepVM when it does not know the policy.                  *)
Unwind ==
    /\ pc = "unwind"
    /\ IF config.KeepVM \in Policies
       THEN /\ pc' = "over"
            /\ held' = [s \in Servers |-> IF s \in Closed THEN 0 ELSE held[s]]
            /\ stray' = stray \ Closed
       ELSE pc' = "panicked" /\ UNCHANGED <<held, stray>>
    /\ UNCHANGED <<config, port, addresses, tunnel, machine, world, faults>>

-----------------------------------------------------------------------------
(* The rest of the world.                                                  *)

Moves == moves < MaxMoves /\ moves' = moves + 1

OtherTakesPort(p) ==
    /\ Moves /\ p \notin taken /\ p \notin {held[s] : s \in Servers}
    /\ taken' = taken \cup {p}
    /\ UNCHANGED <<config, pc, sockets, addresses, tunnel, machine, keyFile, faults>>

OtherFreesPort(p) ==
    /\ Moves /\ p \in taken
    /\ taken' = taken \ {p}
    /\ UNCHANGED <<config, pc, sockets, addresses, tunnel, machine, keyFile, faults>>

KeyFileChanges ==
    /\ Moves /\ config.SSHKeyPath /\ keyFile' \in KeyFiles \ {keyFile}
    /\ UNCHANGED <<config, pc, sockets, addresses, tunnel, machine, taken, faults>>

OtherConnects ==
    /\ held["forward"] # 0 /\ conn["other"] = "none"
    /\ conn' = [conn EXCEPT !["other"] = "pending"]
    /\ UNCHANGED <<config, pc, sockets, addresses, accepting, machine, world, faults>>

(* The VM is unpaused after StepSetVmHostSshAddress. *)
GuestHalts ==
    /\ sshAddress # "missing"
    /\ vm = "running" /\ vm' = "halted" /\ stopped' = "guest"
    /\ UNCHANGED <<config, pc, sockets, addresses, tunnel, world, faults>>

Builder ==
    \/ Prepare \/ StepHTTPServer \/ HttpPort \/ StepSetVmHostSshAddress
    \/ StepForwardPortOverSSH \/ ForwardPort
    \/ \E s \in Servers : TryPort(s) \/ NoPortFound(s)
    \/ Shutdown \/ CommandReturns \/ CleanShutdown \/ HardShutdown
    \/ StepExport \/ Unwind
Forwarding(x) == AcceptLoop(x) \/ Forward(x)
Environment ==
    \/ \E p \in 1 .. MaxPort : OtherTakesPort(p) \/ OtherFreesPort(p)
    \/ KeyFileChanges \/ OtherConnects \/ GuestHalts

Next ==
    \/ Builder \/ Environment
    \/ (\E x \in Clients : Forwarding(x)) \/ AcceptLoopFails

Spec == Init /\ [][Next]_vars

(* Goroutines that can run do, and their calls return; the accept loop     *)
(* takes what is pending unless it fails, and nothing makes it fail.       *)
FairSpec == Spec /\ WF_vars(Builder) /\ \A x \in Clients : WF_vars(Forwarding(x))
-----------------------------------------------------------------------------
(* Properties.                                                             *)

Places == {"prepare", "refused", "http", "http_search", "address", "forward",
           "forward_search", "shutdown", "command", "clean_shutdown",
           "hard_shutdown", "export", "unwind", "over", "panicked"}

Stages == {"none", "pending", "accepted", "linked", "closed", "abandoned"}

(* Every variable keeps its type; the loop variable of FindPort is a uint. *)
TypeOK ==
    /\ config \in Config /\ pc \in Places
    /\ port \in Port /\ held \in [Servers -> 0 .. MaxPort] /\ stray \subseteq Servers
    /\ taken \subseteq 1 .. MaxPort /\ keyFile \in KeyFiles
    /\ sshAddress \in {"missing", "host", ""}
    /\ sshPort \in [kind : {"none", "uint"}, value : Port]
    /\ localSshPort \in 0 .. MaxPort
    /\ conn \in [Clients -> Stages] /\ accepting \in BOOLEAN
    /\ vm \in {"running", "halted"}
    /\ stopped \in {"nobody", "guest", "command", "clean", "hard"}
    /\ faults \in 0 .. MaxFaults /\ moves \in 0 .. MaxMoves

(* A configuration that Prepare lets pass never meets a panic further on:  *)
(* every format StepExport knows and every policy ShouldKeepVM knows is    *)
(* spelled the same in Prepare, which lets no other through.               *)
NeverPanics == pc # "panicked"

Through == pc \notin {"prepare", "refused"}

(* What the steps take for granted holds of every configuration that has   *)
(* passed: the disks have a name and a size, the VM no more vCPUs at its   *)
(* start than at most, the ranges of ports are not empty and begin above   *)
(* 0, there is an ISO, with a name or a URL, or one image to start from.   *)
PassedIsComplete ==
    Through =>
        /\ config.builder = "iso" =>
             /\ config.Disks # <<>>
             /\ \A i \in DOMAIN config.Disks :
                   config.Disks[i].Name # "" /\ config.Disks[i].Size > 0
             /\ (config.ISOName # "") \/ (config.ISOUrls # <<>>)
             /\ config.InstallTimeout \notin {"", "soon"}
        /\ config.builder = "xva" => (config.SourcePath = "") # (config.CloneTemplate = "")
        /\ config.VCPUsAtStartup \in 1 .. config.VCPUsMax /\ config.VMMemory > 0
        /\ \A s \in Servers : First(s) \in 1 .. Last(s)

(* The port in the bag is one of the range that was asked for, and it is   *)
(* this build that listens on it, no other program and not its own HTTP    *)
(* server, however the two ranges overlap and whatever the others take     *)
(* between two rounds of FindPort.  (In a range that ends with the greatest *)
(* uint the loop wraps around: see SocketsLeft.)                           *)
ForwardIsOurs ==
    localSshPort # 0 =>
        /\ localSshPort = held["forward"] /\ localSshPort # held["http"]
        /\ localSshPort \in First("forward") .. Last("forward") \/ Last("forward") = MaxUint
        /\ localSshPort \notin taken

(* A build that is over listens on the forwarded port at most, which       *)
(* nobody closes; any other socket left is that of a range that ends with  *)
(* the greatest uint, where FindPort wraps around to port 0.               *)
SocketsLeft ==
    pc = "over" =>
        /\ held["http"] = 0
        /\ stray # {} => stray = {"forward"} /\ config.Ports.HostPortMax = MaxUint

(* The build ends: FindPort comes to the end of its range although a uint  *)
(* wraps around, and StepShutdown waits on no connection that its own      *)
(* forwarding has accepted and does not close.  There is one place where   *)
(* the build may hang: the Dial of the shutdown command, when the accept   *)
(* loop has returned on an error and left its listener open.               *)
AccessEnds ==
    \/ <>(pc \in {"refused", "over", "panicked"})
    \/ <>[](/\ pc = "command" /\ ~accepting
           /\ conn["shutdown_command"] \in {"pending", "abandoned"})

(* A connection to the forwarded port is accepted, also when the build is  *)
(* over and only the accept loop is left, unless that loop has returned on *)
(* an error; what it has handed to forward is served or closed even then.  *)
ConnectionsEnd ==
    \A x \in Clients :
        /\ conn[x] = "pending" ~> conn[x] \in {"linked", "closed"} \/ ~accepting
        /\ conn[x] = "accepted" ~> conn[x] \in {"linked", "closed"}

(* docs: shutdown_command is "the command to use to gracefully shut down   *)
(* the machine": with no call failing, the key readable and the guest up,  *)
(* it is what stops the VM.                                                *)
DocShutdownCommand ==
    pc = "export" /\ config.ShutdownCommand /\ faults = 0 /\ moves = 0
        => stopped = "command"
=============================================================================
