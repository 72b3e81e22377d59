---------------------------- MODULE IpDiscovery ----------------------------
(***************************************************************************)
(* How a build learns its guest's address (step_wait_for_ip.go,            *)
(* step_http_server.go).  The guest's requests to the HTTP server leave    *)
(* their sender in a channel of one; a goroutine of StepWaitForIP, which   *)
(* nothing ever stops, takes it from there or asks the XenServer tools,    *)
(* and puts it into the state bag; the step waits until it is in the bag   *)
(* and writes it back.  The steps that follow read the bag at each use.    *)
(***************************************************************************)
EXTENDS Naturals, Sequences

CONSTANTS
    Addresses,      \* addresses the guest may get
    Gateways,       \* other senders of requests: NAT in front of the guest
    IPGetters,      \* values of ip_getter
    MaxMoves        \* bound: how often the guest gets an address

ASSUME AddressAssumption ==
    /\ IPGetters \subseteq {"auto", "http", "tools"} /\ MaxMoves \in Nat
    /\ {"missing", ""} \cap (Addresses \cup Gateways) = {}

VARIABLES
    IPGetter,       \* config.IPGetter
    guest,          \* the guest's address, "" before it has one
    moves,          \* how often it got one
    metrics,        \* networks["0/ip"] of the guest metrics
    httpReqChan,    \* the channel of one
    asked, told,    \* history: senders of requests, addresses in the metrics
    getter,         \* the getter goroutine: none, starting, looping
    getterIp,       \* its variable ip
    sshAddress,     \* state bag's instance_ssh_address
    step,           \* StepWaitForIP: idle, waiting, found, continued, halted
    stepIp          \* its variable ip, written by the Predicate

guestVars == <<IPGetter, guest, moves, metrics, asked, told>>
vars == <<guestVars, httpReqChan, getter, getterIp, sshAddress, step, stepIp>>

Init ==
    /\ IPGetter \in IPGetters
    /\ guest = "" /\ moves = 0 /\ metrics = ""
    /\ httpReqChan = <<>>
    /\ asked = {} /\ told = {}
    /\ getter = "none" /\ getterIp = ""
    /\ sshAddress = "missing"
    /\ step = "idle" /\ stepIp = ""

-----------------------------------------------------------------------------
(* The guest, its tools, and the handler of its requests.                  *)

GuestMoves ==
    /\ moves < MaxMoves /\ moves' = moves + 1
    /\ guest' \in Addresses \ {guest}
    /\ UNCHANGED <<IPGetter, metrics, asked, told, httpReqChan, getter, getterIp,
                   sshAddress, step, stepIp>>

ToolsReport ==
    /\ guest # ""
    /\ metrics' = guest /\ told' = told \cup {guest}
    /\ UNCHANGED <<IPGetter, guest, moves, asked, httpReqChan, getter, getterIp,
                   sshAddress, step, stepIp>>

(* Careless forms of Snoop: a channel without a buffer, where a request    *)
(* finds no receiver, and one without a bound.                             *)
SnoopUnbuffered(ip) == UNCHANGED httpReqChan
SnoopUnbounded(ip) == httpReqChan' = Append(httpReqChan, ip)

(* An address that finds the channel full is dropped. *)
Snoop(ip) ==
    httpReqChan' = IF httpReqChan = <<>> THEN <<ip>> ELSE httpReqChan

ServeHTTP ==
    /\ guest # ""
    /\ \E ip \in {guest} \cup Gateways :
       Snoop(ip) /\ asked' = asked \cup {ip}
    /\ UNCHANGED <<IPGetter, guest, moves, metrics, told, getter, getterIp,
                   sshAddress, step, stepIp>>

-----------------------------------------------------------------------------
(* The getter goroutine.                                                   *)

GetterStarts ==
    /\ getter = "starting" /\ getter' = "looping"
    /\ sshAddress' = ""
    /\ UNCHANGED <<guestVars, httpReqChan, getterIp, step, stepIp>>

(* Careless forms of Learn: the ip that is set is a new variable of the    *)
(* inner block, and the getter learns only once.                           *)
LearnShadowed(ip) ==
    getterIp' = getterIp /\ sshAddress' = IF ip # getterIp THEN ip ELSE sshAddress
LearnOnce(ip) ==
    IF getterIp = "" THEN getterIp' = ip /\ sshAddress' = ip
    ELSE UNCHANGED <<getterIp, sshAddress>>

(* An address that is news goes into the bag. *)
Learn(ip) ==
    /\ getterIp' = ip
    /\ sshAddress' = IF ip # getterIp THEN ip ELSE sshAddress

Snoops == getter = "looping" /\ IPGetter \in {"auto", "http"} /\ httpReqChan # <<>>

TakeSnooped ==
    /\ Snoops
    /\ Learn(Head(httpReqChan)) /\ httpReqChan' = Tail(httpReqChan)
    /\ UNCHANGED <<guestVars, getter, step, stepIp>>

(* A request goes before the tools, which are not asked in its round.  A   *)
(* call that fails is made again in the next round.                        *)
AskTools ==
    /\ getter = "looping" /\ IPGetter \in {"auto", "tools"} /\ ~Snoops
    /\ metrics \notin {"", getterIp} /\ Learn(metrics)
    /\ UNCHANGED <<guestVars, httpReqChan, getter, step, stepIp>>

-----------------------------------------------------------------------------
(* StepWaitForIP.Run.                                                      *)

StepRuns ==
    /\ step = "idle" /\ step' = "waiting"
    /\ getter' = "starting"
    /\ UNCHANGED <<guestVars, httpReqChan, getterIp, sshAddress, stepIp>>

(* Careless form of Found: any string will do. *)
FoundString == sshAddress # "missing"

Found == sshAddress \notin {"missing", ""}

(* The Predicate reads the bag; its last reading is what Run goes on with. *)
Predicate ==
    /\ step = "waiting" /\ Found
    /\ stepIp' = sshAddress /\ step' = "found"
    /\ UNCHANGED <<guestVars, httpReqChan, getter, getterIp, sshAddress>>

(* The wait is over by the Predicate: its address is put back. *)
Continues ==
    /\ step = "found" /\ step' = "continued"
    /\ sshAddress' = stepIp
    /\ UNCHANGED <<guestVars, httpReqChan, getter, getterIp, stepIp>>

(* The VM is not found, or the wait is over by install_timeout or by an    *)
(* interrupt, which may come before the Predicate's result is taken.       *)
Fails ==
    /\ step \in {"idle", "waiting", "found"} /\ step' = "halted"
    /\ UNCHANGED <<guestVars, httpReqChan, getter, getterIp, sshAddress, stepIp>>

Getter == GetterStarts \/ TakeSnooped \/ AskTools
WaitForIP == StepRuns \/ Predicate \/ Continues
Next == GuestMoves \/ ToolsReport \/ ServeHTTP \/ Getter \/ WaitForIP \/ Fails

Spec == Init /\ [][Next]_vars

(* The step and the goroutine are never kept from running, and the calls   *)
(* for the metrics do not fail for ever.  The guest need do nothing.       *)
FairSpec == Spec /\ WF_vars(Getter) /\ WF_vars(WaitForIP)

-----------------------------------------------------------------------------
(* Properties.                                                             *)

(* Every variable keeps its type. *)
TypeOK ==
    /\ IPGetter \in IPGetters
    /\ guest \in Addresses \cup {""} /\ moves \in 0 .. MaxMoves
    /\ metrics \in Addresses \cup {""}
    /\ httpReqChan \in {<<>>} \cup {<<a>> : a \in Addresses \cup Gateways}
    /\ asked \in SUBSET (Addresses \cup Gateways) /\ told \in SUBSET Addresses
    /\ getter \in {"none", "starting", "looping"}
    /\ getterIp \in Addresses \cup Gateways \cup {""}
    /\ sshAddress \in Addresses \cup Gateways \cup {"", "missing"}
    /\ step \in {"idle", "waiting", "found", "continued", "halted"}
    /\ stepIp \in Addresses \cup Gateways \cup {""}

(* Once the step has gone on, the bag always has an address for the steps  *)
(* that assert it is a string and dial it, whatever the getter still does; *)
(* and the address has come the way ip_getter asks for.                    *)
AddressStays ==
    step = "continued" =>
        sshAddress \in (IF IPGetter = "tools" THEN {} ELSE asked)
                       \cup (IF IPGetter = "http" THEN {} ELSE told)

(* The bag has what the getter has last learnt.  The exception is the      *)
(* address the step wrote back over a newer one: it stays until the getter *)
(* learns yet another.                                                     *)
BagFollowsGetter ==
    getter = "looping" =>
        sshAddress = getterIp \/ (step = "continued" /\ sshAddress = stepIp)

(* An address that the guest has made known in the way ip_getter asks for  *)
(* gets the step to the end of its wait; one request is enough, also one   *)
(* made while no goroutine was there to receive it.                        *)
Known == \/ IPGetter # "tools" /\ asked # {}
         \/ IPGetter # "http" /\ metrics # ""
KnownIsFound == Known ~> step \in {"continued", "halted"}

(* A guest that keeps making requests, no longer through a gateway, and has *)
(* its tools report, and whose address has settled, has it known to the    *)
(* getter, for good: neither the stale address in a full channel nor older *)
(* metrics come back.                                                      *)
Direct == httpReqChan' \in {httpReqChan, <<>>, <<guest>>}
GuestTalks == WF_vars(ServeHTTP) /\ WF_vars(ToolsReport) /\ <>[][Direct]_vars
GetterConverges == GuestTalks => <>[](getter = "none" \/ getterIp = guest)
=============================================================================
