---------------------------- MODULE AccessProofs ----------------------------
(***************************************************************************)
(* What Prepare promises of the configurations it lets pass, and what the  *)
(* searches for a port promise of the sockets, for every set of raw        *)
(* configurations, every numbering of ports and any number of faults; and  *)
(* that a build only ever goes on.                                         *)
(***************************************************************************)
EXTENDS GuestAccess, TLAPS

(* The steps of Prepare one by one: what each leaves as it is.             *)
LEMMA CommonType ==
    ASSUME NEW c \in Config
    PROVE  /\ CommonDefaults(c) \in Config
           /\ CommonDefaults(c).builder = c.builder
<1> USE PortAssumption
<1> DEFINE disk == [Name |-> c.DiskName, Size |-> c.DiskSize, SRName |-> c.SrName]
<1>1. SingleDisk(c) \in Seq(Disk)
  <2>1. c.Disks \in Seq(Disk) /\ disk \in Disk
    BY DEF Config, Disk
  <2>2. SingleDisk(c) \in {c.Disks, <<disk>>}
    BY DEF SingleDisk
  <2> HIDE DEF disk
  <2>3. <<disk>> \in Seq(Disk)
    BY <2>1
  <2> QED
    BY <2>1, <2>2, <2>3
<1>2. [o \in PortOptions |-> CommonPort(c, o)] \in [PortOptions -> Port]
  BY DEF CommonPort, OrN, Config, Port
<1>3. /\ Or(c.RawBootWait, "5s") \in Durations
      /\ Or(c.RawDhcpWait, "500ms") \in Durations
  BY DEF Or, Config, Durations
<1>4. /\ Or(c.Format, "xva") \in Text /\ Or(c.KeepVM, "never") \in Text
      /\ Or(c.IPGetter, "auto") \in Text
  BY TextAssumption DEF Or, Config
<1> QED
  BY <1>1, <1>2, <1>3, <1>4 DEF CommonDefaults, Config

LEMMA SshType ==
    ASSUME NEW c \in Config
    PROVE  /\ SshDefaults(c) \in Config
           /\ SshDefaults(c).builder = c.builder
           /\ SshDefaults(c).Format = c.Format
           /\ SshDefaults(c).KeepVM = c.KeepVM
<1> USE PortAssumption
<1>1. [o \in PortOptions |-> OrN(c.Ports[o], Default[o])] \in [PortOptions -> Port]
  BY DEF OrN, Config, Port
<1> QED
  BY <1>1 DEF SshDefaults, Config

LEMMA MachineType ==
    ASSUME NEW c \in Config
    PROVE  /\ MachineDefaults(c) \in Config
           /\ MachineDefaults(c).Format = c.Format
           /\ MachineDefaults(c).KeepVM = c.KeepVM
           /\ MachineDefaults(c).Ports = c.Ports
           /\ MachineDefaults(c).builder = c.builder
           /\ MachineDefaults(c).ISOName = c.ISOName
           /\ MachineDefaults(c).SourcePath = c.SourcePath
           /\ MachineDefaults(c).CloneTemplate = c.CloneTemplate
           /\ MachineDefaults(c).VCPUsAtStartup \in 1 .. MachineDefaults(c).VCPUsMax
           /\ MachineDefaults(c).VMMemory > 0
<1>1. /\ OrN(c.VCPUsMax, 1) \in Nat \ {0} /\ OrN(c.VCPUsAtStartup, 1) \in Nat \ {0}
      /\ OrN(c.VMMemory, 1024) \in Nat \ {0}
  BY DEF OrN, Config
<1> DEFINE start == IF OrN(c.VCPUsAtStartup, 1) > OrN(c.VCPUsMax, 1)
                    THEN OrN(c.VCPUsMax, 1) ELSE OrN(c.VCPUsAtStartup, 1)
<1>2. start \in Nat /\ start \in 1 .. OrN(c.VCPUsMax, 1)
  BY <1>1
<1> HIDE DEF start
<1>3. MachineDefaults(c) = [c EXCEPT !.VCPUsMax = OrN(@, 1), !.VCPUsAtStartup = start,
                                     !.VMMemory = OrN(@, 1024)]
  BY DEF MachineDefaults, start, Config
<1> DEFINE most == OrN(c.VCPUsMax, 1)
           memory == OrN(c.VMMemory, 1024)
<1>4. /\ most \in Nat \ {0} /\ start \in Nat /\ start \in 1 .. most
      /\ memory \in Nat \ {0}
  BY <1>1, <1>2
<1> HIDE DEF most, memory
<1>5. MachineDefaults(c) = [c EXCEPT !.VCPUsMax = most, !.VCPUsAtStartup = start,
                                     !.VMMemory = memory]
  BY <1>3 DEF most, memory, Config
<1>6. MachineDefaults(c) \in Config
  <2>1. most \in Nat /\ start \in Nat /\ memory \in Nat
    BY <1>4
  <2> QED
    <3>1. [c EXCEPT !.VCPUsMax = most, !.VCPUsAtStartup = start, !.VMMemory = memory]
            \in Config
      BY <2>1 DEF Config
    <3> QED
      BY <1>5, <3>1
<1>7. /\ MachineDefaults(c).Format = c.Format
      /\ MachineDefaults(c).KeepVM = c.KeepVM
      /\ MachineDefaults(c).Ports = c.Ports
      /\ MachineDefaults(c).builder = c.builder
      /\ MachineDefaults(c).ISOName = c.ISOName
      /\ MachineDefaults(c).SourcePath = c.SourcePath
      /\ MachineDefaults(c).CloneTemplate = c.CloneTemplate
      /\ MachineDefaults(c).VCPUsAtStartup = start
      /\ MachineDefaults(c).VCPUsMax = most
      /\ MachineDefaults(c).VMMemory = memory
  BY <1>5 DEF Config
<1> QED
  BY <1>4, <1>6, <1>7

LEMMA OneOf ==
    ASSUME NEW S, NEW d \in S
    PROVE  /\ <<d>> \in Seq(S) /\ <<d>> # <<>>
           /\ \A i \in DOMAIN <<d>> : <<d>>[i] = d
  OBVIOUS

LEMMA DiskNamed ==
    ASSUME NEW name \in Text, name # "", NEW size \in Nat, size > 0, NEW sr \in Text
    PROVE  LET d == [Name |-> name, Size |-> size, SRName |-> sr] IN
           d \in Disk /\ d.Name # "" /\ d.Size > 0
  BY DEF Disk

(* Every disk of an ISO build has a name and a size.                       *)
LEMMA IsoDisksNamed ==
    ASSUME NEW c \in Config
    PROVE  /\ IsoDisks(c) \in Seq(Disk) /\ IsoDisks(c) # <<>>
           /\ \A i \in DOMAIN IsoDisks(c) :
                  IsoDisks(c)[i].Name # "" /\ IsoDisks(c)[i].Size > 0
<1> DEFINE list == c.Disks
           disks == IsoDisks(c)
<1>1. list \in Seq(Disk) /\ c.DiskName \in Text /\ c.DiskSize \in Nat
      /\ c.SrName \in Text
  BY DEF Config
<1>2. ASSUME NEW d \in Disk
      PROVE  NamedDisk(d, c) \in Disk /\ NamedDisk(d, c).Name # ""
             /\ NamedDisk(d, c).Size > 0
  <2>1. d.Name \in Text /\ d.Size \in Nat /\ d.SRName \in Text
    BY DEF Disk
  <2> DEFINE name == Or(d.Name, "Packer-disk-N")
             size == OrN(d.Size, 40000)
             sr == Or(d.SRName, c.SrName)
  <2>2. name \in Text /\ name # "" /\ sr \in Text
    BY <1>1, <2>1, TextAssumption DEF Or
  <2>3. size \in Nat /\ size > 0
    BY <2>1 DEF OrN
  <2>4. NamedDisk(d, c) = [Name |-> name, Size |-> size, SRName |-> sr]
    BY DEF NamedDisk
  <2> HIDE DEF name, size, sr
  <2>5. LET new == [Name |-> name, Size |-> size, SRName |-> sr] IN
        new \in Disk /\ new.Name # "" /\ new.Size > 0
    BY <2>2, <2>3, DiskNamed
  <2> QED
    BY <2>4, <2>5
<1>3. CASE list # <<>>
  <2>1. DOMAIN list = 1 .. Len(list) /\ Len(list) \in Nat \ {0}
    BY <1>1, <1>3
  <2>2. disks = [i \in 1 .. Len(list) |-> NamedDisk(list[i], c)]
    BY <1>3, <2>1 DEF IsoDisks
  <2>3. \A i \in 1 .. Len(list) : list[i] \in Disk
    BY <1>1
  <2> HIDE DEF disks, list
  <2>4. \A i \in 1 .. Len(list) : disks[i] \in Disk /\ disks[i].Name # "" /\ disks[i].Size > 0
    BY <1>2, <2>2, <2>3
  <2>5. disks \in [1 .. Len(list) -> Disk]
    BY <2>2, <2>4
  <2>6. disks \in Seq(Disk) /\ Len(disks) = Len(list) /\ DOMAIN disks = 1 .. Len(list)
    BY <2>1, <2>5
  <2> QED
    BY <2>1, <2>4, <2>6 DEF disks
<1>4. CASE list = <<>>
  <2> DEFINE name == Or(c.DiskName, "Packer-disk")
             size == OrN(c.DiskSize, 40000)
             sr == c.SrName
             d == [Name |-> name, Size |-> size, SRName |-> sr]
  <2>1. name \in Text /\ name # "" /\ sr \in Text
    BY <1>1, TextAssumption DEF Or
  <2>2. size \in Nat /\ size > 0
    BY <1>1 DEF OrN
  <2>3. disks = <<d>>
    BY <1>4 DEF IsoDisks
  <2> HIDE DEF name, size, sr
  <2>4. d \in Disk /\ d.Name # "" /\ d.Size > 0
    BY <2>1, <2>2, DiskNamed
  <2> HIDE DEF d, disks
  <2>5. /\ <<d>> \in Seq(Disk) /\ <<d>> # <<>>
        /\ \A i \in DOMAIN <<d>> : <<d>>[i].Name # "" /\ <<d>>[i].Size > 0
    BY <2>4, OneOf, Zenon
  <2>6. /\ disks \in Seq(Disk) /\ disks # <<>>
        /\ \A i \in DOMAIN disks : disks[i].Name # "" /\ disks[i].Size > 0
    BY <2>3, <2>5, Zenon
  <2> QED
    BY <2>6 DEF disks
<1> QED
  BY <1>3, <1>4

LEMMA IsoType ==
    ASSUME NEW c \in Config
    PROVE  /\ IsoDefaults(c) \in Config
           /\ IsoDefaults(c).Format = c.Format
           /\ IsoDefaults(c).KeepVM = c.KeepVM
           /\ IsoDefaults(c).Ports = c.Ports
           /\ IsoDefaults(c).builder = c.builder
           /\ IsoDefaults(c).VCPUsAtStartup \in 1 .. IsoDefaults(c).VCPUsMax
           /\ IsoDefaults(c).VMMemory > 0
           /\ IsoDefaults(c).Disks = IsoDisks(c)
           /\ IsoDefaults(c).ISOName = c.ISOName
           /\ IsoDefaults(c).ISOUrls = IsoUrls(c)
           /\ c.RawInstallTimeout # "soon" => IsoDefaults(c).InstallTimeout \notin {"", "soon"}
<1> DEFINE machine1 == MachineDefaults(c)
           urls == IsoUrls(c)
           disks == IsoDisks(c)
           timeout == IF c.RawInstallTimeout = "soon" THEN "0s"
                      ELSE Or(c.RawInstallTimeout, "200m")
           raw == Or(machine1.RawInstallTimeout, "200m")
           template == Or(machine1.CloneTemplate, "Other install media")
<1>1. machine1 \in Config /\ machine1.builder = c.builder /\ machine1.ISOName = c.ISOName
  BY MachineType
<1>2. disks \in Seq(Disk)
  BY IsoDisksNamed
<1>3. urls \in Seq(Text)
  <2> DEFINE list == c.ISOUrls
             one == c.ISOUrl
  <2>1. list \in Seq(Text) /\ one \in Text
    BY DEF Config
  <2>2. urls = list \/ urls = <<one>>
    BY DEF IsoUrls
  <2> HIDE DEF list, one, urls
  <2>3. <<one>> \in Seq(Text)
    BY <2>1
  <2> QED
    BY <2>1, <2>2, <2>3, Zenon
<1>4. timeout \in Durations /\ (c.RawInstallTimeout # "soon" => timeout \notin {"", "soon"})
  BY DEF Or, Config, Durations
<1>5. raw \in Durations
  BY <1>1 DEF Or, Config, Durations
<1>6. template \in Text
  BY <1>1, TextAssumption DEF Or, Config
<1>7. IsoDefaults(c) = [machine1 EXCEPT !.RawInstallTimeout = raw, !.InstallTimeout = timeout,
                          !.Disks = disks, !.CloneTemplate = template, !.ISOUrls = urls]
  BY <1>1 DEF IsoDefaults, Config
<1>8. /\ machine1.Format = c.Format /\ machine1.KeepVM = c.KeepVM
      /\ machine1.Ports = c.Ports
      /\ machine1.VCPUsAtStartup \in 1 .. machine1.VCPUsMax /\ machine1.VMMemory > 0
  BY MachineType
<1> HIDE DEF machine1, urls, disks, timeout, raw, template
<1>9. [machine1 EXCEPT !.RawInstallTimeout = raw, !.InstallTimeout = timeout,
                       !.Disks = disks, !.CloneTemplate = template, !.ISOUrls = urls] \in Config
  BY <1>1, <1>2, <1>3, <1>4, <1>5, <1>6 DEF Config
<1>10. /\ IsoDefaults(c) \in Config
       /\ IsoDefaults(c).Format = machine1.Format
       /\ IsoDefaults(c).KeepVM = machine1.KeepVM
       /\ IsoDefaults(c).Ports = machine1.Ports
       /\ IsoDefaults(c).builder = machine1.builder
       /\ IsoDefaults(c).VCPUsAtStartup = machine1.VCPUsAtStartup
       /\ IsoDefaults(c).VCPUsMax = machine1.VCPUsMax
       /\ IsoDefaults(c).VMMemory = machine1.VMMemory
       /\ IsoDefaults(c).Disks = disks
       /\ IsoDefaults(c).ISOName = machine1.ISOName
       /\ IsoDefaults(c).ISOUrls = urls
       /\ IsoDefaults(c).InstallTimeout = timeout
  BY <1>1, <1>7, <1>9 DEF Config
<1> QED
  BY <1>1, <1>4, <1>8, <1>10 DEF disks, urls

(* What the two validations leave over.                                    *)
LEMMA PassedCommon ==
    ASSUME NEW c \in Config, NEW k, CommonErrors(CommonDefaults(c), k) = {}
    PROVE  /\ Defaulted(c) \in Config /\ Defaulted(c).builder = c.builder
           /\ Defaulted(c).Format \in Formats /\ Defaulted(c).KeepVM \in Policies
           /\ \A s \in Servers :
                LET p == Defaulted(c).Ports IN
                /\ p.HTTPPortMin \in 1 .. p.HTTPPortMax
                /\ p.HostPortMin \in 1 .. p.HostPortMax
<1> USE PortAssumption
<1> DEFINE common == CommonDefaults(c)
<1>1. common \in Config /\ common.builder = c.builder
  BY CommonType
<1>2. common.Format \in Formats /\ common.KeepVM \in Policies
      /\ ~(common.Ports.HostPortMin > common.Ports.HostPortMax)
      /\ ~(common.Ports.HTTPPortMin > common.Ports.HTTPPortMax)
  BY DEF CommonErrors, UnknownNames, Refuse
<1>3. \A o \in {"HostPortMin", "HostPortMax", "HTTPPortMin", "HTTPPortMax"} :
        /\ o \in PortOptions
        /\ common.Ports[o] = OrN(c.Ports[o], Default[o])
        /\ common.Ports[o] \in Nat \ {0}
  <2>1. common.Ports = [o \in PortOptions |-> CommonPort(c, o)]
    BY DEF CommonDefaults, Config
  <2>2. c.Ports \in [PortOptions -> Nat] /\ Default \in [PortOptions -> Nat \ {0}]
    BY DEF Config, Port
  <2> QED
    BY <2>1, <2>2 DEF CommonPort, OrN, PortOptions
<1> HIDE DEF common
<1>4. Defaulted(c) = SshDefaults(common)
  BY DEF Defaulted, common
<1>5. \A o \in {"HostPortMin", "HostPortMax", "HTTPPortMin", "HTTPPortMax"} :
        SshDefaults(common).Ports[o] = common.Ports[o]
  <2>1. SshDefaults(common).Ports = [o \in PortOptions |-> OrN(common.Ports[o], Default[o])]
    BY <1>1 DEF SshDefaults, Config
  <2> QED
    BY <1>3, <2>1 DEF OrN
<1> QED
  BY <1>1, <1>2, <1>3, <1>4, <1>5, SshType

(* What the rules of an ISO build leave over.                              *)
LEMMA PassedIso ==
    ASSUME NEW c \in Config, IsoErrors(c) = {}
    PROVE  /\ c.RawInstallTimeout # "soon"
           /\ c.ISOName # "" \/ IsoUrls(c) # <<>>
<1>1. c.RawInstallTimeout # "soon"
  BY DEF IsoErrors, Refuse
<1>2. ~(c.ISOName = "" /\ c.ISOUrls = <<>> /\ c.ISOUrl = "")
  BY DEF IsoErrors, Refuse
<1>3. CASE c.ISOName = "" /\ c.ISOUrls = <<>>
  <2> DEFINE one == c.ISOUrl
  <2>1. IsoUrls(c) = <<one>>
    BY <1>2, <1>3 DEF IsoUrls
  <2> HIDE DEF one
  <2> QED
    BY <1>1, <2>1
<1>4. CASE c.ISOName = "" /\ c.ISOUrls # <<>>
  BY <1>1, <1>4 DEF IsoUrls
<1> QED
  BY <1>1, <1>3, <1>4

(* The options as a state predicate, for the configuration before Prepare. *)
Complete(c) ==
    /\ c.builder = "iso" =>
         /\ c.Disks # <<>>
         /\ \A i \in DOMAIN c.Disks : c.Disks[i].Name # "" /\ c.Disks[i].Size > 0
         /\ (c.ISOName # "") \/ (c.ISOUrls # <<>>)
         /\ c.InstallTimeout \notin {"", "soon"}
    /\ c.builder = "xva" => (c.SourcePath = "") # (c.CloneTemplate = "")
    /\ c.VCPUsAtStartup \in 1 .. c.VCPUsMax /\ c.VMMemory > 0
    /\ c.Ports.HTTPPortMin \in 1 .. c.Ports.HTTPPortMax
    /\ c.Ports.HostPortMin \in 1 .. c.Ports.HostPortMax

Known(c) == c.Format \in Formats /\ c.KeepVM \in Policies

LEMMA CompleteIsComplete == Complete(config) => PassedIsComplete
  BY DEF Complete, PassedIsComplete, First, Last, Servers

LEMMA PreparedType ==
    ASSUME NEW c \in Config
    PROVE  Prepared(c) \in Config
<1>1. Defaulted(c) \in Config
  BY CommonType, SshType DEF Defaulted
<1> QED
  BY <1>1, IsoType, MachineType DEF Prepared, XvaDefaults

LEMMA PreparedComplete ==
    ASSUME NEW c \in Config, NEW k, PrepareErrors(c, k) = {}
    PROVE  Complete(Prepared(c)) /\ Known(Prepared(c))
<1> DEFINE d == Defaulted(c)
<1>1. CommonErrors(CommonDefaults(c), k) = {}
  BY DEF PrepareErrors
<1>2. /\ d \in Config /\ d.builder = c.builder /\ Known(d)
      /\ d.Ports.HTTPPortMin \in 1 .. d.Ports.HTTPPortMax
      /\ d.Ports.HostPortMin \in 1 .. d.Ports.HostPortMax
  BY <1>1, PassedCommon DEF Known, Servers
<1>3. CASE c.builder = "iso"
  <2>1. IsoErrors(d) = {}
    BY <1>3 DEF PrepareErrors
  <2>2. Prepared(c) = IsoDefaults(d)
    BY <1>3 DEF Prepared
  <2> HIDE DEF d
  <2>3. /\ IsoDefaults(d).Disks = IsoDisks(d)
        /\ IsoDefaults(d).ISOName = d.ISOName /\ IsoDefaults(d).ISOUrls = IsoUrls(d)
        /\ IsoDefaults(d).InstallTimeout \notin {"", "soon"}
        /\ IsoDefaults(d).builder = d.builder
        /\ IsoDefaults(d).VCPUsAtStartup \in 1 .. IsoDefaults(d).VCPUsMax
        /\ IsoDefaults(d).VMMemory > 0
        /\ IsoDefaults(d).Ports = d.Ports /\ IsoDefaults(d).Format = d.Format
        /\ IsoDefaults(d).KeepVM = d.KeepVM
    BY <1>2, <2>1, PassedIso, IsoType
  <2>4. /\ IsoDisks(d) # <<>>
        /\ \A i \in DOMAIN IsoDisks(d) :
              IsoDisks(d)[i].Name # "" /\ IsoDisks(d)[i].Size > 0
    BY <1>2, IsoDisksNamed
  <2>5. d.ISOName # "" \/ IsoUrls(d) # <<>>
    BY <1>2, <2>1, PassedIso
  <2> QED
    BY <1>2, <1>3, <2>2, <2>3, <2>4, <2>5 DEF Complete, Known
<1>4. CASE c.builder = "xva"
  <2>1. XvaErrors(d) = {} /\ Prepared(c) = MachineDefaults(d)
    BY <1>4 DEF PrepareErrors, Prepared, XvaDefaults
  <2> HIDE DEF d
  <2>2. (d.SourcePath = "") # (d.CloneTemplate = "")
    BY <2>1 DEF XvaErrors, Refuse
  <2> QED
    BY <1>2, <1>4, <2>1, <2>2, MachineType DEF Complete, Known
<1> QED
  BY <1>3, <1>4 DEF Config

-----------------------------------------------------------------------------
(* The invariants.                                                         *)

PassedInv == Through => Complete(config) /\ Known(config)

Early == {"prepare", "refused", "http", "http_search", "address", "forward",
          "forward_search"}

(* The loop variable falls below the range only where a uint wraps around; *)
(* the forwarded port is put in the bag once, when the HTTP server has its *)
(* socket, and is the one that is listened on for the rest of the build.   *)
SocketInv ==
    /\ pc = "prepare" => stray = {}
    /\ \A s \in Servers :
          pc = Searching[s] => port >= First(s) \/ Last(s) = MaxUint
    /\ \A s \in stray : Last(s) = MaxUint
    /\ localSshPort = held["forward"]
    /\ pc \in Early => localSshPort = 0
    /\ ForwardIsOurs /\ SocketsLeft

(* The next value of a uint is a uint; it is smaller only at the end.      *)
LEMMA NextPortType ==
    ASSUME NEW p \in Port
    PROVE  /\ NextPort(p) \in Port
           /\ p < MaxUint => NextPort(p) > p
<1> USE PortAssumption
<1>1. p \in Nat /\ MaxUint \in Nat /\ MaxUint + 1 > 0
  BY DEF Port
<1>2. NextPort(p) \in 0 .. MaxUint
  BY <1>1, Z3 DEF NextPort
<1>3. CASE p < MaxUint
  <2>1. (p + 1) % (MaxUint + 1) = p + 1
    BY <1>1, <1>3, Z3
  <2> QED
    BY <1>1, <1>2, <2>1 DEF NextPort, Port
<1> QED
  BY <1>1, <1>2, <1>3 DEF Port

-----------------------------------------------------------------------------
(* Type correctness, one step per action.                                  *)

LEMMA InitType == Init => TypeOK
<1> SUFFICES ASSUME Init PROVE TypeOK
  OBVIOUS
<1> USE PortAssumption, RawAssumption, TakenAssumption, BoundAssumption
<1>1. config \in Config /\ keyFile \in KeyFiles /\ taken \subseteq 1 .. MaxPort
  BY DEF Init, KeyFiles
<1>2. port \in Port /\ held \in [Servers -> 0 .. MaxPort] /\ localSshPort \in 0 .. MaxPort
      /\ sshPort \in [kind : {"none", "uint"}, value : Port]
  BY DEF Init, Port, NoPort
<1>3. faults \in 0 .. MaxFaults /\ moves \in 0 .. MaxMoves
  BY DEF Init
<1> QED
  BY <1>1, <1>2, <1>3 DEF Init, TypeOK, Places, Stages

LEMMA NextType == TypeOK /\ [Next]_vars => TypeOK'
<1> SUFFICES ASSUME TypeOK, [Next]_vars PROVE TypeOK'
  OBVIOUS
<1> USE PortAssumption, BoundAssumption
<1> DEFINE FaultsType == faults' \in 0 .. MaxFaults
<1>1. /\ NoFault => FaultsType /\ faults' = faults
      /\ Fault => FaultsType
      /\ Moves => moves' \in 0 .. MaxMoves
  <2>1. faults \in 0 .. MaxFaults /\ moves \in 0 .. MaxMoves
    BY DEF TypeOK
  <2> QED
    BY <2>1 DEF NoFault, Fault, Moves
<1>2. \A o \in PortOptions : config.Ports[o] \in Port
  BY DEF TypeOK, Config
<1>3. \A s \in Servers : First(s) \in Port /\ Last(s) \in Port
  BY <1>2 DEF First, Last, PortOptions
<1>4. \A s \in Servers : Searching[s] \in Places
  BY DEF Searching, Servers, Places
<1>5. CASE Prepare
  <2>1. config \in Config /\ config' = Prepared(config)
    BY <1>5 DEF Prepare, TypeOK
  <2>2. config' \in Config
    BY <2>1, PreparedType
  <2>3. pc' \in Places
    BY <1>5 DEF Prepare, Places
  <2> QED
    BY <1>5, <2>2, <2>3 DEF Prepare, TypeOK, sockets, addresses, tunnel, machine, world
<1>6. CASE StepHTTPServer
  BY <1>3, <1>4, <1>6
  DEF StepHTTPServer, BeginSearch, TypeOK, Places, Servers, addresses, tunnel, machine, world
<1>7. CASE HttpPort
  <2>1. port \in 0 .. MaxPort
    BY <1>7 DEF HttpPort, MayListen
  <2> QED
    BY <1>7, <2>1
    DEF HttpPort, Found, TypeOK, Places, Servers, addresses, tunnel, machine, world
<1>8. CASE StepSetVmHostSshAddress
  <2>1. config.Ports.HostSshPort \in Port
    BY <1>2 DEF PortOptions
  <2>2. [kind |-> "uint", value |-> config.Ports.HostSshPort]
           \in [kind : {"none", "uint"}, value : Port]
    BY <2>1
  <2>3. /\ sshPort' \in {sshPort, [kind |-> "uint", value |-> config.Ports.HostSshPort]}
        /\ sshAddress' \in {sshAddress, "host", ""} /\ localSshPort' = localSshPort
    BY <1>8 DEF StepSetVmHostSshAddress, addresses
  <2>4. sshPort' \in [kind : {"none", "uint"}, value : Port]
    BY <2>2, <2>3 DEF TypeOK
  <2> QED
    BY <1>1, <1>8, <2>3, <2>4
    DEF StepSetVmHostSshAddress, Halt, TypeOK, Places, sockets, tunnel, machine, world
<1>9. CASE StepForwardPortOverSSH
  BY <1>3, <1>4, <1>9
  DEF StepForwardPortOverSSH, BeginSearch, TypeOK, Servers, addresses, tunnel, machine, world
<1>10. CASE ForwardPort
  <2>1. port \in 0 .. MaxPort
    BY <1>10 DEF ForwardPort, MayListen
  <2> QED
    BY <1>10, <2>1 DEF ForwardPort, Found, TypeOK, Places, Servers, machine, world
<1>11. ASSUME NEW s \in Servers, TryPort(s)
       PROVE  TypeOK'
  BY <1>1, <1>11, NextPortType DEF TryPort, TypeOK, addresses, tunnel, machine, world
<1>12. ASSUME NEW s \in Servers, NoPortFound(s)
       PROVE  TypeOK'
  BY <1>12 DEF NoPortFound, Halt, TypeOK, Places, addresses, tunnel, machine, world
<1>13. CASE Shutdown
  <2>1. conn' \in [Clients -> Stages]
    BY <1>13 DEF Shutdown, TypeOK, Clients, Stages
  <2> QED
    BY <1>1, <1>13, <2>1
    DEF Shutdown, Halt, TypeOK, Places, sockets, addresses, machine, world
<1>14. CASE CommandReturns
  BY <1>14 DEF CommandReturns, TypeOK, Places, sockets, addresses, tunnel, machine, world
<1>15. CASE CleanShutdown
  BY <1>1, <1>15 DEF CleanShutdown, TypeOK, Places, sockets, addresses, tunnel, machine, world
<1>16. CASE HardShutdown
  BY <1>1, <1>16 DEF HardShutdown, Halt, TypeOK, Places, sockets, addresses, tunnel, machine, world
<1>17. CASE StepExport
  BY <1>17 DEF StepExport, TypeOK, Places, sockets, addresses, tunnel, machine, world
<1>18. CASE Unwind
  <2>1. held \in [Servers -> 0 .. MaxPort] /\ stray \subseteq Servers
    BY DEF TypeOK
  <2>2. /\ held' \in {held, [s \in Servers |-> IF s \in Closed THEN 0 ELSE held[s]]}
        /\ stray' \in {stray, stray \ Closed}
    BY <1>18 DEF Unwind
  <2>3. [s \in Servers |-> IF s \in Closed THEN 0 ELSE held[s]] \in [Servers -> 0 .. MaxPort]
    BY <2>1
  <2>4. held' \in [Servers -> 0 .. MaxPort] /\ stray' \subseteq Servers
    BY <2>1, <2>2, <2>3
  <2> QED
    BY <1>18, <2>4 DEF Unwind, TypeOK, Places, addresses, tunnel, machine, world
<1>19. ASSUME NEW x \in Clients, Forwarding(x)
       PROVE  TypeOK'
  <2>1. conn' \in [Clients -> Stages]
    BY <1>19 DEF Forwarding, AcceptLoop, Forward, TypeOK, Stages
  <2> QED
    BY <1>19, <2>1
    DEF Forwarding, AcceptLoop, Forward, TypeOK, sockets, addresses, machine, world
<1>20. CASE AcceptLoopFails
  <2>1. conn' \in [Clients -> Stages]
    BY <1>20 DEF AcceptLoopFails, TypeOK, Stages
  <2> QED
    BY <1>1, <1>20, <2>1 DEF AcceptLoopFails, TypeOK, sockets, addresses, machine, world
<1>21. CASE Environment
  <2>1. ASSUME NEW p \in 1 .. MaxPort, OtherTakesPort(p) \/ OtherFreesPort(p)
        PROVE  TypeOK'
    BY <1>1, <2>1
    DEF OtherTakesPort, OtherFreesPort, TypeOK, sockets, addresses, tunnel, machine
  <2>2. CASE KeyFileChanges
    BY <1>1, <2>2 DEF KeyFileChanges, TypeOK, sockets, addresses, tunnel, machine
  <2>3. CASE OtherConnects
    BY <2>3 DEF OtherConnects, TypeOK, Stages, sockets, addresses, machine, world
  <2>4. CASE GuestHalts
    BY <2>4 DEF GuestHalts, TypeOK, sockets, addresses, tunnel, world
  <2> QED
    BY <1>21, <2>1, <2>2, <2>3, <2>4 DEF Environment
<1>22. CASE UNCHANGED vars
  BY <1>22 DEF vars, TypeOK, sockets, addresses, tunnel, machine, world
<1> QED
  BY <1>5, <1>6, <1>7, <1>8, <1>9, <1>10, <1>11, <1>12, <1>13, <1>14, <1>15, <1>16,
     <1>17, <1>18, <1>19, <1>20, <1>21, <1>22 DEF Next, Builder

(* Every variable keeps its type: the configuration stays a configuration  *)
(* through every default Prepare fills in, and the loop variable a uint.   *)
THEOREM AccessTypeCorrect == Spec => []TypeOK
<1> QED
  BY InitType, NextType, PTL DEF Spec

-----------------------------------------------------------------------------
(* What Prepare lets pass.                                                 *)

(* The configuration is filled in once; nothing changes it afterwards, and *)
(* no step leads back before Prepare.                                      *)
LEMMA ConfigFixed ==
    ASSUME [Next]_vars, ~Prepare
    PROVE  /\ config' = config
           /\ Through' <=> Through
           /\ pc' = "prepare" => pc = "prepare"
           /\ pc' = "panicked" =>
                \/ pc = "panicked"
                \/ pc = "export" /\ config.Format \notin Formats
                \/ pc = "unwind" /\ config.KeepVM \notin Policies
<1>1. ASSUME NEW s \in Servers, TryPort(s) \/ NoPortFound(s)
      PROVE  config' = config /\ pc \in {"http_search", "forward_search"}
             /\ pc' \in {pc, "unwind"}
  BY <1>1 DEF TryPort, NoPortFound, Search, Searching, Servers, Halt
<1>2. CASE \E s \in Servers : TryPort(s) \/ NoPortFound(s)
  BY <1>1, <1>2 DEF Through
<1>3. CASE StepHTTPServer \/ StepForwardPortOverSSH
  BY <1>3
  DEF StepHTTPServer, StepForwardPortOverSSH, BeginSearch, Searching, Through
<1>4. CASE HttpPort \/ ForwardPort
  BY <1>4 DEF HttpPort, ForwardPort, Search, Searching, Through
<1>5. CASE StepSetVmHostSshAddress \/ Shutdown
  BY <1>5 DEF StepSetVmHostSshAddress, Shutdown, Halt, Through
<1>6. CASE CommandReturns \/ CleanShutdown \/ HardShutdown
  BY <1>6 DEF CommandReturns, CleanShutdown, HardShutdown, Halt, Through
<1>7. CASE StepExport \/ Unwind
  BY <1>7 DEF StepExport, Unwind, Through
<1>8. CASE (\E x \in Clients : Forwarding(x)) \/ AcceptLoopFails
  BY <1>8 DEF Forwarding, AcceptLoop, Forward, AcceptLoopFails, Through
<1>9. CASE Environment
  BY <1>9
  DEF Environment, OtherTakesPort, OtherFreesPort, KeyFileChanges, OtherConnects,
      GuestHalts, Through
<1>10. CASE UNCHANGED vars
  BY <1>10 DEF vars, Through
<1> QED
  BY <1>2, <1>3, <1>4, <1>5, <1>6, <1>7, <1>8, <1>9, <1>10 DEF Next, Builder

LEMMA PassedStep ==
    ASSUME TypeOK, PassedInv /\ NeverPanics, [Next]_vars
    PROVE  (PassedInv /\ NeverPanics)'
<1>1. CASE Prepare
  <2>1. config \in Config
    BY DEF TypeOK
  <2>2. Through' => PrepareErrors(config, keyFile) = {}
    BY <1>1 DEF Prepare, Through
  <2>3. Through' => Complete(Prepared(config)) /\ Known(Prepared(config))
    BY <2>1, <2>2, PreparedComplete
  <2> QED
    BY <1>1, <2>3 DEF Prepare, PassedInv, NeverPanics
<1>2. CASE ~Prepare
  <2>1. PassedInv'
    BY <1>2, ConfigFixed DEF PassedInv
  <2>2. pc \in {"export", "unwind"} => Known(config)
    BY DEF PassedInv, Through
  <2> QED
    BY <1>2, <2>1, <2>2, ConfigFixed DEF NeverPanics, Known
<1> QED
  BY <1>1, <1>2

LEMMA PassedAlways == Spec => [](PassedInv /\ NeverPanics)
<1>1. Init => PassedInv /\ NeverPanics
  BY DEF Init, PassedInv, Through, NeverPanics
<1>2. TypeOK /\ (PassedInv /\ NeverPanics) /\ [Next]_vars => (PassedInv /\ NeverPanics)'
  BY PassedStep
<1> QED
  BY <1>1, <1>2, AccessTypeCorrect, PTL DEF Spec

(* What the steps take for granted of a configuration, Prepare has made    *)
(* sure of: for every raw configuration that it lets pass.                 *)
THEOREM PassedComplete == Spec => []PassedIsComplete
<1>1. PassedInv => PassedIsComplete
  <2> SUFFICES ASSUME PassedInv, Through PROVE PassedIsComplete
    BY DEF PassedIsComplete
  <2> QED
    BY CompleteIsComplete DEF PassedInv
<1> QED
  BY <1>1, PassedAlways, PTL

(* A configuration that passes meets neither of the two panics: Prepare    *)
(* knows no format and no policy that StepExport or ShouldKeepVM does not. *)
THEOREM NeverPanicking == Spec => []NeverPanics
<1> QED
  BY PassedAlways, PTL

-----------------------------------------------------------------------------
(* The sockets.                                                            *)

(* Steps that touch neither the configuration nor a socket nor the place   *)
(* of the builder, and leave the taken ports as they are.                  *)
LEMMA SocketsUntouched ==
    ASSUME SocketInv, config' = config, pc' = pc, UNCHANGED sockets,
           localSshPort' = localSshPort, taken' = taken
    PROVE  SocketInv'
  BY DEF SocketInv, sockets, First, Last, ForwardIsOurs, SocketsLeft

(* Steps from one place to another that touch no socket; a search is begun *)
(* at the first port of its range.                                         *)
LEMMA SocketsKept ==
    ASSUME SocketInv, config' = config, UNCHANGED <<held, stray>>,
           localSshPort' = localSshPort, taken' = taken,
           pc' \notin {"prepare", "over"}, pc' \in Early => pc \in Early,
           \A s \in Servers : pc' = Searching[s] => port' >= First(s)
    PROVE  SocketInv'
  BY DEF SocketInv, First, Last, ForwardIsOurs, SocketsLeft

LEMMA SocketStep ==
    ASSUME TypeOK, PassedInv, SocketInv, [Next]_vars
    PROVE  SocketInv'
<1> USE PortAssumption
<1>1. CASE Prepare
  <2>1. pc' \in {"http", "refused"} /\ pc = "prepare"
    BY <1>1 DEF Prepare
  <2>2. UNCHANGED sockets /\ localSshPort' = localSshPort
    BY <1>1 DEF Prepare, addresses
  <2>3. stray = {} /\ localSshPort = 0 /\ localSshPort = held["forward"]
    BY <2>1 DEF SocketInv, Early
  <2> QED
    BY <2>1, <2>2, <2>3
    DEF SocketInv, sockets, Searching, Servers, ForwardIsOurs, SocketsLeft
<1>2. ASSUME Search("http") \/ Search("forward")
      PROVE  /\ Complete(config) /\ \A s \in Servers : First(s) \in 1 .. Last(s)
             /\ pc \in Early /\ localSshPort = 0
  <2>1. pc \in {"http_search", "forward_search"}
    BY <1>2 DEF Search, Searching, Servers
  <2>2. Complete(config)
    BY <2>1 DEF PassedInv, Through
  <2>3. PassedIsComplete /\ Through
    BY <2>1, <2>2, CompleteIsComplete DEF Through
  <2> QED
    BY <2>1, <2>2, <2>3 DEF SocketInv, Early, PassedIsComplete
<1>3. \A s \in Servers : First(s) \in Nat /\ Last(s) \in Port
  <2>1. \A o \in PortOptions : config.Ports[o] \in Port
    BY DEF TypeOK, Config
  <2> QED
    BY <2>1 DEF First, Last, PortOptions, Port
<1>4. ASSUME NEW s \in Servers, TryPort(s)
      PROVE  SocketInv'
  <2>1. Search(s) /\ port <= Last(s) /\ port' = NextPort(port)
        /\ UNCHANGED <<config, pc, held, stray, localSshPort, taken>>
    BY <1>4 DEF TryPort, addresses, world
  <2>2. port \in Port /\ port' \in Port /\ (port < MaxUint => port' > port)
    BY <2>1, NextPortType DEF TypeOK
  <2>3. port >= First(s) \/ Last(s) = MaxUint
    BY <2>1 DEF SocketInv, Search
  <2>4. port' >= First(s) \/ Last(s) = MaxUint
    BY <1>3, <2>1, <2>2, <2>3 DEF Port
  <2>5. \A t \in Servers : pc = Searching[t] => t = s
    BY <2>1 DEF Search, Searching, Servers
  <2> QED
    BY <2>1, <2>4, <2>5 DEF SocketInv, First, Last, ForwardIsOurs, SocketsLeft
<1>5. ASSUME NEW s \in Servers, NoPortFound(s)
      PROVE  SocketInv'
  <2>1. /\ Search(s) /\ pc' = "unwind"
        /\ UNCHANGED <<config, held, localSshPort, taken>>
        /\ stray' = stray \/ (port = 0 /\ stray' = stray \cup {s})
    BY <1>5 DEF NoPortFound, Halt, addresses, world
  <2>2. s = "http" \/ s = "forward"
    BY DEF Servers
  <2>3. localSshPort = 0 /\ pc \in Early /\ First(s) \in 1 .. Last(s)
    BY <1>2, <2>1, <2>2
  <2>4. port >= First(s) \/ Last(s) = MaxUint
    BY <2>1 DEF SocketInv, Search
  <2>5. port = 0 => Last(s) = MaxUint
    BY <1>3, <2>3, <2>4
  <2>6. \A t \in stray' : Last(t) = MaxUint
    BY <2>1, <2>5 DEF SocketInv
  <2>7. (\A t \in stray : Last(t) = MaxUint)'
    BY <2>1, <2>6 DEF Last
  <2>8. localSshPort' = 0 /\ ForwardIsOurs' /\ SocketsLeft'
    BY <2>1, <2>3 DEF ForwardIsOurs, SocketsLeft
  <2>9. localSshPort' = held'["forward"] /\ pc' # "prepare"
        /\ \A t \in Servers : pc' # Searching[t]
    BY <2>1 DEF SocketInv, Searching, Servers
  <2> QED
    BY <2>7, <2>8, <2>9 DEF SocketInv
<1>6. CASE HttpPort
  <2>1. /\ Search("http") /\ pc' = "address"
        /\ UNCHANGED <<config, stray, localSshPort, taken>>
        /\ held' = [held EXCEPT !["http"] = Found(port)]
    BY <1>6 DEF HttpPort, addresses, world
  <2>2. localSshPort = 0 /\ held'["forward"] = held["forward"]
    BY <1>2, <2>1
  <2> QED
    BY <2>1, <2>2
    DEF SocketInv, Last, Searching, Servers, Early, ForwardIsOurs, SocketsLeft
<1>7. CASE ForwardPort
  <2>1. /\ Search("forward") /\ pc' = "shutdown"
        /\ UNCHANGED <<config, stray, taken>> /\ localSshPort' = port
        /\ held' = [held EXCEPT !["forward"] = port]
        /\ port <= Last("forward") /\ port # 0 /\ MayListen(port)
    BY <1>7 DEF ForwardPort, Found, world
  <2>2. held'["forward"] = port /\ held'["http"] = held["http"] /\ port \in Nat
    <3>1. held \in [Servers -> 0 .. MaxPort] /\ port \in Port
      BY DEF TypeOK
    <3> QED
      BY <2>1, <3>1 DEF Servers, Port
  <2>3. port \notin taken /\ port # held["http"]
    BY <2>1 DEF MayListen, Servers
  <2>4. port >= First("forward") \/ Last("forward") = MaxUint
    BY <2>1 DEF SocketInv, Search, Servers
  <2>5. port \in First("forward") .. Last("forward") \/ Last("forward") = MaxUint
    BY <1>3, <2>1, <2>2, <2>4 DEF Servers, Port
  <2>6. ForwardIsOurs'
    BY <2>1, <2>2, <2>3, <2>5 DEF ForwardIsOurs, First, Last
  <2> QED
    BY <2>1, <2>2, <2>6
    DEF SocketInv, Last, Searching, Servers, Early, SocketsLeft
<1>8. CASE StepHTTPServer
  <2>1. pc = "http" /\ UNCHANGED <<config, held, stray, localSshPort, taken>>
    BY <1>8 DEF StepHTTPServer, addresses, world
  <2>2. /\ pc' \in {"http_search", "address"}
        /\ \A s \in Servers : pc' = Searching[s] => port' >= First(s)
    BY <1>3, <1>8 DEF StepHTTPServer, BeginSearch, Searching, Servers
  <2> QED
    BY <2>1, <2>2, SocketsKept DEF Early
<1>9. CASE StepForwardPortOverSSH
  <2>1. pc = "forward" /\ UNCHANGED <<config, held, stray, localSshPort, taken>>
    BY <1>9 DEF StepForwardPortOverSSH, addresses, world
  <2>2. /\ pc' = "forward_search"
        /\ \A s \in Servers : pc' = Searching[s] => port' >= First(s)
    BY <1>3, <1>9 DEF StepForwardPortOverSSH, BeginSearch, Searching, Servers
  <2> QED
    BY <2>1, <2>2, SocketsKept DEF Early
<1>10. CASE StepSetVmHostSshAddress
  <2>1. /\ pc = "address" /\ pc' \in {"forward", "unwind"}
        /\ UNCHANGED <<config, held, stray, localSshPort, taken>>
    BY <1>10 DEF StepSetVmHostSshAddress, Halt, sockets, addresses, world
  <2> QED
    BY <2>1, SocketsKept DEF Early, Searching, Servers
<1>11. CASE Shutdown \/ CommandReturns \/ CleanShutdown \/ HardShutdown \/ StepExport
  <2>1. /\ pc' \in {"unwind", "clean_shutdown", "hard_shutdown", "command", "export",
                    "panicked"}
        /\ UNCHANGED <<config, held, stray, localSshPort, taken>>
    BY <1>11
    DEF Shutdown, CommandReturns, CleanShutdown, HardShutdown, StepExport, Halt,
        sockets, addresses, world
  <2> QED
    BY <2>1, SocketsKept DEF Early, Searching, Servers
<1>12. CASE Unwind
  <2>1. /\ pc' \in {"over", "panicked"}
        /\ UNCHANGED <<config, localSshPort, taken>>
    BY <1>12 DEF Unwind, addresses, world
  <2>2. CASE config.KeepVM \in Policies
    <3>1. /\ pc' = "over"
          /\ held' = [s \in Servers |-> IF s \in Closed THEN 0 ELSE held[s]]
          /\ stray' = stray \ Closed
      BY <1>12, <2>2 DEF Unwind
    <3>2. held'["http"] = 0 /\ held'["forward"] = held["forward"]
          /\ stray' \subseteq {"forward"}
      BY <3>1 DEF Closed, Servers, TypeOK
    <3>3. \A s \in stray' : s \in stray /\ Last(s) = MaxUint
      BY <3>1 DEF SocketInv
    <3>4. ForwardIsOurs'
      <4> SUFFICES ASSUME localSshPort # 0 PROVE ForwardIsOurs'
        BY <2>1 DEF ForwardIsOurs
      <4> QED
        BY <2>1, <3>2 DEF SocketInv, ForwardIsOurs, First, Last
    <3>5. SocketsLeft'
      BY <2>1, <3>2, <3>3 DEF SocketsLeft, Last
    <3> QED
      BY <2>1, <3>1, <3>2, <3>3, <3>4, <3>5
      DEF SocketInv, Last, Searching, Servers, Early
  <2>3. CASE config.KeepVM \notin Policies
    BY <1>12, <2>1, <2>3, SocketsKept DEF Unwind, Early, Searching, Servers
  <2> QED
    BY <2>2, <2>3
<1>13. CASE (\E x \in Clients : Forwarding(x)) \/ AcceptLoopFails
  <2>1. config' = config /\ pc' = pc /\ UNCHANGED sockets
        /\ localSshPort' = localSshPort /\ taken' = taken
    BY <1>13 DEF Forwarding, AcceptLoop, Forward, AcceptLoopFails, addresses, world
  <2> QED
    BY <2>1, SocketsUntouched
<1>14. CASE Environment
  <2>1. ASSUME NEW p \in 1 .. MaxPort, OtherTakesPort(p) \/ OtherFreesPort(p)
        PROVE  SocketInv'
    <3>1. UNCHANGED <<config, pc, port, held, stray, localSshPort>>
      BY <2>1 DEF OtherTakesPort, OtherFreesPort, sockets, addresses
    <3>2. localSshPort \notin taken => localSshPort \notin taken' \/ localSshPort = 0
      <4>1. localSshPort = held["forward"] /\ "forward" \in Servers
        BY DEF SocketInv, Servers
      <4> QED
        BY <2>1, <4>1 DEF OtherTakesPort, OtherFreesPort
    <3> QED
      BY <3>1, <3>2 DEF SocketInv, First, Last, ForwardIsOurs, SocketsLeft
  <2>2. CASE KeyFileChanges \/ OtherConnects \/ GuestHalts
    <3>1. config' = config /\ pc' = pc /\ UNCHANGED sockets
          /\ localSshPort' = localSshPort /\ taken' = taken
      BY <2>2 DEF KeyFileChanges, OtherConnects, GuestHalts, addresses, world
    <3> QED
      BY <3>1, SocketsUntouched
  <2> QED
    BY <1>14, <2>1, <2>2 DEF Environment
<1>15. CASE UNCHANGED vars
  BY <1>15, SocketsUntouched DEF vars, addresses, world
<1> QED
  BY <1>1, <1>4, <1>5, <1>6, <1>7, <1>8, <1>9, <1>10, <1>11, <1>12, <1>13, <1>14, <1>15
  DEF Next, Builder

LEMMA SocketAlways == Spec => []SocketInv
<1>1. Init => SocketInv
  BY DEF Init, SocketInv, Searching, Servers, Early, ForwardIsOurs, SocketsLeft
<1>2. TypeOK /\ (PassedInv /\ NeverPanics) /\ SocketInv /\ [Next]_vars => SocketInv'
  BY SocketStep
<1> QED
  BY <1>1, <1>2, AccessTypeCorrect, PassedAlways, PTL DEF Spec

(* The forwarded port is this build's own, whatever the ranges and whoever *)
(* else takes ports between two rounds of FindPort.                        *)
THEOREM ForwardOurs == Spec => []ForwardIsOurs
<1>1. SocketInv => ForwardIsOurs
  BY DEF SocketInv
<1> QED
  BY <1>1, SocketAlways, PTL

(* What is left listening when a build is over: the forwarded port, and    *)
(* no other socket unless a range ends with the greatest uint.             *)
THEOREM SocketsLeftOver == Spec => []SocketsLeft
<1>1. SocketInv => SocketsLeft
  BY DEF SocketInv
<1> QED
  BY <1>1, SocketAlways, PTL

-----------------------------------------------------------------------------
(* How a build comes to its end: what the safety of the searches and of    *)
(* the shutdown has to say of AccessEnds.                                  *)

(* The places of a build, by how many can still follow.                    *)
PlacesLeft ==
    [prepare |-> 12, http |-> 11, http_search |-> 10, address |-> 9, forward |-> 8,
     forward_search |-> 7, shutdown |-> 6, command |-> 5, clean_shutdown |-> 5,
     hard_shutdown |-> 4, export |-> 3, unwind |-> 2, over |-> 1, refused |-> 1,
     panicked |-> 1]

(* How many rounds of FindPort are left at most: from port to the greatest *)
(* uint, and once more around for each call that may still fail, as port 0 *)
(* can be listened on unless a call fails.                                 *)
RoundsLeft ==
    (MaxFaults - faults) * (MaxUint + 1) + (IF port = 0 THEN 0 ELSE MaxUint + 1 - port)

(* They are a number. *)
LEMMA RoundsTyped == TypeOK => RoundsLeft \in Nat
<1>1. SUFFICES ASSUME TypeOK PROVE RoundsLeft \in Nat
  OBVIOUS
<1>2. MaxFaults - faults \in Nat /\ MaxUint + 1 \in Nat /\ port \in 0 .. MaxUint
  <2>1. port \in 0 .. MaxUint /\ faults \in 0 .. MaxFaults
    BY <1>1 DEF TypeOK, Port
  <2>2. QED
    BY <2>1, PortAssumption, BoundAssumption
<1>3. \A a, b \in Nat : a * b \in Nat
  OBVIOUS
<1>4. (MaxFaults - faults) * (MaxUint + 1) \in Nat
  BY <1>2, <1>3
<1>5. QED
  BY <1>2, <1>4, PortAssumption DEF RoundsLeft

(* A round of the loop leaves fewer, also the one that wraps around.       *)
LEMMA RoundCounts ==
    ASSUME TypeOK, NEW s \in Servers, TryPort(s)
    PROVE  RoundsLeft' < RoundsLeft
<1> DEFINE width == MaxUint + 1
           left == MaxFaults - faults
           ahead == IF port = 0 THEN 0 ELSE MaxUint + 1 - port
<1>1. /\ port \in 0 .. MaxUint /\ faults \in 0 .. MaxFaults
      /\ MaxUint \in Nat /\ MaxUint > 0 /\ MaxFaults \in Nat
  <2>1. port \in 0 .. MaxUint /\ faults \in 0 .. MaxFaults
    BY DEF TypeOK, Port
  <2>2. QED
    BY <2>1, PortAssumption, BoundAssumption
<1>2. port' = (port + 1) % width /\ (NoFault \/ Fault) /\ (port = 0 => Fault)
  BY DEF TryPort, NextPort, MayListen
<1>3. port' = IF port = MaxUint THEN 0 ELSE port + 1
  <2>1. width % width = 0
    BY <1>1
  <2>2. port < MaxUint => (port + 1) % width = port + 1
    BY <1>1
  <2>3. QED
    BY <1>1, <1>2, <2>1, <2>2
<1>4. CASE NoFault
  <2>1. port # 0 \/ Fault
    BY <1>2
  <2>2. port # 0
    BY <1>1, <1>4, <2>1 DEF NoFault, Fault
  <2>3. ahead' < ahead /\ ahead \in Nat /\ ahead' \in Nat
    BY <1>1, <1>3, <2>2
  <2>4. left' = left /\ left \in Nat
    BY <1>1, <1>4 DEF NoFault
  <2>5. left * width \in Nat
    BY <1>1, <2>4
  <2>6. RoundsLeft = left * width + ahead /\ RoundsLeft' = left * width + ahead'
    BY <2>4 DEF RoundsLeft
  <2> HIDE DEF left, width, ahead
  <2>7. QED
    BY <2>3, <2>5, <2>6
<1>5. CASE Fault
  <2>1. left' = left - 1 /\ left \in Nat /\ left' \in Nat
    BY <1>1, <1>5 DEF Fault
  <2>2. ahead' < width /\ ahead \in Nat /\ ahead' \in Nat /\ width \in Nat
    BY <1>1, <1>3
  <2>3. RoundsLeft = left * width + ahead /\ RoundsLeft' = left' * width + ahead'
    BY DEF RoundsLeft
  <2> HIDE DEF left, width, ahead
  <2>4. \A a, b \in Nat : (a - 1) * b = a * b - b /\ a * b \in Nat
    OBVIOUS
  <2>5. left' * width = left * width - width /\ left * width \in Nat
    BY <2>1, <2>2, <2>4
  <2>6. QED
    BY <2>2, <2>3, <2>5
<1>6. QED
  BY <1>2, <1>4, <1>5

(* A call that fails elsewhere leaves no more rounds.                      *)
LEMMA FaultCounts ==
    ASSUME TypeOK, Fault, port' = port
    PROVE  RoundsLeft' <= RoundsLeft
<1> DEFINE width == MaxUint + 1
           left == MaxFaults - faults
           ahead == IF port = 0 THEN 0 ELSE MaxUint + 1 - port
<1>1. /\ port \in 0 .. MaxUint /\ faults \in 0 .. MaxFaults
      /\ MaxUint \in Nat /\ MaxFaults \in Nat
  BY PortAssumption, BoundAssumption DEF TypeOK, Port
<1>2. left' = left - 1 /\ left \in Nat /\ width \in Nat
  BY <1>1 DEF Fault
<1>3. ahead' = ahead /\ ahead \in Nat
  BY <1>1
<1>4. RoundsLeft = left * width + ahead /\ RoundsLeft' = left' * width + ahead'
  BY DEF RoundsLeft
<1> HIDE DEF left, width, ahead
<1>5. \A a, b \in Nat : (a - 1) * b = a * b - b /\ a * b \in Nat
  OBVIOUS
<1>6. left' * width = left * width - width /\ left * width \in Nat
  BY <1>2, <1>5
<1>7. QED
  BY <1>2, <1>3, <1>4, <1>6

(* Each step of the builder is a round, or goes on to a later place; what  *)
(* the connections and the rest of the world do adds to neither.           *)
LEMMA PlaceCounts ==
    ASSUME TypeOK, [Next]_vars
    PROVE  /\ Builder => \/ PlacesLeft[pc'] < PlacesLeft[pc]
                         \/ pc' = pc /\ RoundsLeft' < RoundsLeft
           /\ ~Builder => pc' = pc /\ RoundsLeft' <= RoundsLeft
<1>1. ASSUME NEW s \in Servers, TryPort(s)
      PROVE  pc' = pc /\ RoundsLeft' < RoundsLeft
  BY <1>1, RoundCounts DEF TryPort
<1>2. ASSUME NEW s \in Servers, NoPortFound(s)
      PROVE  PlacesLeft[pc'] < PlacesLeft[pc]
  BY <1>2 DEF NoPortFound, Search, Searching, Servers, Halt, PlacesLeft
<1>3. ASSUME Prepare \/ StepHTTPServer \/ HttpPort \/ StepSetVmHostSshAddress
             \/ StepForwardPortOverSSH \/ ForwardPort
      PROVE  PlacesLeft[pc'] < PlacesLeft[pc]
  <2>1. CASE Prepare \/ StepSetVmHostSshAddress
    <3>1. \/ pc = "prepare" /\ pc' \in {"http", "refused"}
          \/ pc = "address" /\ pc' \in {"forward", "unwind"}
      BY <2>1, Zenon DEF Prepare, StepSetVmHostSshAddress, Halt
    <3>2. QED
      BY <3>1 DEF PlacesLeft
  <2>2. CASE StepHTTPServer \/ StepForwardPortOverSSH
    BY <2>2 DEF StepHTTPServer, StepForwardPortOverSSH, BeginSearch, Searching, PlacesLeft
  <2>3. CASE HttpPort \/ ForwardPort
    BY <2>3 DEF HttpPort, ForwardPort, Search, Searching, PlacesLeft
  <2>4. QED
    BY <1>3, <2>1, <2>2, <2>3
<1>4. ASSUME Shutdown \/ CommandReturns \/ CleanShutdown \/ HardShutdown \/ StepExport
             \/ Unwind
      PROVE  PlacesLeft[pc'] < PlacesLeft[pc]
  BY <1>4
  DEF Shutdown, CommandReturns, CleanShutdown, HardShutdown, StepExport, Unwind, Halt,
      PlacesLeft
<1>5. ASSUME (\E x \in Clients : Forwarding(x)) \/ Environment \/ UNCHANGED vars
      PROVE  UNCHANGED <<pc, port, faults>>
  BY <1>5
  DEF Forwarding, AcceptLoop, Forward, Environment, OtherTakesPort, OtherFreesPort,
      KeyFileChanges, OtherConnects, GuestHalts, sockets, vars
<1>6. RoundsLeft \in Nat
  BY RoundsTyped
<1>7. ASSUME AcceptLoopFails
      PROVE  pc' = pc /\ RoundsLeft' <= RoundsLeft
  <2>1. pc' = pc /\ port' = port /\ Fault
    BY <1>7 DEF AcceptLoopFails, sockets
  <2>2. QED
    BY <2>1, FaultCounts
<1>8. ~Builder => pc' = pc /\ RoundsLeft' <= RoundsLeft
  <2>1. UNCHANGED <<pc, port, faults>> => RoundsLeft' = RoundsLeft
    BY DEF RoundsLeft
  <2>2. QED
    BY <1>5, <1>6, <1>7, <2>1 DEF Next
<1>9. QED
  BY <1>1, <1>2, <1>3, <1>4, <1>8 DEF Builder

(* FindPort comes to the end of its range although a uint wraps around,    *)
(* and the build never turns back: each step of its goroutine is a round   *)
(* less or a place further, and nothing else undoes one.  What AccessEnds  *)
(* has beyond that is that the goroutine goes on, and that StepShutdown's  *)
(* wait for the connection it has opened ends unless the accept loop has.  *)
THEOREM BuildMovesOn ==
    Spec => [][/\ RoundsLeft' \in Nat
               /\ Builder => \/ PlacesLeft[pc'] < PlacesLeft[pc]
                             \/ pc' = pc /\ RoundsLeft' < RoundsLeft
               /\ ~Builder => pc' = pc /\ RoundsLeft' <= RoundsLeft]_vars
<1>1. TypeOK' => (RoundsLeft \in Nat)'
  BY RoundsTyped, PTL
<1>2. TypeOK /\ TypeOK' /\ [Next]_vars =>
        [/\ RoundsLeft' \in Nat
         /\ Builder => \/ PlacesLeft[pc'] < PlacesLeft[pc]
                       \/ pc' = pc /\ RoundsLeft' < RoundsLeft
         /\ ~Builder => pc' = pc /\ RoundsLeft' <= RoundsLeft]_vars
  BY <1>1, PlaceCounts
<1>3. QED
  BY <1>2, AccessTypeCorrect, PTL DEF Spec
=============================================================================
