--------------------------- MODULE ConfigPrepare ---------------------------
(***************************************************************************)
(* What Prepare of the two builders makes of a configuration: the defaults *)
(* it fills in and the options it refuses.  A configuration is the struct  *)
(* Config after hconfig.Decode, with the zero value of a field that was    *)
(* not given; texts no rule looks into are left out.                       *)
(*                                                                         *)
(* Port numbers are scaled down: Default names the values of the source    *)
(* (22, 5900 to 6000, 8000 to 9000, 2222 to 4444), MaxPort is 65535 and    *)
(* MaxUint the greatest uint.                                              *)
(***************************************************************************)
EXTENDS Naturals, Sequences

CONSTANTS
    Text,           \* the texts that an option may have
    MaxPort,        \* the greatest TCP port
    MaxUint,        \* the greatest value of Go's uint
    Default         \* the default values of the port options

Port == 0 .. MaxUint
PortOptions == {"HostSshPort", "HostPortMin", "HostPortMax", "HTTPPortMin",
                "HTTPPortMax", "SSHHostPortMin", "SSHHostPortMax"}

ASSUME PortAssumption ==
    /\ MaxPort \in Nat /\ MaxUint \in Nat /\ MaxPort < MaxUint
    /\ Default \in [PortOptions -> 1 .. MaxPort]
    /\ Default.HostPortMin <= Default.HostPortMax
    /\ Default.HTTPPortMin <= Default.HTTPPortMax

(* The texts that Prepare itself fills in. *)
ASSUME TextAssumption ==
    {"", "xva", "never", "auto", "Packer-disk", "Packer-disk-N",
     "Other install media"} \subseteq Text

Required == {"remote_username", "remote_password", "remote_host", "ssh_username"}
Formats == {"xva", "xva_compressed", "vdi_raw", "vdi_vhd", "none"}
Policies == {"always", "never", "on_success"}
Getters == {"auto", "tools", "http"}
Durations == {"", "0s", "500ms", "5s", "200m", "soon"}
KeyFiles == {"absent", "no_pem", "encrypted", "bad_key", "good"}

Disk == [Name : Text, Size : Nat, SRName : Text]

Config == [builder : {"iso", "xva"},
           Decodes : BOOLEAN,            \* hconfig.Decode accepts it
           Given : SUBSET Required,      \* the required texts that are there
           Ports : [PortOptions -> Port],
           DiskName : Text, DiskSize : Nat, SrName : Text, Disks : Seq(Disk),
           RawBootWait : Durations, RawDhcpWait : Durations,
           RawInstallTimeout : Durations, InstallTimeout : Durations,
           SSHKeyPath : BOOLEAN,         \* ssh_key_path is given
           Comm : BOOLEAN,               \* the SDK's communicator accepts its part
           Format : Text, KeepVM : Text, IPGetter : Text,
           VCPUsMax : Nat, VCPUsAtStartup : Nat, VMMemory : Nat,
           CloneTemplate : Text, SourcePath : Text,
           ISOName : Text, ISOUrl : Text, ISOUrls : Seq(Text),
           ISOChecksum : BOOLEAN,        \* the SDK accepts iso_checksum
           HTTPDir : BOOLEAN,            \* http_directory is given
           ShutdownCommand : BOOLEAN]    \* shutdown_command is given

Or(text, default) == IF text = "" THEN default ELSE text
OrN(number, default) == IF number = 0 THEN default ELSE number
Refuse(option, wrong) == IF wrong THEN {option} ELSE {}

-----------------------------------------------------------------------------
(* CommonConfig.Prepare.                                                   *)

(* A single disk in the old style becomes a list of one. *)
SingleDisk(c) ==
    IF c.Disks = <<>> /\ (c.DiskName # "" \/ c.DiskSize > 0 \/ c.SrName # "")
    THEN <<[Name |-> c.DiskName, Size |-> c.DiskSize, SRName |-> c.SrName]>>
    ELSE c.Disks

CommonPort(c, o) ==
    IF o \in {"SSHHostPortMin", "SSHHostPortMax"} THEN c.Ports[o]
    ELSE OrN(c.Ports[o], Default[o])

CommonDefaults(c) ==
    [c EXCEPT !.Disks = SingleDisk(c),
              !.Ports = [o \in PortOptions |-> CommonPort(c, o)],
              !.RawBootWait = Or(@, "5s"), !.RawDhcpWait = Or(@, "500ms"),
              !.Format = Or(@, "xva"), !.KeepVM = Or(@, "never"),
              !.IPGetter = Or(@, "auto")]

(* FileSigner reads a private key that is a PEM block without a password.  *)
FileSigner(file) == file = "good"

(* Careless form of UnknownNames: a word nobody checks.                    *)
UnknownNamesLax(c) ==
    Refuse("format", c.Format \notin Formats)
    \cup Refuse("ip_getter", c.IPGetter \notin Getters)

UnknownNames(c) ==
    Refuse("format", c.Format \notin Formats)
    \cup Refuse("keep_vm", c.KeepVM \notin Policies)
    \cup Refuse("ip_getter", c.IPGetter \notin Getters)

CommonErrors(c, keyFile) ==
    (Required \ c.Given)
    \cup Refuse("host_port_min", c.Ports.HostPortMin > c.Ports.HostPortMax)
    \cup Refuse("http_port_min", c.Ports.HTTPPortMin > c.Ports.HTTPPortMax)
    \cup Refuse("boot_wait", c.RawBootWait = "soon")
    \cup Refuse("dhcp_wait", c.RawDhcpWait = "soon")
    \cup Refuse("ssh_key_path", c.SSHKeyPath /\ ~FileSigner(keyFile))
    \cup UnknownNames(c)

-----------------------------------------------------------------------------
(* SSHConfig.Prepare.                                                      *)

SshDefaults(c) ==
    [c EXCEPT !.Ports = [o \in PortOptions |-> OrN(c.Ports[o], Default[o])]]

SshErrors(c) ==
    Refuse("communicator", ~c.Comm)
    \cup Refuse("ssh_host_port_min", c.Ports.SSHHostPortMin > c.Ports.SSHHostPortMax)

-----------------------------------------------------------------------------
(* Builder.Prepare.                                                        *)

MachineDefaults(c) ==
    [c EXCEPT !.VCPUsMax = OrN(@, 1),
              !.VCPUsAtStartup = IF OrN(@, 1) > OrN(c.VCPUsMax, 1)
                                 THEN OrN(c.VCPUsMax, 1) ELSE OrN(@, 1),
              !.VMMemory = OrN(@, 1024)]

NamedDisk(d, c) ==
    [Name |-> Or(d.Name, "Packer-disk-N"), Size |-> OrN(d.Size, 40000),
     SRName |-> Or(d.SRName, c.SrName)]

(* Careless form of IsoDisks: a disk in the list is taken as it is.        *)
IsoDisksAsGiven(c) ==
    IF c.Disks # <<>> THEN c.Disks
    ELSE <<[Name |-> Or(c.DiskName, "Packer-disk"), Size |-> OrN(c.DiskSize, 40000),
            SRName |-> c.SrName]>>

IsoDisks(c) ==
    IF c.Disks # <<>> THEN [i \in DOMAIN c.Disks |-> NamedDisk(c.Disks[i], c)]
    ELSE <<[Name |-> Or(c.DiskName, "Packer-disk"), Size |-> OrN(c.DiskSize, 40000),
            SRName |-> c.SrName]>>

(* One URL becomes a list of one; with a name the URLs are not looked at.  *)
IsoUrls(c) ==
    IF c.ISOName = "" /\ c.ISOUrls = <<>> /\ c.ISOUrl # "" THEN <<c.ISOUrl>> ELSE c.ISOUrls

IsoDefaults(c) ==
    [MachineDefaults(c) EXCEPT
        !.RawInstallTimeout = Or(@, "200m"),
        !.InstallTimeout = IF c.RawInstallTimeout = "soon" THEN "0s"
                           ELSE Or(c.RawInstallTimeout, "200m"),
        !.Disks = IsoDisks(c),
        !.CloneTemplate = Or(@, "Other install media"),
        !.ISOUrls = IsoUrls(c)]

IsoErrors(c) ==
    Refuse("install_timeout", c.RawInstallTimeout = "soon")
    \cup Refuse("iso_url", c.ISOName = "" /\ c.ISOUrls # <<>> /\ c.ISOUrl # "")
    \cup Refuse("iso_urls", c.ISOName = "" /\ c.ISOUrls = <<>> /\ c.ISOUrl = "")
    \cup Refuse("iso_checksum", c.ISOName = "" /\ ~c.ISOChecksum)

(* install_timeout is neither given a default nor parsed.                  *)
XvaDefaults(c) == MachineDefaults(c)

XvaErrors(c) == Refuse("source_path", (c.SourcePath = "") <=> (c.CloneTemplate = ""))

-----------------------------------------------------------------------------
Defaulted(c) == SshDefaults(CommonDefaults(c))

Prepared(c) ==
    IF c.builder = "iso" THEN IsoDefaults(Defaulted(c)) ELSE XvaDefaults(Defaulted(c))

(* Every rule is applied; one error is enough to refuse.                   *)
PrepareErrors(c, keyFile) ==
    Refuse("decode", ~c.Decodes)
    \cup CommonErrors(CommonDefaults(c), keyFile)
    \cup SshErrors(Defaulted(c))
    \cup (IF c.builder = "iso" THEN IsoErrors(Defaulted(c)) ELSE XvaErrors(Defaulted(c)))
=============================================================================
