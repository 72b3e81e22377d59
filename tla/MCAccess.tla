----------------------------- MODULE MCAccess ------------------------------
(***************************************************************************)
(* Configurations on their way through a build, for TLC.                   *)
(***************************************************************************)
EXTENDS GuestAccess

(* 22, 5900 to 6000, 8000 to 9000 and 2222 to 4444, in their order.        *)
SmallDefault == [HostSshPort |-> 1, SSHHostPortMin |-> 1, SSHHostPortMax |-> 2,
                 HostPortMin |-> 2, HostPortMax |-> 3,
                 HTTPPortMin |-> 4, HTTPPortMax |-> 5]

AllTexts == STRING

Unset == [o \in PortOptions |-> 0]

Iso == [builder |-> "iso", Decodes |-> TRUE, Given |-> Required, Ports |-> Unset,
        DiskName |-> "", DiskSize |-> 0, SrName |-> "", Disks |-> <<>>,
        RawBootWait |-> "", RawDhcpWait |-> "", RawInstallTimeout |-> "",
        InstallTimeout |-> "0s", SSHKeyPath |-> FALSE, Comm |-> TRUE,
        Format |-> "", KeepVM |-> "", IPGetter |-> "",
        VCPUsMax |-> 0, VCPUsAtStartup |-> 0, VMMemory |-> 0,
        CloneTemplate |-> "", SourcePath |-> "", ISOName |-> "", ISOUrl |-> "a.iso",
        ISOUrls |-> <<>>, ISOChecksum |-> TRUE, HTTPDir |-> TRUE,
        ShutdownCommand |-> TRUE]

Xva == [Iso EXCEPT !.builder = "xva", !.ISOUrl = "", !.CloneTemplate = "template"]

(* Ranges of ports: overlapping, inverted, of one port, beyond TCP's, and  *)
(* up to the greatest uint.                                                *)
Ranges ==
    {[Iso EXCEPT !.Ports = [Unset EXCEPT !.HostPortMin = r[1], !.HostPortMax = r[2],
                                         !.HTTPPortMin = h[1], !.HTTPPortMax = h[2]]] :
       r \in {<<0, 0>>, <<4, 5>>, <<5, 0>>, <<3, 3>>, <<6, MaxUint>>, <<MaxUint, MaxUint>>},
       h \in {<<0, 0>>, <<2, 0>>, <<0, 3>>, <<7, MaxUint>>}}

AllNames ==
    {[Iso EXCEPT !.Format = f, !.HTTPDir = FALSE] : f \in Formats \cup {"vmdk"}}
    \cup {[Iso EXCEPT !.KeepVM = k, !.HTTPDir = FALSE] : k \in Policies \cup {"maybe"}}
    \cup {[Iso EXCEPT !.IPGetter = g, !.HTTPDir = FALSE] : g \in Getters \cup {"dns"}}

SomeDisk(n, m, sr) == [Name |-> n, Size |-> m, SRName |-> sr]
Machines ==
    {[Iso EXCEPT !.DiskName = n, !.DiskSize = m, !.SrName = sr, !.HTTPDir = FALSE] :
       n \in {"", "root"}, m \in {0, 20480}, sr \in {"", "local"}}
    \cup {[Iso EXCEPT !.Disks = <<SomeDisk("root", 20480, ""), SomeDisk("", 0, "fast")>>,
                      !.SrName = sr, !.HTTPDir = FALSE] : sr \in {"", "local"}}
    \cup {[b EXCEPT !.VCPUsMax = m, !.VCPUsAtStartup = s, !.HTTPDir = FALSE] :
            b \in {Iso, Xva}, m \in {0, 2}, s \in {0, 1, 4}}

Images ==
    {[Iso EXCEPT !.ISOName = n, !.ISOUrl = u, !.ISOUrls = l, !.ISOChecksum = k,
                 !.HTTPDir = FALSE] :
       n \in {"", "pool.iso"}, u \in {"", "a.iso"}, l \in {<<>>, <<"b.iso">>}, k \in BOOLEAN}
    \cup {[Xva EXCEPT !.CloneTemplate = t, !.SourcePath = p, !.HTTPDir = FALSE] :
            t \in {"", "template"}, p \in {"", "vm.xva"}}

Others ==
    {[b EXCEPT !.ShutdownCommand = k, !.SSHKeyPath = f] :
       b \in {Iso, Xva}, k \in BOOLEAN, f \in BOOLEAN}
    \cup {[Iso EXCEPT !.Decodes = FALSE], [Iso EXCEPT !.Given = @ \ {"remote_host"}],
          [Iso EXCEPT !.RawInstallTimeout = "soon"], [Iso EXCEPT !.RawBootWait = "soon"],
          [Iso EXCEPT !.RawDhcpWait = "soon"], [Iso EXCEPT !.Comm = FALSE],
          [Iso EXCEPT !.Ports = [Unset EXCEPT !.SSHHostPortMin = 3]]}

AllRawConfigs == Ranges \cup AllNames \cup Machines \cup Images \cup Others
SomeTaken == {{}, {2, 3}}
=============================================================================
