---------------------------- MODULE MCTransfers -----------------------------
(***************************************************************************)
(* Uploads and exports, for TLC.                                           *)
(***************************************************************************)
EXTENDS Transfers

Disk(d) == [type |-> "Disk", vdi |-> d]
Cd(d) == [type |-> "CD", vdi |-> d]

(* "lan" is the name of one network, "twin" of two, "gone" of none. *)
SomeNetworks == {"lan", "wan", "twin", "gone"}
SomeVdis == {"disk1", "disk2", "tools"}

Plain == [keep |-> FALSE, image |-> FALSE, isoSr |-> "default",
          networks |-> <<>>, exportNetworks |-> <<>>,
          labelled |-> [n \in SomeNetworks |->
                          CASE n = "twin" -> 2 [] n = "gone" -> 0 [] OTHER -> 1],
          management |-> TRUE, clonedVif |-> FALSE,
          vbds |-> <<Disk("disk1"), Cd("tools"), Disk("disk2")>>,
          format |-> "none", oldHost |-> FALSE]

Uploads ==
    {[Plain EXCEPT !.image = TRUE, !.keep = k, !.isoSr = s, !.management = FALSE] :
       k \in BOOLEAN, s \in {"default", "unique", "missing", "ambiguous"}}

Networked ==
    {[Plain EXCEPT !.networks = n, !.exportNetworks = x, !.clonedVif = v, !.format = "xva"] :
       n \in {<<>>, <<"lan">>, <<"wan", "lan">>, <<"lan", "twin">>, <<"gone">>},
       x \in {<<>>, <<"wan">>, <<"lan", "lan">>, <<"lan", "gone">>},
       v \in BOOLEAN}

Exports ==
    {[Plain EXCEPT !.format = f, !.oldHost = h, !.networks = <<"lan">>] :
       f \in Formats, h \in BOOLEAN}
    \cup {[Plain EXCEPT !.image = TRUE, !.format = "vdi_vhd", !.oldHost = TRUE]}

SomeChoices == Uploads \cup Networked \cup Exports
=============================================================================
