------------------------------ MODULE MCBuild ------------------------------
(***************************************************************************)
(* Builds of both builders, for TLC.                                       *)
(***************************************************************************)
EXTENDS BuildPipeline, Pipelines

(* A configuration with everything a build can have, changed where a run   *)
(* needs it.                                                               *)
Full == [builder |-> "iso", keep |-> "never", force |-> TRUE, skipTemplate |-> FALSE,
         isoName |-> FALSE, tools |-> TRUE, cd |-> TRUE, floppy |-> FALSE,
         format |-> "xva", library |-> {"library_tools"},
         oldTemplates |-> {"old1"}, sourcePath |-> FALSE, templateDisk |-> FALSE]

(* An ISO given by its name, in the pool, is attached under two keys.      *)
Named == [Full EXCEPT !.isoName = TRUE, !.library = Library, !.cd = FALSE]

(* An ISO given by its URL is in the pool under the same name.             *)
UrlFound == [Full EXCEPT !.library = Library, !.cd = FALSE, !.tools = FALSE]

IsoConfigs ==
    {[Full EXCEPT !.keep = k] : k \in {"always", "never", "on_success"}}
    \cup {[Named EXCEPT !.keep = k] : k \in {"never", "on_success"}}
    \cup {UrlFound,
          [Full EXCEPT !.keep = "on_success", !.floppy = TRUE, !.cd = FALSE,
                       !.skipTemplate = TRUE, !.templateDisk = TRUE],
          [Full EXCEPT !.force = FALSE, !.oldTemplates = OldTemplates,
                       !.format = "none", !.keep = "on_success"]}

(* A VM cloned from a template with a disk of its own, with no disks and no *)
(* ISO of the builder's.                                                   *)
Clone == [Full EXCEPT !.builder = "xva", !.force = FALSE, !.floppy = TRUE,
                      !.oldTemplates = {}, !.templateDisk = TRUE]

XvaConfigs ==
    {[Clone EXCEPT !.keep = k] : k \in {"always", "never", "on_success"}}
    \cup {[Clone EXCEPT !.keep = "on_success", !.tools = FALSE, !.cd = FALSE,
                        !.format = "none"],
          [Clone EXCEPT !.sourcePath = TRUE]}

AllConfigs == IsoConfigs \cup XvaConfigs
AllPipelines == [c \in AllConfigs |-> PipelineOf(c)]

(* PipelineOf looks at three fields: these are the pipelines of all        *)
(* configurations, and they are as the proofs assume.                      *)
Shapes == {[Full EXCEPT !.builder = b, !.isoName = i, !.skipTemplate = t] :
              b \in {"iso", "xva"}, i \in BOOLEAN, t \in BOOLEAN}
ASSUME ShapesAssumption == \A c \in Shapes : SoundPipeline(c, PipelineOf(c))

BuildDisks == {"disk1", "disk2"}
=============================================================================
