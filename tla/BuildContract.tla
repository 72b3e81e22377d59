--------------------------- MODULE BuildContract ---------------------------
(***************************************************************************)
(* What a build promises to the pool: it makes objects while it works,     *)
(* then unwinds, and when it returns it owns nothing that its policy wants *)
(* gone, unless a message has named it.  BuildPipeline implements this     *)
(* contract.                                                               *)
(***************************************************************************)
CONSTANT Objects    \* what a build can make in the pool

VARIABLES
    policy,         \* keep_vm
    stage,          \* "working", "unwinding" or "over"
    owned,          \* the objects it has made and that no message has named
    failed,         \* it had failed or been cancelled when it began to unwind
    outcome         \* what Builder.Run returned, "none" before

contract == <<policy, stage, owned, failed, outcome>>

Policies == {"always", "never", "on_success"}
Outcomes == {"error", "cancelled", "halted", "artifact"}

Init ==
    /\ policy \in Policies
    /\ stage = "working" /\ owned = {} /\ failed = FALSE /\ outcome = "none"

(* A step makes objects, takes them away, or names them. *)
Work ==
    /\ stage = "working"
    /\ owned' \in SUBSET Objects
    /\ UNCHANGED <<policy, stage, failed, outcome>>

(* The last step to run ends, well or not. *)
Turn ==
    /\ stage = "working" /\ stage' = "unwinding"
    /\ owned' \in SUBSET Objects
    /\ failed' \in BOOLEAN
    /\ UNCHANGED <<policy, outcome>>

(* A cleanup takes objects away or names them, none if the VM is kept.     *)
Unwind ==
    /\ stage = "unwinding"
    /\ owned' \in SUBSET owned
    /\ policy = "always" => owned' = owned
    /\ UNCHANGED <<policy, stage, failed, outcome>>

(* Whether the policy leaves nothing to a build that is over. *)
Clears == policy = "never" \/ (policy = "on_success" /\ failed)

Return ==
    /\ stage = "unwinding" /\ stage' = "over"
    /\ Clears => owned = {}
    /\ outcome' \in Outcomes
    /\ failed => outcome' # "artifact"
    /\ UNCHANGED <<policy, owned, failed>>

Next == Work \/ Turn \/ Unwind \/ Return

Spec == Init /\ [][Next]_contract
=============================================================================
