---------------------------- MODULE WaitContract ----------------------------
(***************************************************************************)
(* What InterruptibleWait.Wait promises the steps that call it: the error  *)
(* it returns tells them truly why the wait is over, and it does return.   *)
(* The waits of a build are called one after another; a step whose wait    *)
(* failed halts, so that the next one begins after a nil.                  *)
(***************************************************************************)
EXTENDS Naturals, Sequences

CONSTANT
    Waits           \* for each wait, in their order: has it a Predicate?

Wait == DOMAIN Waits

VARIABLES
    stage,          \* of a wait: idle, open, or late (begun after the interrupt)
    cancelled,      \* the state bag has the key of an interrupt
    expired,        \* the waits whose Timeout is over
    spoken,         \* what the Predicate has said for good: none, complete, failed
    outcome         \* what Wait has returned

vars == <<stage, cancelled, expired, spoken, outcome>>

Errors == {"PredicateError", "TimeoutError", "InterruptedError"}

Init ==
    /\ stage = [w \in Wait |-> "idle"]
    /\ cancelled = FALSE
    /\ expired = {}
    /\ spoken = [w \in Wait |-> "none"]
    /\ outcome = [w \in Wait |-> "none"]

Open(w) == stage[w] # "idle" /\ outcome[w] = "none"

(* The step of wait w calls Wait. *)
Start(w) ==
    /\ stage[w] = "idle" /\ \A v \in 1 .. (w - 1) : outcome[v] = "nil"
    /\ stage' = [stage EXCEPT ![w] = IF cancelled THEN "late" ELSE "open"]
    /\ UNCHANGED <<cancelled, expired, spoken, outcome>>

Interrupt ==
    /\ cancelled' = TRUE
    /\ UNCHANGED <<stage, expired, spoken, outcome>>

Expire(w) ==
    /\ stage[w] # "idle"
    /\ expired' = expired \cup {w}
    /\ UNCHANGED <<stage, cancelled, spoken, outcome>>

(* The Predicate has its last say, once. *)
Speak(w, verdict) ==
    /\ Waits[w] /\ stage[w] # "idle" /\ spoken[w] = "none"
    /\ spoken' = [spoken EXCEPT ![w] = verdict]
    /\ UNCHANGED <<stage, cancelled, expired, outcome>>

(* What Wait may return, and when.  A wait that begins after the interrupt *)
(* can only be interrupted, even if its Predicate holds already.           *)
Justified(w, o) ==
    \/ o = "InterruptedError" /\ cancelled
    \/ /\ stage[w] = "open"
       /\ \/ o = "nil" /\ IF Waits[w] THEN spoken[w] = "complete" ELSE w \in expired
          \/ o = "PredicateError" /\ spoken[w] = "failed"
          \/ o = "TimeoutError" /\ Waits[w] /\ w \in expired

Return(w) ==
    /\ Open(w)
    /\ \E o \in Errors \cup {"nil"} :
       /\ Justified(w, o)
       /\ outcome' = [outcome EXCEPT ![w] = o]
    /\ UNCHANGED <<stage, cancelled, expired, spoken>>

Next ==
    \/ Interrupt
    \/ \E w \in Wait : \/ Start(w) \/ Expire(w) \/ Return(w)
                       \/ \E verdict \in {"complete", "failed"} : Speak(w, verdict)

Spec == Init /\ [][Next]_vars

(* A wait with a reason to be over does return. *)
FairSpec == Spec /\ \A w \in Wait : WF_vars(Return(w))
=============================================================================
