------------------------- MODULE InterruptibleWait -------------------------
(***************************************************************************)
(* The waits of a build (interruptible_wait.go): the goroutine in Wait,    *)
(* which checks for an interrupt once a second, and the one it starts to   *)
(* call the Predicate, joined by a channel of one and by the channel       *)
(* stopWaiting that the first closes when it returns.  A wait's second     *)
(* goroutine may outlive it and run beside the waits that follow.          *)
(***************************************************************************)
EXTENDS Naturals, Sequences

CONSTANT
    Waits           \* for each wait, in their order: has it a Predicate?

ASSUME WaitsTyped == Waits \in Seq(BOOLEAN)

Wait == DOMAIN Waits

VARIABLES
    waiter,         \* of a wait: idle, check, select, returned
    poller,         \* its second goroutine: none, calling, sending, resting, ended
    verdict,        \* what the Predicate said last: none, again, complete, failed
    predicateResult,\* the channel of one
    stopWaiting,    \* the waits whose stopWaiting is closed
    expired,        \* the waits whose Timeout has fired
    outcome,        \* what Wait has returned
    cancelled,      \* the state bag has StateCancelled
    late            \* history: the waits that began after that

vars == <<waiter, poller, verdict, predicateResult, stopWaiting, expired,
          outcome, cancelled, late>>

Contract == INSTANCE WaitContract WITH
    stage <- [w \in Wait |-> IF waiter[w] = "idle" THEN "idle"
                             ELSE IF w \in late THEN "late" ELSE "open"],
    spoken <- [w \in Wait |-> IF verdict[w] = "again" THEN "none" ELSE verdict[w]]

Init ==
    /\ waiter = [w \in Wait |-> "idle"]
    /\ poller = [w \in Wait |-> "none"]
    /\ verdict = [w \in Wait |-> "none"]
    /\ predicateResult = [w \in Wait |-> <<>>]
    /\ stopWaiting = {}
    /\ expired = {}
    /\ outcome = [w \in Wait |-> "none"]
    /\ cancelled = FALSE
    /\ late = {}

waiterVars == <<waiter, stopWaiting, outcome>>
pollerVars == <<poller, verdict>>

-----------------------------------------------------------------------------
(* The goroutine in Wait.                                                  *)

(* The second goroutine is started and the timer set.  The steps that wait *)
(* halt the build when they get an error.                                  *)
Begin(w) ==
    /\ waiter[w] = "idle" /\ \A v \in 1 .. (w - 1) : outcome[v] = "nil"
    /\ waiter' = [waiter EXCEPT ![w] = "check"]
    /\ poller' = [poller EXCEPT ![w] = IF Waits[w] THEN "calling" ELSE "none"]
    /\ late' = IF cancelled THEN late \cup {w} ELSE late
    /\ UNCHANGED <<verdict, predicateResult, stopWaiting, expired, outcome, cancelled>>

CloseOnReturn(w) == stopWaiting' = stopWaiting \cup {w}

Returns(w, error) ==
    /\ waiter' = [waiter EXCEPT ![w] = "returned"]
    /\ outcome' = [outcome EXCEPT ![w] = error]
    /\ CloseOnReturn(w)
    /\ UNCHANGED <<pollerVars, expired, cancelled, late>>

(* The top of the loop looks for the interrupt. *)
CheckCancelled(w) ==
    /\ waiter[w] = "check"
    /\ \/ cancelled /\ Returns(w, "InterruptedError")
       \/ /\ ~cancelled /\ waiter' = [waiter EXCEPT ![w] = "select"]
          /\ UNCHANGED <<pollerVars, stopWaiting, expired, outcome, cancelled, late>>
    /\ UNCHANGED predicateResult

(* Careless form of Tick: the loop begins after the check. *)
TickWithoutCheck(w) ==
    waiter[w] = "select" /\ UNCHANGED vars

(* The cases of the select: of those that are ready any may be taken.  The *)
(* tick of a second may come before or with the others.                    *)
Tick(w) ==
    /\ waiter[w] = "select"
    /\ waiter' = [waiter EXCEPT ![w] = "check"]
    /\ UNCHANGED <<pollerVars, predicateResult, stopWaiting, expired, outcome, cancelled, late>>

TakeResult(w) ==
    /\ waiter[w] = "select" /\ predicateResult[w] # <<>>
    /\ Returns(w, IF Head(predicateResult[w]) = "failed" THEN "PredicateError" ELSE "nil")
    /\ predicateResult' = [predicateResult EXCEPT ![w] = Tail(@)]

(* Careless form of TakeTimeout: nil, with a Predicate or without. *)
TimeoutIsNil(w) ==
    /\ waiter[w] = "select" /\ w \in expired
    /\ Returns(w, "nil")
    /\ UNCHANGED predicateResult

TakeTimeout(w) ==
    /\ waiter[w] = "select" /\ w \in expired
    /\ Returns(w, IF Waits[w] THEN "TimeoutError" ELSE "nil")
    /\ UNCHANGED predicateResult

-----------------------------------------------------------------------------
(* The goroutine that calls the Predicate.                                 *)

(* Careless form of PredicateReturns: any answer is the last one. *)
FirstAnswerCounts(w) ==
    /\ poller[w] = "calling"
    /\ \E said \in {"again", "complete", "failed"} :
       verdict' = [verdict EXCEPT ![w] = said]
    /\ poller' = [poller EXCEPT ![w] = "sending"]
    /\ UNCHANGED <<waiterVars, predicateResult, expired, cancelled, late>>

(* A call of the Predicate returns. *)
PredicateReturns(w) ==
    /\ poller[w] = "calling"
    /\ \E said \in {"again", "complete", "failed"} :
       /\ verdict' = [verdict EXCEPT ![w] = said]
       /\ poller' = [poller EXCEPT ![w] = IF said = "again" THEN "resting" ELSE "sending"]
    /\ UNCHANGED <<waiterVars, predicateResult, expired, cancelled, late>>

(* Careless form of Room: the channel has no buffer, Wait must receive. *)
RoomUnbuffered(w) == waiter[w] = "select"

Room(w) == Len(predicateResult[w]) < 1

SendResult(w) ==
    /\ poller[w] = "sending" /\ Room(w)
    /\ predicateResult' = [predicateResult EXCEPT ![w] = Append(@, verdict[w])]
    /\ poller' = [poller EXCEPT ![w] = "ended"]
    /\ UNCHANGED <<waiterVars, verdict, expired, cancelled, late>>

(* PredicateInterval is over: another call. *)
PollAgain(w) ==
    /\ poller[w] = "resting"
    /\ poller' = [poller EXCEPT ![w] = "calling"]
    /\ UNCHANGED <<waiterVars, verdict, predicateResult, expired, cancelled, late>>

StopPolling(w) ==
    /\ poller[w] = "resting" /\ w \in stopWaiting
    /\ poller' = [poller EXCEPT ![w] = "ended"]
    /\ UNCHANGED <<waiterVars, verdict, predicateResult, expired, cancelled, late>>

-----------------------------------------------------------------------------
(* Time, and the runner that writes the cancelled flag.                    *)

Expire(w) ==
    /\ waiter[w] # "idle"
    /\ expired' = expired \cup {w}
    /\ UNCHANGED <<waiterVars, pollerVars, predicateResult, cancelled, late>>

MarkCancelled ==
    /\ cancelled' = TRUE
    /\ UNCHANGED <<waiterVars, pollerVars, predicateResult, expired, late>>

Waiting(w) == Begin(w) \/ CheckCancelled(w) \/ Tick(w) \/ TakeResult(w) \/ TakeTimeout(w)
Polling(w) == PredicateReturns(w) \/ SendResult(w) \/ PollAgain(w) \/ StopPolling(w)

Next == MarkCancelled \/ \E w \in Wait : Waiting(w) \/ Polling(w) \/ Expire(w)

Spec == Init /\ [][Next]_vars

(* A goroutine that can run does, and a call of the Predicate returns.     *)
(* A select takes a case that is ready time and again: Go chooses among    *)
(* the ready ones at random.  No Timeout need ever fire (it may be 24 h).  *)
FairSpec ==
    /\ Spec
    /\ \A w \in Wait : /\ WF_vars(Waiting(w)) /\ WF_vars(Polling(w))
                       /\ SF_vars(TakeResult(w)) /\ SF_vars(TakeTimeout(w))
                       /\ SF_vars(StopPolling(w))

-----------------------------------------------------------------------------
(* Properties.                                                             *)

(* Every variable keeps its type. *)
TypeOK ==
    /\ waiter \in [Wait -> {"idle", "check", "select", "returned"}]
    /\ poller \in [Wait -> {"none", "calling", "sending", "resting", "ended"}]
    /\ verdict \in [Wait -> {"none", "again", "complete", "failed"}]
    /\ predicateResult \in [Wait -> {<<>>, <<"complete">>, <<"failed">>}]
    /\ stopWaiting \in SUBSET Wait /\ expired \in SUBSET Wait
    /\ outcome \in [Wait -> Contract!Errors \cup {"none", "nil"}]
    /\ cancelled \in BOOLEAN /\ late \in SUBSET Wait

(* When Wait has returned nil to a step with a Predicate, that goroutine   *)
(* is over: what the Predicate wrote for the step (the address StepWaitForIP*)
(* goes on with) is not written any more while the step reads it.     *)
NilIsQuiet ==
    \A w \in Wait : Waits[w] /\ outcome[w] = "nil" => poller[w] = "ended"

(* Wait returns what it promises when it promises to, in time too: also an *)
(* interrupt is noticed by a wait whose Timeout never fires.               *)
MeetsContract == Contract!FairSpec

(* No goroutine is left behind for good by a wait that has returned.       *)
PollersEnd ==
    \A w \in Wait : waiter[w] = "returned" ~> poller[w] \in {"none", "ended"}

(* The comment of Wait: if the command is interrupted by the user, then an *)
(* InterruptedError is returned.                                           *)
DocInterrupted ==
    [][\A w \in Wait : cancelled /\ outcome[w] # outcome'[w]
                          => outcome'[w] = "InterruptedError"]_vars
=============================================================================
