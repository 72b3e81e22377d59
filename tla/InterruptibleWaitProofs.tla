----------------------- MODULE InterruptibleWaitProofs -----------------------
(***************************************************************************)
(* What holds of the waits of any build, however many there are and        *)
(* whichever have a Predicate.                                             *)
(***************************************************************************)
EXTENDS InterruptibleWait, TLAPS

(* How far the two goroutines of wait w have come, seen together: what the *)
(* channel holds is the Predicate's last word, and Wait has returned if    *)
(* and only if it has an outcome.                                          *)
InStep(w) ==
    /\ waiter[w] = "idle" => /\ poller[w] = "none" /\ w \notin expired
    /\ ~Waits[w] => poller[w] = "none"
    /\ poller[w] = "none" => verdict[w] = "none"
    /\ poller[w] \in {"calling", "resting"} => verdict[w] \in {"none", "again"}
    /\ poller[w] = "sending" => verdict[w] \in {"complete", "failed"}
    /\ predicateResult[w] # <<>> => /\ poller[w] = "ended"
                                    /\ verdict[w] \in {"complete", "failed"}
                                    /\ predicateResult[w] = <<verdict[w]>>
    /\ outcome[w] = "none" <=> waiter[w] # "returned"
    /\ Waits[w] /\ outcome[w] = "nil" => poller[w] = "ended"
    /\ w \in late => cancelled /\ waiter[w] \in {"check", "returned"}

Inv == TypeOK /\ \A w \in Wait : InStep(w)

-----------------------------------------------------------------------------

(* What is sent is alone in the channel, and gone when it is received. *)
LEMMA Alone ==
    ASSUME NEW v \in {"complete", "failed"}
    PROVE  /\ Append(<<>>, v) = <<v>>
           /\ Head(<<v>>) = v /\ Tail(<<v>>) = <<>>
  OBVIOUS

(* No step of the goroutines or of their environment breaks a type. *)
LEMMA StepTyped ==
    ASSUME Inv, [Next]_vars
    PROVE  TypeOK'
<1>0. TypeOK /\ \A w \in Wait : InStep(w)
  BY DEF Inv
<1>1. CASE MarkCancelled
  BY <1>0, <1>1 DEF MarkCancelled, TypeOK, waiterVars, pollerVars
<1>2. ASSUME NEW w \in Wait, Waiting(w) PROVE TypeOK'
  <2>1. CASE Begin(w)
    BY <1>0, <2>1, <1>2 DEF Begin, TypeOK
  <2>2. CASE CheckCancelled(w)
    BY <1>0, <2>2, <1>2 DEF CheckCancelled, Returns, CloseOnReturn, TypeOK, pollerVars, Contract!Errors
  <2>3. CASE Tick(w)
    BY <1>0, <2>3, <1>2 DEF Tick, TypeOK, pollerVars
  <2>4. CASE TakeResult(w)
    <3>1. PICK v \in {"complete", "failed"} : predicateResult[w] = <<v>>
      BY <1>0, <2>4, <1>2 DEF TakeResult, TypeOK
    <3>2. Tail(predicateResult[w]) = <<>>
      BY <3>1, Alone
    <3>3. QED
      BY <1>0, <2>4, <3>2, <1>2 DEF TakeResult, Returns, CloseOnReturn, TypeOK, pollerVars, Contract!Errors
  <2>5. CASE TakeTimeout(w)
    BY <1>0, <2>5, <1>2 DEF TakeTimeout, Returns, CloseOnReturn, TypeOK, pollerVars, Contract!Errors
  <2>6. QED
    BY <1>2, <2>1, <2>2, <2>3, <2>4, <2>5 DEF Waiting
<1>3. ASSUME NEW w \in Wait, Polling(w) PROVE TypeOK'
  <2>1. CASE PredicateReturns(w)
    BY <1>0, <2>1, <1>3 DEF PredicateReturns, TypeOK, waiterVars
  <2>2. CASE SendResult(w)
    <3>1. predicateResult[w] = <<>> /\ verdict[w] \in {"complete", "failed"}
      BY <1>0, <2>2, <1>3 DEF SendResult, InStep
    <3>2. Append(predicateResult[w], verdict[w]) \in {<<"complete">>, <<"failed">>}
      BY <3>1, Alone
    <3>3. QED
      BY <1>0, <2>2, <3>2, <1>3 DEF SendResult, TypeOK, waiterVars
  <2>3. CASE PollAgain(w)
    BY <1>0, <2>3, <1>3 DEF PollAgain, TypeOK, waiterVars
  <2>4. CASE StopPolling(w)
    BY <1>0, <2>4, <1>3 DEF StopPolling, TypeOK, waiterVars
  <2>5. QED
    BY <1>3, <2>1, <2>2, <2>3, <2>4 DEF Polling
<1>4. ASSUME NEW w \in Wait, Expire(w) PROVE TypeOK'
  BY <1>0, <1>4 DEF Expire, TypeOK, waiterVars, pollerVars
<1>5. CASE UNCHANGED vars
  BY <1>0, <1>5 DEF vars, TypeOK
<1>6. QED
  BY <1>1, <1>2, <1>3, <1>4, <1>5 DEF Next

(* What is local to wait u, and what InStep reads beside it. *)
Local(u) == <<waiter[u], poller[u], verdict[u], predicateResult[u], outcome[u],
              u \in expired, u \in late>>

(* A wait that is left alone stays in step, also when the interrupt comes. *)
LEMMA LeftAlone ==
    ASSUME NEW u \in Wait, InStep(u), Local(u)' = Local(u), cancelled => cancelled'
    PROVE  InStep(u)'
  BY DEF InStep, Local

(* No step takes the goroutines of a wait out of step with each other. *)
LEMMA StepKept ==
    ASSUME Inv, [Next]_vars, NEW u \in Wait
    PROVE  InStep(u)'
<1>0. TypeOK /\ TypeOK' /\ InStep(u)
  BY StepTyped DEF Inv
<1>1. CASE MarkCancelled
  BY <1>0, <1>1, LeftAlone DEF MarkCancelled, Local, waiterVars, pollerVars
<1>2. ASSUME NEW w \in Wait, Waiting(w) PROVE InStep(u)'
  <2>1. CASE u # w
    <3>1. Local(u)' = Local(u) /\ cancelled' = cancelled
      BY <1>0, <1>2, <2>1 DEF Waiting, Begin, CheckCancelled, Tick, TakeResult, TakeTimeout,
         Returns, CloseOnReturn, Local, TypeOK, pollerVars
    <3>2. QED
      BY <1>0, <3>1, LeftAlone
  <2>2. CASE u = w
    <3>1. CASE Begin(w)
      BY <1>0, <2>2, <3>1 DEF Begin, InStep, TypeOK
    <3>2. CASE CheckCancelled(w)
      BY <1>0, <2>2, <3>2 DEF CheckCancelled, Returns, InStep, TypeOK, pollerVars
    <3>3. CASE Tick(w)
      BY <1>0, <2>2, <3>3 DEF Tick, InStep, TypeOK, pollerVars
    <3>4. CASE TakeResult(w)
      <4>1. PICK v \in {"complete", "failed"} : predicateResult[w] = <<v>>
        BY <1>0, <2>2, <3>4 DEF TakeResult, TypeOK
      <4>2. predicateResult'[w] = <<>>
        BY <1>0, <2>2, <3>4, <4>1, Alone DEF TakeResult, TypeOK
      <4>3. QED
        BY <1>0, <2>2, <3>4, <4>2 DEF TakeResult, Returns, InStep, TypeOK, pollerVars
    <3>5. CASE TakeTimeout(w)
      BY <1>0, <2>2, <3>5 DEF TakeTimeout, Returns, InStep, TypeOK, pollerVars
    <3>6. QED
      BY <1>2, <3>1, <3>2, <3>3, <3>4, <3>5 DEF Waiting
  <2>3. QED
    BY <2>1, <2>2
<1>3. ASSUME NEW w \in Wait, Polling(w) PROVE InStep(u)'
  <2>1. CASE u # w
    <3>1. Local(u)' = Local(u) /\ cancelled' = cancelled
      BY <1>0, <1>3, <2>1 DEF Polling, PredicateReturns, SendResult, PollAgain, StopPolling,
         Local, TypeOK, waiterVars
    <3>2. QED
      BY <1>0, <3>1, LeftAlone
  <2>2. CASE u = w
    <3>1. CASE PredicateReturns(w)
      BY <1>0, <2>2, <3>1 DEF PredicateReturns, InStep, TypeOK, waiterVars
    <3>2. CASE SendResult(w)
      <4>1. predicateResult[w] = <<>> /\ verdict[w] \in {"complete", "failed"}
        BY <1>0, <2>2, <3>2 DEF SendResult, InStep
      <4>2. predicateResult'[w] = <<verdict[w]>>
        BY <1>0, <2>2, <3>2, <4>1, Alone DEF SendResult, TypeOK
      <4>3. QED
        BY <1>0, <2>2, <3>2, <4>1, <4>2 DEF SendResult, InStep, TypeOK, waiterVars
    <3>3. CASE PollAgain(w)
      BY <1>0, <2>2, <3>3 DEF PollAgain, InStep, TypeOK, waiterVars
    <3>4. CASE StopPolling(w)
      BY <1>0, <2>2, <3>4 DEF StopPolling, InStep, TypeOK, waiterVars
    <3>5. QED
      BY <1>3, <3>1, <3>2, <3>3, <3>4 DEF Polling
  <2>3. QED
    BY <2>1, <2>2
<1>4. ASSUME NEW w \in Wait, Expire(w) PROVE InStep(u)'
  BY <1>0, <1>4 DEF Expire, InStep, TypeOK, waiterVars, pollerVars
<1>5. CASE UNCHANGED vars
  BY <1>0, <1>5, LeftAlone DEF vars, Local
<1>6. QED
  BY <1>1, <1>2, <1>3, <1>4, <1>5 DEF Next

(* The inductive invariant. *)
LEMMA WaitInvariant == Spec => []Inv
<1>1. Init => Inv
  BY DEF Init, Inv, InStep, TypeOK
<1>2. Inv /\ [Next]_vars => Inv'
  BY StepTyped, StepKept DEF Inv, Wait
<1>3. QED
  BY <1>1, <1>2, PTL DEF Spec

-----------------------------------------------------------------------------

(* The variables of the waits keep their types, for any waits. *)
THEOREM WaitTypeCorrect == Spec => []TypeOK
  BY WaitInvariant, PTL DEF Inv

(* After a nil for a Predicate its goroutine is over, for any waits: no    *)
(* step reads what a Predicate is still writing.                           *)
THEOREM NilMeansQuiet == Spec => []NilIsQuiet
<1>1. Inv => NilIsQuiet
  BY DEF Inv, InStep, NilIsQuiet
<1>2. QED
  BY <1>1, WaitInvariant, PTL
-----------------------------------------------------------------------------

(* What the contract sees of the waits. *)
Stage == [w \in Wait |-> IF waiter[w] = "idle" THEN "idle"
                         ELSE IF w \in late THEN "late" ELSE "open"]
Spoken == [w \in Wait |-> IF verdict[w] = "again" THEN "none" ELSE verdict[w]]

(* A step that returns from a wait with a justified outcome is the         *)
(* contract's Return.                                                      *)
LEMMA ReturnIsJustified ==
    ASSUME Inv, NEW w \in Wait, waiter[w] # "idle", outcome[w] = "none",
           NEW o \in Contract!Errors \cup {"nil"}, Returns(w, o), Contract!Justified(w, o)
    PROVE  Contract!Return(w)
<1>1. Stage' = Stage /\ Spoken' = Spoken
  BY DEF Inv, TypeOK, Returns, Stage, Spoken, pollerVars
<1>2. Contract!Open(w)
  BY DEF Contract!Open
<1>3. QED
  BY <1>1, <1>2 DEF Contract!Return, Returns, Stage, Spoken, pollerVars

(* Each step of the goroutine in Wait is one of the contract, or none. *)
LEMMA WaitingRefines ==
    ASSUME Inv, NEW w \in Wait, Waiting(w)
    PROVE  Contract!Next \/ UNCHANGED Contract!vars
<1>0. TypeOK /\ InStep(w)
  BY DEF Inv
<1>1. CASE Begin(w)
  <2>1. Stage' = [Stage EXCEPT ![w] = IF cancelled THEN "late" ELSE "open"]
    BY <1>0, <1>1 DEF Begin, Stage, TypeOK, InStep
  <2>2. Spoken' = Spoken
    BY <1>1 DEF Begin, Spoken
  <2>3. Contract!Start(w)
    BY <1>1, <2>1, <2>2 DEF Begin, Contract!Start, Stage, Spoken
  <2>4. QED
    BY <2>3 DEF Contract!Next, Contract!Wait, Wait
<1>2. CASE CheckCancelled(w)
  <2>1. CASE cancelled
    <3>1. Contract!Return(w)
      BY <1>0, <1>2, <2>1, ReturnIsJustified
         DEF CheckCancelled, InStep, Contract!Justified, Contract!Errors
    <3>2. QED
      BY <3>1 DEF Contract!Next, Contract!Wait, Wait
  <2>2. CASE ~cancelled
    <3>1. Stage' = Stage /\ Spoken' = Spoken
      BY <1>0, <1>2, <2>2 DEF CheckCancelled, Stage, Spoken, TypeOK, pollerVars
    <3>2. QED
      BY <1>2, <2>2, <3>1 DEF CheckCancelled, Contract!vars, Stage, Spoken
  <2>3. QED
    BY <2>1, <2>2
<1>3. CASE Tick(w)
  <2>1. Stage' = Stage /\ Spoken' = Spoken
    BY <1>0, <1>3 DEF Tick, Stage, Spoken, TypeOK, pollerVars
  <2>2. QED
    BY <1>3, <2>1 DEF Tick, Contract!vars, Stage, Spoken
<1>4. CASE TakeResult(w)
  <2>1. /\ predicateResult[w] = <<verdict[w]>>
        /\ verdict[w] \in {"complete", "failed"}
        /\ Waits[w] /\ waiter[w] = "select" /\ w \notin late /\ outcome[w] = "none"
    BY <1>0, <1>4 DEF TakeResult, InStep
  <2>2. Head(predicateResult[w]) = verdict[w]
    BY <2>1, Alone
  <2>3. Contract!Return(w)
    BY <1>4, <2>1, <2>2, ReturnIsJustified DEF TakeResult, Contract!Justified, Contract!Errors
  <2>4. QED
    BY <2>3 DEF Contract!Next, Contract!Wait, Wait
<1>5. CASE TakeTimeout(w)
  <2>1. waiter[w] = "select" /\ w \notin late /\ outcome[w] = "none"
    BY <1>0, <1>5 DEF TakeTimeout, InStep
  <2>2. Contract!Return(w)
    BY <1>5, <2>1, ReturnIsJustified DEF TakeTimeout, Contract!Justified, Contract!Errors
  <2>3. QED
    BY <2>2 DEF Contract!Next, Contract!Wait, Wait
<1>6. QED
  BY <1>1, <1>2, <1>3, <1>4, <1>5 DEF Waiting

(* So is each step of the goroutine that calls the Predicate. *)
LEMMA PollingRefines ==
    ASSUME Inv, NEW w \in Wait, Polling(w)
    PROVE  Contract!Next \/ UNCHANGED Contract!vars
<1>0. TypeOK /\ InStep(w)
  BY DEF Inv
<1>1. CASE PredicateReturns(w)
  <2>1. PICK said \in {"again", "complete", "failed"} :
           verdict' = [verdict EXCEPT ![w] = said]
    BY <1>1 DEF PredicateReturns
  <2>2. Stage' = Stage
    BY <1>1 DEF PredicateReturns, waiterVars, Stage
  <2>3. Spoken[w] = "none"
    BY <1>0, <1>1 DEF PredicateReturns, InStep, Spoken
  <2>4. CASE said = "again"
    <3>1. Spoken' = Spoken
      BY <1>0, <2>1, <2>3, <2>4 DEF Spoken, TypeOK
    <3>2. QED
      BY <1>1, <2>2, <3>1 DEF PredicateReturns, waiterVars, Contract!vars, Stage, Spoken
  <2>5. CASE said # "again"
    <3>1. Spoken' = [Spoken EXCEPT ![w] = said]
      BY <1>0, <2>1, <2>5 DEF Spoken, TypeOK
    <3>2. Waits[w] /\ waiter[w] # "idle"
      BY <1>0, <1>1, WaitsTyped DEF PredicateReturns, InStep
    <3>3. Contract!Speak(w, said)
      BY <1>1, <2>2, <2>3, <3>1, <3>2 DEF Contract!Speak, PredicateReturns, waiterVars, Stage, Spoken
    <3>4. QED
      BY <2>5, <3>3 DEF Contract!Next, Contract!Wait, Wait
  <2>6. QED
    BY <2>4, <2>5
<1>2. CASE SendResult(w) \/ PollAgain(w) \/ StopPolling(w)
  <2>1. UNCHANGED <<waiter, verdict, expired, outcome, cancelled, late>>
    BY <1>2 DEF SendResult, PollAgain, StopPolling, waiterVars
  <2>2. QED
    BY <2>1 DEF Contract!vars
<1>3. QED
  BY <1>1, <1>2 DEF Polling

(* The code keeps the contract, for any waits: each outcome has its reason,*)
(* the Predicate has one last word, and a wait that begins after the       *)
(* interrupt is interrupted.                                               *)
THEOREM KeepsContract == Spec => Contract!Spec
<1>1. Init => Contract!Init
  BY DEF Init, Contract!Init, Contract!Wait, Wait
<1>2. Inv /\ [Next]_vars => [Contract!Next]_(Contract!vars)
  <2> SUFFICES ASSUME Inv, [Next]_vars
               PROVE  Contract!Next \/ UNCHANGED Contract!vars
    OBVIOUS
  <2>1. CASE MarkCancelled
    <3>1. Contract!Interrupt
      BY <2>1 DEF MarkCancelled, Contract!Interrupt, waiterVars, pollerVars
    <3>2. QED
      BY <3>1 DEF Contract!Next
  <2>2. ASSUME NEW w \in Wait, Expire(w) PROVE Contract!Next
    <3>1. Contract!Expire(w)
      BY <2>2 DEF Expire, Contract!Expire, waiterVars, pollerVars
    <3>2. QED
      BY <3>1 DEF Contract!Next, Contract!Wait, Wait
  <2>3. CASE UNCHANGED vars
    BY <2>3 DEF vars, Contract!vars
  <2>4. QED
    BY <2>1, <2>2, <2>3, WaitingRefines, PollingRefines DEF Next
<1>3. QED
  BY <1>1, <1>2, WaitInvariant, PTL DEF Spec, Contract!Spec
=============================================================================
