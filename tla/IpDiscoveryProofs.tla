------------------------- MODULE IpDiscoveryProofs -------------------------
(***************************************************************************)
(* What holds of the discovery of an address for any addresses, senders of *)
(* requests and values of ip_getter, and however often the guest moves.    *)
(***************************************************************************)
EXTENDS IpDiscovery, TLAPS

(* The addresses that ip_getter allows and that have been made known. *)
Allowed == (IF IPGetter = "tools" THEN {} ELSE asked)
           \cup (IF IPGetter = "http" THEN {} ELSE told)

(* What waits to be learnt has been made known; what has been learnt was   *)
(* allowed.                                                                *)
Sources ==
    /\ IPGetter \in {"auto", "http", "tools"}
    /\ "" \notin asked \cup told /\ "missing" \notin asked \cup told
    /\ httpReqChan # <<>> => Head(httpReqChan) \in asked /\ Tail(httpReqChan) = <<>>
    /\ metrics # "" => metrics \in told
    /\ guest # "" => guest \in Addresses
    /\ getterIp # "" => getterIp \in Allowed

(* Before the getter's first Put there is no address to be found; from     *)
(* then on the bag follows the getter until the step writes it back.       *)
Order ==
    /\ getter \in {"none", "starting", "looping"}
    /\ step \in {"idle", "waiting", "found", "continued", "halted"}
    /\ step = "idle" => getter = "none"
    /\ getter # "looping" => sshAddress = "missing" /\ getterIp = ""
                             /\ step \in {"idle", "waiting", "halted"}
    /\ BagFollowsGetter
    /\ step \in {"found", "continued"} => stepIp \in Allowed /\ getterIp # ""

Inv == Sources /\ Order

-----------------------------------------------------------------------------
(* One address in the channel. *)
LEMMA OneAddress ==
    ASSUME NEW ip
    PROVE  /\ <<ip>> # <<>> /\ Head(<<ip>>) = ip /\ Tail(<<ip>>) = <<>>
  OBVIOUS

(* No step makes up an address. *)
LEMMA SourcesKept ==
    ASSUME Inv, [Next]_vars
    PROVE  Sources'
<1> USE DEF Inv, Sources, Allowed
<1>1. CASE GuestMoves
  BY <1>1, AddressAssumption DEF GuestMoves
<1>2. CASE ToolsReport
  BY <1>2, AddressAssumption DEF ToolsReport
<1>3. CASE ServeHTTP
  <2>1. PICK ip \in {guest} \cup Gateways : Snoop(ip) /\ asked' = asked \cup {ip}
    BY <1>3 DEF ServeHTTP
  <2>2. ip \notin {"", "missing"}
    BY <1>3, <2>1, AddressAssumption DEF ServeHTTP
  <2>3. httpReqChan' = httpReqChan \/ httpReqChan' = <<ip>>
    BY <2>1 DEF Snoop
  <2>4. QED
    BY <1>3, <2>1, <2>2, <2>3, OneAddress DEF ServeHTTP
<1>4. CASE GetterStarts
  BY <1>4 DEF GetterStarts, guestVars
<1>5. CASE TakeSnooped
  BY <1>5 DEF TakeSnooped, Snoops, Learn, guestVars
<1>6. CASE AskTools
  BY <1>6 DEF AskTools, Learn, guestVars
<1>7. CASE WaitForIP
  BY <1>7 DEF WaitForIP, StepRuns, Predicate, Continues, guestVars
<1>8. CASE Fails
  BY <1>8 DEF Fails, guestVars
<1>9. CASE UNCHANGED vars
  BY <1>9 DEF vars, guestVars
<1>10. QED
  BY <1>1, <1>2, <1>3, <1>4, <1>5, <1>6, <1>7, <1>8, <1>9 DEF Next, Getter

(* The guest, its tools and its requests only add to what is allowed. *)
LEMMA AllowedGrows ==
    ASSUME Inv, [Next]_vars
    PROVE  Allowed \subseteq Allowed'
  BY DEF Next, vars, guestVars, Allowed, GuestMoves, ToolsReport, ServeHTTP, Getter,
     GetterStarts, TakeSnooped, AskTools, WaitForIP, StepRuns, Predicate, Continues, Fails

(* No step takes getter, bag and step out of their order. *)
LEMMA OrderKept ==
    ASSUME Inv, [Next]_vars
    PROVE  Order'
<1>0. Allowed \subseteq Allowed'
  BY AllowedGrows
<1> USE <1>0 DEF Inv, Order, BagFollowsGetter
<1>1. CASE GuestMoves
  BY <1>1 DEF GuestMoves
<1>2. CASE ToolsReport
  BY <1>2 DEF ToolsReport
<1>3. CASE ServeHTTP
  BY <1>3 DEF ServeHTTP
<1>4. CASE GetterStarts
  BY <1>4 DEF GetterStarts, guestVars
<1>5. CASE TakeSnooped
  <2>1. Head(httpReqChan) # ""
    BY <1>5 DEF TakeSnooped, Snoops, Sources
  <2>2. QED
    BY <1>5, <2>1 DEF TakeSnooped, Snoops, Learn, guestVars
<1>6. CASE AskTools
  BY <1>6 DEF AskTools, Learn, guestVars
<1>7. CASE StepRuns
  BY <1>7 DEF StepRuns, guestVars
<1>8. CASE Predicate
  <2>1. sshAddress = getterIp /\ sshAddress \in Allowed
    BY <1>8 DEF Predicate, Found, Sources
  <2>2. QED
    BY <1>8, <2>1 DEF Predicate, Found, guestVars
<1>9. CASE Continues
  BY <1>9 DEF Continues, guestVars
<1>10. CASE Fails
  BY <1>10 DEF Fails, guestVars
<1>11. CASE UNCHANGED vars
  BY <1>11 DEF vars, guestVars
<1>12. QED
  BY <1>1, <1>2, <1>3, <1>4, <1>5, <1>6, <1>7, <1>8, <1>9, <1>10, <1>11
     DEF Next, Getter, WaitForIP

(* The inductive invariant. *)
LEMMA DiscoveryInvariant == Spec => []Inv
<1>1. Init => Inv
  BY AddressAssumption DEF Init, Inv, Sources, Order, BagFollowsGetter
<1>2. Inv /\ [Next]_vars => Inv'
  BY SourcesKept, OrderKept DEF Inv
<1>3. QED
  BY <1>1, <1>2, PTL DEF Spec

-----------------------------------------------------------------------------

(* Once the step has gone on, the bag has an address, and one that came    *)
(* the way ip_getter asks for.                                             *)
THEOREM AddressIsThere == Spec => []AddressStays
<1>1. Inv => AddressStays
  BY DEF Inv, Sources, Order, BagFollowsGetter, AddressStays, Allowed
<1>2. QED
  BY <1>1, DiscoveryInvariant, PTL

(* The bag has what the getter has last learnt, or what the step wrote     *)
(* back over it.                                                           *)
THEOREM BagFollows == Spec => []BagFollowsGetter
<1>1. Inv => BagFollowsGetter
  BY DEF Inv, Order
<1>2. QED
  BY <1>1, DiscoveryInvariant, PTL
-----------------------------------------------------------------------------
(* Types. *)
LEMMA MovesBound == MaxMoves \in Nat
  BY Zenon, AddressAssumption

LEMMA OneMore ==
    ASSUME NEW m \in 0 .. MaxMoves, m < MaxMoves
    PROVE  m + 1 \in 0 .. MaxMoves
  BY MovesBound

LEMMA StepTyped ==
    ASSUME TypeOK, [Next]_vars
    PROVE  TypeOK'
<1> USE DEF TypeOK
<1>1. CASE GuestMoves
  <2>1. moves' \in 0 .. MaxMoves
    <3>1. moves \in 0 .. MaxMoves /\ moves < MaxMoves /\ moves' = moves + 1
      BY <1>1 DEF GuestMoves
    <3> QED
      BY <3>1, OneMore
  <2> QED
    BY <1>1, <2>1 DEF GuestMoves
<1>2. CASE ToolsReport
  BY <1>2 DEF ToolsReport
<1>3. CASE ServeHTTP
  <2>1. PICK ip \in {guest} \cup Gateways : Snoop(ip) /\ asked' = asked \cup {ip}
    BY <1>3 DEF ServeHTTP
  <2>2. ip \in Addresses \cup Gateways
    BY <1>3, <2>1 DEF ServeHTTP
  <2>3. httpReqChan' = httpReqChan \/ httpReqChan' = <<ip>>
    BY <2>1 DEF Snoop
  <2> QED
    BY <1>3, <2>1, <2>2, <2>3 DEF ServeHTTP
<1>4. CASE TakeSnooped
  <2>1. PICK a \in Addresses \cup Gateways : httpReqChan = <<a>>
    BY <1>4 DEF TakeSnooped, Snoops
  <2>2. Head(httpReqChan) = a /\ Tail(httpReqChan) = <<>>
    BY <2>1, OneAddress
  <2>3. /\ httpReqChan' = <<>> /\ getterIp' = a /\ sshAddress' \in {a, sshAddress}
        /\ UNCHANGED <<guestVars, getter, step, stepIp>>
    BY <1>4, <2>2 DEF TakeSnooped, Learn
  <2> QED
    BY <2>3 DEF guestVars
<1>5. CASE AskTools
  BY <1>5 DEF AskTools, Learn, guestVars
<1>6. CASE GetterStarts \/ StepRuns \/ Predicate \/ Continues \/ Fails
  BY <1>6 DEF GetterStarts, StepRuns, Predicate, Found, Continues, Fails, guestVars
<1>7. CASE UNCHANGED vars
  BY <1>7 DEF vars, guestVars
<1> QED
  BY <1>1, <1>2, <1>3, <1>4, <1>5, <1>6, <1>7 DEF Next, Getter, WaitForIP

(* Every variable keeps its type: the channel holds at most one address,   *)
(* and what the step goes on with is none of the bag's placeholders.       *)
THEOREM DiscoveryTypeCorrect == Spec => []TypeOK
<1>1. Init => TypeOK
  <2>1. 0 \in 0 .. MaxMoves
    BY MovesBound
  <2> QED
    BY <2>1 DEF Init, TypeOK
<1> QED
  BY <1>1, StepTyped, PTL DEF Spec

=============================================================================
