------------------------- MODULE ServerFlowsProofs -------------------------
(* Proofs of the invariants of ServerFlows for any number of flows, slots,     *)
(* adapters and addresses.                                                     *)
EXTENDS ServerFlows, FiniteSetTheorems, TLAPS

\* The MuxSession has one owner: the session, the accept_flow future while nothing
\* is pending, or the respond_flow future of a pending flow.
OneOwner ==
    \/ mux /\ accepting = "none" /\ ~responding
    \/ ~mux /\ accepting # "none" /\ ~responding /\ pending = NoPending
    \/ ~mux /\ accepting = "none" /\ responding /\ pending # NoPending

\* How far the questions about a flow have come.  An adapter that has not resolved
\* the name has no addresses; a resolution is complete when the last one was
\* admitted.
Asked(p) ==
    /\ p.resolved_cursor <= p.addresses
    /\ ~p.resolved => p.resolved_cursor = 0 /\ p.addresses = 0
    /\ p.resolution_complete /\ p.resolved => p.resolved_cursor = p.addresses
    /\ p.adapter_flow => p.admitted /\ p.resolution_complete

\* The pending flow: its stream is where the MuxSession is, it is the last flow that
\* was accepted, it is not attached, and an adapter has opened it only if it is
\* being answered.
PendingInStep ==
    /\ Asked(pending)
    /\ pending.adapter_flow => responding
    /\ pending # NoPending =>
        /\ pending.flow = accepted /\ accepted # 0
        /\ pending.stream = mux
        /\ accepted \notin active

IInv ==
    /\ TypeOK /\ NoStateError /\ SlotsCoverFlows
    /\ OneOwner /\ PendingInStep
    /\ \A f \in active : f <= accepted
-----------------------------------------------------------------------------
(* The questions of one poll.                                                  *)

\* What every question makes of a flow that no adapter has opened yet.
Fine(p, r) ==
    /\ r.then \in {"go", "wait", "respond"}
    /\ r.p \in PendingFlow /\ r.p.flow = p.flow
    /\ Asked(r.p)
    /\ r.p.adapter_flow => r.then = "respond"

\* A module that is asked can say ok, or leave or refuse the flow.
LEMMA AskResults ==
    ASSUME NEW p, NEW results, NEW done, NEW r \in Ask(p, results, done)
    PROVE  r \in done \/ r = Wait(p) \/ r = Reject(p)
BY DEF Ask

\* Waiting, refusing and going on leave what was asked as it is.
LEMMA LeaveFine ==
    ASSUME NEW p \in PendingFlow, Asked(p), ~p.adapter_flow
    PROVE  Fine(p, Wait(p)) /\ Fine(p, Reject(p)) /\ Fine(p, Go(p))
<1>1. Fine(p, Wait(p)) /\ Fine(p, Go(p))
  BY DEF Fine, Wait, Go
<1>2. Fine(p, Reject(p))
  <2> DEFINE q == [p EXCEPT !.accepted = FALSE]
  <2>1. /\ q \in PendingFlow /\ q.flow = p.flow /\ q.resolved_cursor = p.resolved_cursor
        /\ q.addresses = p.addresses /\ q.resolved = p.resolved
        /\ q.resolution_complete = p.resolution_complete /\ ~q.adapter_flow
    BY DEF PendingFlow
  <2>2. Reject(p).p = q /\ Reject(p).then = "respond"
    BY DEF Reject
  <2> HIDE DEF q
  <2> QED BY <2>1, <2>2 DEF Fine, Asked
<1> QED BY <1>1, <1>2

\* What follows each result.
LEMMA Then ==
    ASSUME NEW p \in PendingFlow
    PROVE  /\ Go(p).p = p /\ Go(p).then = "go"
           /\ Wait(p).p = p /\ Wait(p).then = "wait"
           /\ Reject(p).then = "respond"
           /\ Reject(p).p.admitted = p.admitted
BY DEF Go, Wait, Reject, PendingFlow

\* policy_admit_flow goes on only with an admitted flow.
LEMMA AdmitFine ==
    ASSUME NEW p \in PendingFlow, Asked(p), ~p.adapter_flow,
           NEW r \in policy_admit_flow(p)
    PROVE  Fine(p, r) /\ (r.then = "go" => r.p.admitted)
<1>1. CASE p.admitted
  BY <1>1, LeaveFine DEF policy_admit_flow, Go
<1>2. CASE ~p.admitted
  <2> DEFINE q == [p EXCEPT !.admitted = TRUE]
  <2>1. r = Go(q) \/ r = Wait(p) \/ r = Reject(p)
    BY <1>2, AskResults DEF policy_admit_flow
  <2>2. q \in PendingFlow /\ q.flow = p.flow /\ q.admitted /\ Asked(q) /\ ~q.adapter_flow
    BY DEF PendingFlow, Asked
  <2>3. Fine(p, Go(q)) /\ Go(q).p.admitted
    BY <2>2 DEF Fine, Go
  <2>4. Wait(p).then # "go" /\ Reject(p).then # "go"
    BY Then
  <2> HIDE DEF q
  <2> QED BY <2>1, <2>3, <2>4, LeaveFine
<1> QED BY <1>1, <1>2

\* next_adapter leaves the flow as it is.
LEMMA NextAdapterFine ==
    ASSUME NEW p \in PendingFlow, Asked(p), ~p.adapter_flow, NEW r \in next_adapter(p)
    PROVE  Fine(p, r) /\ r.p.admitted = p.admitted
<1>1. r = Reject(p) \/ r = Go(p)
  BY DEF next_adapter
<1> QED BY <1>1, LeaveFine, Then

\* adapter_resolve: the addresses come with nothing admitted of them.
LEMMA ResolveFine ==
    ASSUME NEW p \in PendingFlow, Asked(p), ~p.adapter_flow, NEW r \in adapter_resolve(p)
    PROVE  Fine(p, r) /\ r.p.admitted = p.admitted
<1>1. CASE p.resolution_complete \/ p.resolved
  <2>1. r = Go(p)
    BY <1>1 DEF adapter_resolve
  <2> QED BY <2>1, LeaveFine, Then
<1>2. CASE ~(p.resolution_complete \/ p.resolved)
  <2> DEFINE q == [p EXCEPT !.resolution_complete = TRUE]
             With(n) == [p EXCEPT !.resolved = TRUE, !.addresses = n]
  <2>1. \/ r = Go(q) \/ r = Wait(p) \/ r = Reject(p)
        \/ \E n \in 0..MaxAddresses : r = Go(With(n))
    BY <1>2, AskResults DEF adapter_resolve
  <2>2. Fine(p, Go(q)) /\ Go(q).p.admitted = p.admitted
    BY <1>2 DEF Fine, Go, PendingFlow, Asked
  <2>3. ASSUME NEW n \in 0..MaxAddresses
        PROVE  Fine(p, Go(With(n))) /\ Go(With(n)).p.admitted = p.admitted
    <3>1. n \in Nat
      BY ServerAssumption
    <3>2. With(n) \in PendingFlow /\ With(n).flow = p.flow /\ With(n).admitted = p.admitted
      BY <3>1 DEF PendingFlow
    <3>3. p.resolved_cursor = 0 /\ ~p.resolution_complete
      BY <1>2 DEF Asked
    <3>4. /\ With(n).resolved_cursor = 0 /\ With(n).addresses = n /\ With(n).resolved
          /\ ~With(n).resolution_complete /\ ~With(n).adapter_flow
      BY <3>3 DEF PendingFlow
    <3>5. With(n).resolved_cursor <= With(n).addresses
      BY <3>1, <3>4
    <3> HIDE DEF With
    <3>6. Asked(With(n))
      BY <3>4, <3>5 DEF Asked
    <3> QED BY <3>2, <3>4, <3>6, Then DEF Fine
  <2> HIDE DEF q, With
  <2> QED BY <2>1, <2>2, <2>3, LeaveFine, Then
<1> QED BY <1>1, <1>2

\* admit_address goes on only when the resolution is complete.
LEMMA AddressFine ==
    ASSUME NEW p \in PendingFlow, Asked(p), ~p.adapter_flow, NEW r \in admit_address(p)
    PROVE  /\ Fine(p, r) /\ r.p.admitted = p.admitted
           /\ r.then = "go" => r.p.resolution_complete
<1> DEFINE checked(q) == IF addresses_admitted(q)
                         THEN Go([q EXCEPT !.resolution_complete = TRUE]) ELSE Wait(q)
           next == [p EXCEPT !.resolved_cursor = @ + 1]
<1>1. CASE p.resolution_complete
  BY <1>1, LeaveFine DEF admit_address, Go
<1>2. ASSUME NEW q \in PendingFlow, Asked(q), ~q.adapter_flow, q.flow = p.flow,
             q.admitted = p.admitted
      PROVE  /\ Fine(p, checked(q)) /\ checked(q).p.admitted = p.admitted
             /\ checked(q).then = "go" => checked(q).p.resolution_complete
  <2>1. CASE addresses_admitted(q)
    <3> DEFINE t == [q EXCEPT !.resolution_complete = TRUE]
    <3>1. /\ t \in PendingFlow /\ t.flow = q.flow /\ t.admitted = q.admitted
          /\ t.resolution_complete /\ ~t.adapter_flow
          /\ t.resolved_cursor = q.resolved_cursor /\ t.addresses = q.addresses
          /\ t.resolved = q.resolved
      BY <1>2 DEF PendingFlow
    <3>2. q.resolved_cursor \in Nat /\ q.addresses \in Nat
      BY <1>2 DEF PendingFlow
    <3>3. q.resolved_cursor = q.addresses
      BY <1>2, <2>1, <3>2 DEF Asked, addresses_admitted
    <3>4. t.resolved_cursor <= t.addresses /\ t.resolved_cursor = t.addresses
      BY <3>1, <3>2, <3>3
    <3>5. checked(q) = Go(t)
      BY <2>1
    <3> HIDE DEF t, checked
    <3>6. Asked(t)
      BY <1>2, <3>1, <3>4 DEF Asked
    <3> QED BY <1>2, <3>1, <3>5, <3>6, Then DEF Fine
  <2>2. CASE ~addresses_admitted(q)
    BY <1>2, <2>2 DEF Fine, Wait
  <2> QED BY <2>1, <2>2
<1>3. CASE ~p.resolution_complete /\ p.resolved_cursor >= p.addresses
  <2>1. r = checked(p)
    BY <1>3 DEF admit_address
  <2> QED BY <2>1, <1>2
<1>4. CASE ~p.resolution_complete /\ ~(p.resolved_cursor >= p.addresses)
  <2>1. r = checked(next) \/ r = Wait(p) \/ r = Reject(p)
    BY <1>4, AskResults DEF admit_address
  <2>2. /\ next \in PendingFlow /\ Asked(next) /\ ~next.adapter_flow
        /\ next.flow = p.flow /\ next.admitted = p.admitted
    <3>1. p.resolved_cursor \in Nat /\ p.addresses \in Nat
      BY DEF PendingFlow
    <3>2. /\ next \in PendingFlow /\ next.flow = p.flow /\ next.admitted = p.admitted
          /\ next.resolved = p.resolved /\ ~next.adapter_flow /\ ~next.resolution_complete
          /\ next.addresses = p.addresses /\ next.resolved_cursor = p.resolved_cursor + 1
      BY <1>4 DEF PendingFlow
    <3>3. next.resolved_cursor <= next.addresses /\ p.addresses # 0
      BY <1>4, <3>1, <3>2
    <3>4. p.resolved
      BY <3>3 DEF Asked
    <3> HIDE DEF next
    <3> QED BY <3>2, <3>3, <3>4 DEF Asked
  <2>3. /\ Wait(p).p.admitted = p.admitted /\ Wait(p).then # "go"
        /\ Reject(p).p.admitted = p.admitted /\ Reject(p).then # "go"
    BY Then
  <2>4. r = checked(next) => /\ Fine(p, r) /\ r.p.admitted = p.admitted
                             /\ r.then = "go" => r.p.resolution_complete
    BY <1>2, <2>2
  <2> HIDE DEF checked, next
  <2> QED BY <2>1, <2>3, <2>4, LeaveFine
<1> QED BY <1>1, <1>3, <1>4

\* adapter_open is asked about an admitted flow whose addresses were admitted.
LEMMA OpenFine ==
    ASSUME NEW p \in PendingFlow, Asked(p), ~p.adapter_flow, p.admitted,
           p.resolution_complete, NEW r \in adapter_open(p)
    PROVE  Fine(p, r)
<1> DEFINE q == [p EXCEPT !.adapter_flow = TRUE]
           other == [p EXCEPT !.adapter_cursor = @ + 1, !.resolved = FALSE,
                              !.addresses = 0, !.resolved_cursor = 0,
                              !.resolution_complete = FALSE]
<1>1. \/ r = Accept(q) \/ r = Reject(q) \/ r = Wait(p) \/ r = Reject(p) \/ r = Wait(other)
  BY AskResults DEF adapter_open
<1>2. Fine(p, Accept(q)) /\ Fine(p, Reject(q))
  BY DEF Fine, Accept, Reject, PendingFlow, Asked
<1>3. Fine(p, Wait(other))
  <2>1. /\ other \in PendingFlow /\ other.flow = p.flow /\ ~other.adapter_flow
        /\ ~other.resolved /\ other.resolved_cursor = 0 /\ other.addresses = 0
        /\ ~other.resolution_complete
    <3>1. p.adapter_cursor \in Nat /\ p.adapter_cursor + 1 \in Nat
      BY DEF PendingFlow
    <3> QED BY <3>1 DEF PendingFlow
  <2> HIDE DEF other
  <2>2. other.resolved_cursor <= other.addresses
    BY <2>1
  <2>3. Asked(other)
    BY <2>1, <2>2 DEF Asked
  <2> QED BY <2>1, <2>3, Then DEF Fine
<1> QED BY <1>1, <1>2, <1>3, LeaveFine

\* All questions of one poll.
LEMMA PollPendingFine ==
    ASSUME NEW p \in PendingFlow, Asked(p), ~p.adapter_flow, NEW r \in poll_pending(p)
    PROVE  Fine(p, r)
<1> DEFINE A == policy_admit_flow(p)
           B == Into(A, next_adapter)
           C == Into(B, adapter_resolve)
           D == Into(C, admit_address)
           Later(s) == Fine(p, s) /\ (s.then = "go" => s.p.admitted /\ ~s.p.adapter_flow)
<1>0. ASSUME NEW q, NEW s, Fine(p, q), Fine(q.p, s)
      PROVE  Fine(p, s)
  BY <1>0 DEF Fine
<1>1. \A s \in A : Later(s)
  BY AdmitFine DEF Fine
<1>2. ASSUME NEW s \in B PROVE Later(s)
  <2>1. PICK q \in A : s \in (IF q.then = "go" THEN next_adapter(q.p) ELSE {q})
    BY DEF Into
  <2>2. CASE q.then = "go"
    <3>1. Later(q) /\ q.p \in PendingFlow /\ Asked(q.p)
      BY <1>1 DEF Fine
    <3>2. Fine(q.p, s) /\ s.p.admitted = q.p.admitted
      BY <2>1, <2>2, <3>1, NextAdapterFine
    <3> QED BY <2>2, <3>1, <3>2, <1>0 DEF Fine
  <2> QED BY <1>1, <2>1, <2>2
<1>3. ASSUME NEW s \in C PROVE Later(s)
  <2>1. PICK q \in B : s \in (IF q.then = "go" THEN adapter_resolve(q.p) ELSE {q})
    BY DEF Into
  <2>2. CASE q.then = "go"
    <3>1. Later(q) /\ q.p \in PendingFlow /\ Asked(q.p)
      BY <1>2 DEF Fine
    <3>2. Fine(q.p, s) /\ s.p.admitted = q.p.admitted
      BY <2>1, <2>2, <3>1, ResolveFine
    <3> QED BY <2>2, <3>1, <3>2, <1>0 DEF Fine
  <2> QED BY <1>2, <2>1, <2>2
<1>4. ASSUME NEW s \in D PROVE Later(s) /\ (s.then = "go" => s.p.resolution_complete)
  <2>1. PICK q \in C : s \in (IF q.then = "go" THEN admit_address(q.p) ELSE {q})
    BY DEF Into
  <2>2. CASE q.then = "go"
    <3>1. Later(q) /\ q.p \in PendingFlow /\ Asked(q.p)
      BY <1>3 DEF Fine
    <3>2. /\ Fine(q.p, s) /\ s.p.admitted = q.p.admitted
          /\ s.then = "go" => s.p.resolution_complete
      BY <2>1, <2>2, <3>1, AddressFine
    <3> QED BY <2>2, <3>1, <3>2, <1>0 DEF Fine
  <2> QED BY <1>3, <2>1, <2>2
<1>5. PICK q \in D : r \in (IF q.then = "go" THEN adapter_open(q.p) ELSE {q})
  BY DEF poll_pending, Into
<1>6. CASE q.then = "go"
  <2>1. /\ Fine(p, q) /\ q.p.admitted /\ ~q.p.adapter_flow /\ q.p.resolution_complete
        /\ q.p \in PendingFlow /\ Asked(q.p)
    BY <1>4, <1>6 DEF Fine
  <2>2. Fine(q.p, r)
    BY <1>5, <1>6, <2>1, OpenFine
  <2> QED BY <2>1, <2>2, <1>0
<1> QED BY <1>4, <1>5, <1>6
-----------------------------------------------------------------------------
(* The slots.                                                                  *)

\* The counters, and the flows as numbers.
LEMMA TypeNumbers ==
    ASSUME TypeOK
    PROVE  /\ user_streams \in Nat /\ user_streams <= MaxUserStreams
           /\ opened \in Nat /\ opened <= MaxFlow
           /\ accepted \in Nat /\ accepted <= opened
           /\ \A f \in active : f \in Nat
           /\ IsFiniteSet(active) /\ Cardinality(active) \in Nat
<1>1. /\ user_streams \in 0..MaxUserStreams
      /\ opened \in 0..MaxFlow /\ accepted \in 0..opened /\ active \subseteq Flow
  BY Zenon DEF TypeOK
<1>2. IsFiniteSet(Flow)
  BY FS_Interval, ServerAssumption DEF Flow
<1>3. IsFiniteSet(active) /\ Cardinality(active) \in Nat
  BY <1>1, <1>2, FS_Subset, FS_CardinalityType
<1> QED BY <1>1, <1>3, ServerAssumption DEF Flow

\* reap_closed releases at most as many slots as flows leave active, so that the
\* flows that stay and k others keep theirs.
LEMMA ReapCovers ==
    ASSUME TypeOK, NEW k \in Nat, user_streams >= Cardinality(active) + k
    PROVE  /\ IsFiniteSet(active) /\ Cardinality(active) \in Nat
           /\ IsFiniteSet(active \cap registered)
           /\ Cardinality(active \cap registered) \in 0..Cardinality(active)
           /\ reap_closed.active = active \cap registered
           /\ reap_closed.user_streams \in 0..user_streams
           /\ reap_closed.user_streams >= Cardinality(active \cap registered) + k
<1>2. IsFiniteSet(active) /\ Cardinality(active) \in Nat
  BY TypeNumbers
<1>3. IsFiniteSet(active \cap registered) /\ Cardinality(active \cap registered) \in Nat
  BY <1>2, FS_Intersection, FS_CardinalityType
<1>4. Cardinality(active \cap registered) <= Cardinality(active)
  BY <1>2, FS_Intersection
<1>5. Cardinality(Closed) = Cardinality(active) - Cardinality(active \cap registered)
  BY <1>2, FS_Difference DEF Closed
<1>6. user_streams \in Nat
  BY TypeNumbers
<1>7. reap_closed.user_streams
        = IF mux THEN release_flows(Cardinality(Closed)) ELSE user_streams
  BY DEF reap_closed
<1>8. reap_closed.active = active \cap registered
  BY DEF reap_closed
<1>9. CASE mux
  BY <1>2, <1>3, <1>4, <1>5, <1>6, <1>7, <1>8, <1>9 DEF release_flows
<1>10. CASE ~mux
  BY <1>2, <1>3, <1>4, <1>6, <1>7, <1>8, <1>10
<1> QED BY <1>9, <1>10

\* What reap_closed leaves of the adapters' flows.
LEMMA ReapAdapters ==
    ASSUME TypeOK
    PROVE  reap_closed.adapter_flows \subseteq Flow
BY DEF reap_closed, TypeOK

\* The slots that the pending flow and the accept_flow future hold.
Others == (IF pending # NoPending THEN 1 ELSE 0) + (IF accepting = "waiting" THEN 1 ELSE 0)

\* The slots before a step, in the form in which ReapCovers takes them.
LEMMA Slots ==
    ASSUME TypeOK
    PROVE  /\ Others \in Nat
           /\ Cardinality(active) \in Nat
           /\ SlotsCoverFlows <=> user_streams >= Cardinality(active) + Others
<1>1. user_streams \in Nat /\ Cardinality(active) \in Nat
  BY TypeNumbers
<1> QED BY <1>1 DEF Others, SlotsCoverFlows

\* A poll that leaves the flow p pending.
LEMMA LeavePendingInStep ==
    ASSUME TypeOK, NEW p \in PendingFlow, p.flow \in Flow,
           NEW result, Fine(p, result), LeavePending(result)
    PROVE  /\ mux' \in BOOLEAN /\ responding' \in BOOLEAN /\ mux' = ~responding'
           /\ pending' \in PendingFlow /\ pending'.flow = p.flow /\ pending' # NoPending
           /\ pending'.stream = mux'
           /\ Asked(pending') /\ (pending'.adapter_flow => responding')
           /\ adapter_flows' \subseteq Flow
<1>1. result.p \in PendingFlow /\ result.p.flow = p.flow /\ Asked(result.p)
  BY DEF Fine
<1>2. /\ responding' = (result.then = "respond") /\ mux' = ~responding'
      /\ pending' = [result.p EXCEPT !.stream = mux']
  BY DEF LeavePending
<1>3. mux' \in BOOLEAN /\ responding' \in BOOLEAN
  BY <1>2
<1>4. /\ pending' \in PendingFlow /\ pending'.flow = p.flow /\ pending'.stream = mux'
      /\ pending'.adapter_flow = result.p.adapter_flow
      /\ Asked(pending')
  BY <1>1, <1>2, <1>3 DEF PendingFlow, Asked
<1>5. pending' # NoPending
  BY <1>4 DEF NoPending, NewPending, Flow
<1>6. adapter_flows' \subseteq Flow
  BY <1>1, ReapAdapters DEF LeavePending
<1> QED BY <1>2, <1>3, <1>4, <1>5, <1>6 DEF Fine

\* The flow that no one has answered yet is a flow, and a new one is fine.
LEMMA NewPendingType ==
    /\ \A f \in Flow \cup {0} : NewPending(f) \in PendingFlow /\ Asked(NewPending(f))
                                /\ ~NewPending(f).adapter_flow /\ NewPending(f).flow = f
    /\ NoPending \in PendingFlow /\ Asked(NoPending) /\ ~NoPending.adapter_flow
BY ServerAssumption DEF NewPending, NoPending, PendingFlow, Asked, Flow
-----------------------------------------------------------------------------
(* The steps.                                                                  *)

\* Slots that are counted, after a step.
LEMMA SlotsAfter ==
    ASSUME NEW n, user_streams' \in 0..n, n \in Nat, n <= MaxUserStreams,
           Cardinality(active') \in Nat,
           user_streams' >= Cardinality(active') + Others'
    PROVE  user_streams' \in 0..MaxUserStreams /\ SlotsCoverFlows'
<1>1. user_streams' \in Nat /\ user_streams' <= MaxUserStreams /\ MaxUserStreams \in Nat
  BY ServerAssumption
<1>2. user_streams' \in 0..MaxUserStreams
  BY <1>1
<1>3. SlotsCoverFlows'
  BY <1>1 DEF SlotsCoverFlows, Others
<1> QED BY <1>2, <1>3

\* A session starts with nothing.
LEMMA InitIInv == Init => IInv
<1> SUFFICES ASSUME Init PROVE IInv
  OBVIOUS
<1>1. /\ user_streams \in 0..MaxUserStreams /\ opened \in 0..MaxFlow /\ accepted \in 0..opened
      /\ pending \in PendingFlow
  BY NewPendingType, ServerAssumption DEF Init
<1>2. TypeOK
  BY <1>1, Zenon DEF Init, TypeOK
<1>3. SlotsCoverFlows
  <2>1. Cardinality(active) = 0 /\ user_streams = 0 /\ pending = NoPending /\ accepting = "none"
    BY FS_EmptySet DEF Init
  <2> QED BY <2>1 DEF SlotsCoverFlows
<1>4. OneOwner /\ PendingInStep /\ NoStateError
  BY NewPendingType DEF Init, OneOwner, PendingInStep, NoStateError
<1> QED BY <1>2, <1>3, <1>4 DEF Init, IInv

\* The parts of the invariant that a step leaves as they are, when it changes the
\* flows that are active, the slots and what adapters have open as reap_closed does.
LEMMA ReapIInv ==
    ASSUME IInv, Others' = Others, active' = reap_closed.active,
           user_streams' = reap_closed.user_streams
    PROVE  /\ user_streams' \in 0..MaxUserStreams /\ SlotsCoverFlows'
           /\ active' \subseteq active /\ active' \subseteq Flow
<1>1. TypeOK /\ Others \in Nat /\ user_streams >= Cardinality(active) + Others
  BY Slots DEF IInv
<1>2. /\ active' = active \cap registered
      /\ Cardinality(active') \in 0..Cardinality(active) /\ Cardinality(active) \in Nat
      /\ user_streams' \in 0..user_streams
      /\ user_streams' >= Cardinality(active') + Others'
  BY <1>1, ReapCovers
<1>3. Cardinality(active') \in Nat
  BY <1>2
<1>4. user_streams \in Nat /\ user_streams <= MaxUserStreams
  BY <1>1, TypeNumbers
<1>5. active \subseteq Flow
  BY <1>1, Zenon DEF TypeOK
<1> QED BY <1>2, <1>3, <1>4, <1>5, SlotsAfter

\* A poll that fails for a reason other than "state" keeps everything else.
LEMMA FailIInv ==
    ASSUME IInv, NEW why \in {"stream limit", "answer", "closed"}, Fail(why)
    PROVE  IInv'
<1>1. Others' = Others
  BY DEF Fail, Others
<1>2. /\ user_streams' \in 0..MaxUserStreams /\ SlotsCoverFlows'
      /\ active' \subseteq active /\ active' \subseteq Flow
  BY <1>1, ReapIInv DEF Fail, Reap
<1>3. adapter_flows' \subseteq Flow
  BY ReapAdapters DEF Fail, Reap, IInv
<1>4. TypeOK'
  BY <1>2, <1>3, Zenon DEF Fail, TypeOK, IInv
<1>5. OneOwner' /\ PendingInStep'
  BY <1>2, Zenon DEF Fail, OneOwner, PendingInStep, Asked, IInv
<1>6. NoStateError' /\ \A f \in active' : f <= accepted'
  BY <1>2 DEF Fail, NoStateError, IInv
<1> QED BY <1>2, <1>4, <1>5, <1>6 DEF IInv

\* PollPending: the session owns the MuxSession and the flow its stream, so that the
\* answer can begin.
LEMMA PollPendingIInv ==
    ASSUME IInv, PollPending
    PROVE  IInv'
<1>1. /\ mux /\ accepting = "none" /\ ~responding /\ pending # NoPending
      /\ pending.stream = mux
  BY Zenon DEF IInv, OneOwner, PendingInStep, PollPending
<1>2. pending \in PendingFlow /\ Asked(pending) /\ ~pending.adapter_flow
  BY <1>1, Zenon DEF IInv, PendingInStep, TypeOK
<1>3. PICK result \in poll_pending(pending) :
        /\ LeavePending(result)
        /\ active' = reap_closed.active /\ user_streams' = reap_closed.user_streams
        /\ UNCHANGED <<accepting, registered, opened, accepted, failed>>
  BY <1>1, Zenon DEF PollPending
<1>4. Fine(pending, result)
  BY <1>2, <1>3, PollPendingFine
<1>5. pending.flow = accepted /\ accepted # 0 /\ accepted \notin active
  BY <1>1, Zenon DEF IInv, PendingInStep
<1>6. pending.flow \in Flow
  BY <1>5, TypeNumbers, ServerAssumption DEF IInv, Flow
<1>7. TypeOK
  BY DEF IInv
<1>8. /\ mux' \in BOOLEAN /\ responding' \in BOOLEAN /\ mux' = ~responding'
      /\ pending' \in PendingFlow /\ pending'.flow = pending.flow /\ pending' # NoPending
      /\ pending'.stream = mux'
      /\ Asked(pending') /\ (pending'.adapter_flow => responding')
      /\ adapter_flows' \subseteq Flow
  BY <1>2, <1>3, <1>4, <1>6, <1>7, LeavePendingInStep
<1>9. Others' = Others
  BY <1>1, <1>3, <1>8 DEF Others
<1>10. /\ user_streams' \in 0..MaxUserStreams /\ SlotsCoverFlows'
       /\ active' \subseteq active /\ active' \subseteq Flow
  BY <1>3, <1>9, ReapIInv
<1>11. TypeOK'
  BY <1>3, <1>7, <1>8, <1>10, Zenon DEF TypeOK
<1>12. OneOwner'
  BY <1>1, <1>3, <1>8, Zenon DEF OneOwner
<1>13. PendingInStep'
  BY <1>3, <1>5, <1>8, <1>10, Zenon DEF PendingInStep
<1>14. NoStateError' /\ \A f \in active' : f <= accepted'
  BY <1>3, <1>10 DEF NoStateError, IInv
<1> QED BY <1>10, <1>11, <1>12, <1>13, <1>14 DEF IInv

\* AwaitResponse only reaps.
LEMMA AwaitResponseIInv ==
    ASSUME IInv, AwaitResponse
    PROVE  IInv'
<1>1. Others' = Others
  BY DEF AwaitResponse, Others
<1>2. /\ user_streams' \in 0..MaxUserStreams /\ SlotsCoverFlows'
      /\ active' \subseteq active /\ active' \subseteq Flow
  BY <1>1, ReapIInv DEF AwaitResponse, Reap
<1>3. adapter_flows' \subseteq Flow
  BY ReapAdapters DEF AwaitResponse, Reap, IInv
<1>4. TypeOK'
  BY <1>2, <1>3, Zenon DEF AwaitResponse, TypeOK, IInv
<1>5. OneOwner' /\ PendingInStep'
  BY <1>2, Zenon DEF AwaitResponse, OneOwner, PendingInStep, Asked, IInv
<1>6. NoStateError' /\ \A f \in active' : f <= accepted'
  BY <1>2 DEF AwaitResponse, NoStateError, IInv
<1> QED BY <1>2, <1>4, <1>5, <1>6 DEF IInv

\* While respond_flow owns the MuxSession, the pending flow has a slot that
\* reap_closed does not touch.
LEMMA RespondingSlots ==
    ASSUME IInv, responding
    PROVE  /\ ~mux /\ accepting = "none" /\ pending # NoPending
           /\ pending.flow = accepted /\ accepted # 0 /\ accepted \notin active
           /\ pending.flow \in Flow
           /\ user_streams \in Nat /\ user_streams <= MaxUserStreams
           /\ reap_closed.active = active \cap registered
           /\ reap_closed.user_streams = user_streams
           /\ IsFiniteSet(active \cap registered)
           /\ Cardinality(active \cap registered) \in Nat
           /\ user_streams >= Cardinality(active \cap registered) + 1
<1>1. ~mux /\ accepting = "none" /\ pending # NoPending
  BY Zenon DEF IInv, OneOwner
<1>2. pending.flow = accepted /\ accepted # 0 /\ accepted \notin active
  BY <1>1, Zenon DEF IInv, PendingInStep
<1>3. TypeOK
  BY DEF IInv
<1>4. pending.flow \in Flow
  BY <1>2, <1>3, TypeNumbers, ServerAssumption DEF Flow
<1>5. user_streams \in Nat /\ user_streams <= MaxUserStreams
  BY <1>3, TypeNumbers
<1>6. Others = 1
  BY <1>1 DEF Others
<1>7. user_streams >= Cardinality(active) + 1
  BY <1>3, <1>6, Slots DEF IInv
<1>8. reap_closed.user_streams = user_streams
  BY <1>1 DEF reap_closed
<1>9. /\ Cardinality(active) \in Nat
      /\ IsFiniteSet(active \cap registered)
      /\ Cardinality(active \cap registered) \in 0..Cardinality(active)
      /\ reap_closed.active = active \cap registered
  BY <1>3, <1>7, ReapCovers
<1>10. user_streams >= Cardinality(active \cap registered) + 1
  BY <1>5, <1>7, <1>9
<1> QED BY <1>1, <1>2, <1>4, <1>5, <1>8, <1>9, <1>10

\* Rejected releases the slot of the flow that was refused.
LEMMA RejectedIInv ==
    ASSUME IInv, Rejected
    PROVE  IInv'
<1>1. /\ responding /\ ~responding' /\ mux' /\ pending' = NoPending
      /\ responding' \in BOOLEAN /\ mux' \in BOOLEAN
      /\ active' = reap_closed.active /\ user_streams' = release_flows(1)
      /\ UNCHANGED <<accepting, registered, opened, accepted, failed>>
  BY Zenon DEF Rejected, answered
<1>2. /\ accepting = "none" /\ active' = active \cap registered
      /\ user_streams \in Nat /\ user_streams <= MaxUserStreams
      /\ Cardinality(active') \in Nat
      /\ user_streams >= Cardinality(active') + 1
  BY <1>1, RespondingSlots
<1>3. user_streams' = user_streams - 1
  BY <1>1, <1>2 DEF release_flows
<1>4. Others' = 0
  BY <1>1, <1>2 DEF Others
<1>5. user_streams' \in 0..user_streams /\ user_streams' >= Cardinality(active') + Others'
  BY <1>2, <1>3, <1>4
<1>6. user_streams' \in 0..MaxUserStreams /\ SlotsCoverFlows'
  BY <1>2, <1>5, SlotsAfter
<1>7. adapter_flows' \subseteq Flow
  BY ReapAdapters DEF Rejected, IInv
<1>8. TypeOK'
  BY <1>1, <1>2, <1>6, <1>7, NewPendingType, Zenon DEF TypeOK, IInv
<1>9. OneOwner' /\ PendingInStep'
  BY <1>1, <1>2, NewPendingType, Zenon DEF OneOwner, PendingInStep
<1>10. NoStateError' /\ \A f \in active' : f <= accepted'
  BY <1>1, <1>2 DEF NoStateError, IInv
<1> QED BY <1>6, <1>8, <1>9, <1>10 DEF IInv

\* Attached turns the slot of the pending flow into that of an active one.
LEMMA AttachedIInv ==
    ASSUME IInv, Attached
    PROVE  IInv'
<1>1. /\ responding /\ ~responding' /\ mux' /\ pending' = NoPending
      /\ responding' \in BOOLEAN /\ mux' \in BOOLEAN
      /\ active' = reap_closed.active \cup {pending.flow}
      /\ registered' = registered \cup {pending.flow}
      /\ user_streams' = reap_closed.user_streams
      /\ adapter_flows' = reap_closed.adapter_flows
      /\ UNCHANGED <<accepting, opened, accepted, failed>>
  BY Zenon DEF Attached, answered
<1>2. /\ accepting = "none" /\ active' = (active \cap registered) \cup {pending.flow}
      /\ pending.flow = accepted /\ pending.flow \in Flow
      /\ user_streams \in Nat /\ user_streams <= MaxUserStreams /\ user_streams' = user_streams
      /\ IsFiniteSet(active \cap registered)
      /\ Cardinality(active \cap registered) \in Nat
      /\ user_streams >= Cardinality(active \cap registered) + 1
  BY <1>1, RespondingSlots
<1>3. Cardinality(active') \in Nat /\ Cardinality(active') <= Cardinality(active \cap registered) + 1
  <2>1. Cardinality(active') = IF pending.flow \in active \cap registered
                               THEN Cardinality(active \cap registered)
                               ELSE Cardinality(active \cap registered) + 1
    BY <1>2, FS_AddElement
  <2> QED BY <1>2, <2>1
<1>4. Others' = 0
  BY <1>1, <1>2 DEF Others
<1>5. user_streams' \in 0..user_streams /\ user_streams' >= Cardinality(active') + Others'
  BY <1>2, <1>3, <1>4
<1>6. user_streams' \in 0..MaxUserStreams /\ SlotsCoverFlows'
  BY <1>2, <1>3, <1>5, SlotsAfter
<1>7. TypeOK'
  BY <1>1, <1>2, <1>6, ReapAdapters, NewPendingType, Zenon DEF TypeOK, IInv
<1>8. OneOwner' /\ PendingInStep'
  BY <1>1, <1>2, NewPendingType, Zenon DEF OneOwner, PendingInStep
<1>9. NoStateError'
  BY <1>1 DEF NoStateError, IInv
<1>10. ASSUME NEW f \in active' PROVE f <= accepted'
  <2>1. accepted \in Nat /\ accepted' = accepted
    BY <1>1, TypeNumbers DEF IInv
  <2> QED BY <1>2, <2>1, <1>10 DEF IInv
<1> QED BY <1>6, <1>7, <1>8, <1>9, <1>10 DEF IInv

\* StartAccept finds the MuxSession with the session.
LEMMA StartAcceptIInv ==
    ASSUME IInv, StartAccept
    PROVE  IInv'
<1>1. mux /\ accepting = "none" /\ ~responding /\ pending = NoPending
  BY Zenon DEF IInv, OneOwner, StartAccept, nothing_pending
<1>2. /\ ~mux' /\ mux' \in BOOLEAN /\ accepting' = "created"
      /\ active' = reap_closed.active /\ user_streams' = reap_closed.user_streams
      /\ adapter_flows' = reap_closed.adapter_flows
      /\ UNCHANGED <<responding, pending, registered, opened, accepted, failed>>
  BY <1>1, Zenon DEF StartAccept, Reap
<1>3. Others' = Others
  BY <1>1, <1>2 DEF Others
<1>4. /\ user_streams' \in 0..MaxUserStreams /\ SlotsCoverFlows'
      /\ active' \subseteq active /\ active' \subseteq Flow
  BY <1>2, <1>3, ReapIInv
<1>5. TypeOK'
  BY <1>2, <1>4, ReapAdapters, Zenon DEF TypeOK, IInv
<1>6. OneOwner' /\ PendingInStep'
  BY <1>1, <1>2, NewPendingType, Zenon DEF OneOwner, PendingInStep
<1>7. NoStateError' /\ \A f \in active' : f <= accepted'
  BY <1>2, <1>4 DEF NoStateError, IInv
<1> QED BY <1>4, <1>5, <1>6, <1>7 DEF IInv

\* accept_flow has its slot after its first poll, and reap_closed releases none
\* while it owns the MuxSession.
LEMMA AcceptingSlots ==
    ASSUME IInv, accepting # "none", accepting = "created" => may_reserve
    PROVE  /\ ~mux /\ ~responding /\ pending = NoPending
           /\ reap_closed.active = active \cap registered
           /\ Cardinality(active \cap registered) \in Nat
           /\ reserve_user_stream \in 0..MaxUserStreams
           /\ reserve_user_stream >= Cardinality(active \cap registered) + 1
<1>1. ~mux /\ ~responding /\ pending = NoPending
  BY Zenon DEF IInv, OneOwner
<1>2. TypeOK /\ accepting \in {"none", "created", "waiting"}
  BY Zenon DEF IInv, TypeOK
<1>3. user_streams \in Nat /\ user_streams <= MaxUserStreams
  BY <1>2, TypeNumbers
<1>4. Others = IF accepting = "waiting" THEN 1 ELSE 0
  BY <1>1 DEF Others
<1>5. user_streams >= Cardinality(active) + Others /\ Others \in Nat
  BY <1>2, Slots DEF IInv
<1>6. /\ Cardinality(active) \in Nat
      /\ Cardinality(active \cap registered) \in 0..Cardinality(active)
      /\ reap_closed.active = active \cap registered
  BY <1>2, <1>5, ReapCovers
<1>7. CASE accepting = "created"
  <2>1. reserve_user_stream = user_streams + 1 /\ user_streams < MaxUserStreams /\ Others = 0
    BY <1>4, <1>7 DEF reserve_user_stream, may_reserve
  <2> QED BY <1>1, <1>3, <1>5, <1>6, <2>1, ServerAssumption
<1>8. CASE accepting = "waiting"
  <2>1. reserve_user_stream = user_streams + 0 /\ Others = 1
    BY <1>4, <1>8 DEF reserve_user_stream
  <2> QED BY <1>1, <1>3, <1>5, <1>6, <2>1, ServerAssumption
<1> QED BY <1>2, <1>7, <1>8

\* PollAccepting reserves a slot, and waits.
LEMMA PollAcceptingIInv ==
    ASSUME IInv, PollAccepting
    PROVE  IInv'
<1>1. /\ accepting # "none" /\ (accepting = "created" => may_reserve)
      /\ accepting' = "waiting" /\ active' = reap_closed.active
      /\ user_streams' = reserve_user_stream
      /\ UNCHANGED <<mux, responding, pending, registered, adapter_flows, opened,
                     accepted, failed>>
  BY Zenon DEF PollAccepting
<1>2. /\ ~mux /\ ~responding /\ pending = NoPending
      /\ active' = active \cap registered /\ Cardinality(active') \in Nat
      /\ user_streams' \in 0..MaxUserStreams
      /\ user_streams' >= Cardinality(active') + 1
  BY <1>1, AcceptingSlots
<1>3. Others' = 1
  BY <1>1, <1>2 DEF Others
<1>4. MaxUserStreams \in Nat /\ MaxUserStreams <= MaxUserStreams
  BY ServerAssumption
<1>5. SlotsCoverFlows'
  BY <1>2, <1>3, <1>4, SlotsAfter
<1>6. TypeOK'
  BY <1>1, <1>2, Zenon DEF TypeOK, IInv
<1>7. OneOwner' /\ PendingInStep'
  BY <1>1, <1>2, NewPendingType, Zenon DEF OneOwner, PendingInStep
<1>8. NoStateError' /\ \A f \in active' : f <= accepted'
  BY <1>1, <1>2 DEF NoStateError, IInv
<1> QED BY <1>5, <1>6, <1>7, <1>8 DEF IInv

\* FlowAccepted hands the slot of accept_flow to the flow, which is a new one.
LEMMA FlowAcceptedIInv ==
    ASSUME IInv, FlowAccepted
    PROVE  IInv'
<1> DEFINE f == accepted + 1
<1>1. /\ accepting # "none" /\ (accepting = "created" => may_reserve)
      /\ accepted < opened /\ accepted' = f
      /\ accepting' = "none" /\ active' = reap_closed.active
      /\ user_streams' = reserve_user_stream
      /\ UNCHANGED <<registered, opened, failed>>
  BY Zenon DEF FlowAccepted
<1>2. /\ active' = active \cap registered /\ Cardinality(active') \in Nat
      /\ user_streams' \in 0..MaxUserStreams
      /\ user_streams' >= Cardinality(active') + 1
  BY <1>1, AcceptingSlots
<1>3. TypeOK /\ opened \in Nat /\ opened <= MaxFlow /\ accepted \in Nat /\ accepted <= opened
  BY TypeNumbers DEF IInv
<1>4. f \in Flow /\ f # 0 /\ f \in 0..opened
  BY <1>1, <1>3, ServerAssumption DEF Flow
<1>5. /\ NewPending(f) \in PendingFlow /\ Asked(NewPending(f))
      /\ ~NewPending(f).adapter_flow /\ NewPending(f).flow = f
  BY <1>4, NewPendingType
<1>6. PICK result \in poll_pending(NewPending(f)) : LeavePending(result)
  BY Zenon DEF FlowAccepted
<1>7. Fine(NewPending(f), result)
  BY <1>5, <1>6, PollPendingFine
<1>8. /\ mux' \in BOOLEAN /\ responding' \in BOOLEAN /\ mux' = ~responding'
      /\ pending' \in PendingFlow /\ pending'.flow = f /\ pending' # NoPending
      /\ pending'.stream = mux'
      /\ Asked(pending') /\ (pending'.adapter_flow => responding')
      /\ adapter_flows' \subseteq Flow
  BY <1>3, <1>4, <1>5, <1>6, <1>7, LeavePendingInStep
<1>9. Others' = 1
  BY <1>1, <1>8 DEF Others
<1>10. MaxUserStreams \in Nat /\ MaxUserStreams <= MaxUserStreams
  BY ServerAssumption
<1>11. SlotsCoverFlows'
  BY <1>2, <1>9, <1>10, SlotsAfter
<1>12. \A g \in active' : g \in Nat /\ g <= accepted
  BY <1>2, <1>3, TypeNumbers DEF IInv
<1>13. f \notin active' /\ \A g \in active' : g <= f
  BY <1>3, <1>12
<1>14. TypeOK'
  BY <1>1, <1>2, <1>4, <1>8, Zenon DEF TypeOK, IInv
<1>15. OneOwner'
  BY <1>1, <1>8, Zenon DEF OneOwner
<1>16. PendingInStep'
  BY <1>1, <1>4, <1>8, <1>13, Zenon DEF PendingInStep
<1>17. NoStateError'
  BY <1>1 DEF NoStateError, IInv
<1> QED BY <1>1, <1>11, <1>13, <1>14, <1>15, <1>16, <1>17 DEF IInv

\* ClientOpens and ModuleCloses happen outside of polls.
LEMMA OutsideIInv ==
    ASSUME IInv, ClientOpens \/ \E f \in Flow : ModuleCloses(f)
    PROVE  IInv'
<1>1. CASE ClientOpens
  <2>1. /\ opened \in Nat /\ opened < MaxFlow /\ opened' = opened + 1
        /\ accepted \in Nat /\ accepted <= opened
    BY <1>1, TypeNumbers DEF IInv, ClientOpens
  <2>2. opened' \in 0..MaxFlow /\ accepted \in 0..opened'
    BY <2>1, ServerAssumption
  <2>3. UNCHANGED <<mux, accepting, responding, user_streams, pending, active,
                    registered, adapter_flows, accepted, failed>>
    BY <1>1 DEF ClientOpens
  <2>4. TypeOK'
    BY <2>2, <2>3, Zenon DEF TypeOK, IInv
  <2>5. OneOwner' /\ PendingInStep' /\ NoStateError' /\ SlotsCoverFlows'
    BY <2>3 DEF OneOwner, PendingInStep, NoStateError, SlotsCoverFlows, Asked, IInv
  <2>6. \A f \in active' : f <= accepted'
    BY <2>3 DEF IInv
  <2> QED BY <2>4, <2>5, <2>6 DEF IInv
<1>2. CASE \E f \in Flow : ModuleCloses(f)
  <2>1. /\ registered' \subseteq registered
        /\ UNCHANGED <<mux, accepting, responding, user_streams, pending, active,
                       adapter_flows, opened, accepted, failed>>
    BY <1>2 DEF ModuleCloses
  <2>2. TypeOK'
    BY <2>1, Zenon DEF TypeOK, IInv
  <2>3. OneOwner' /\ PendingInStep' /\ NoStateError' /\ SlotsCoverFlows'
    BY <2>1 DEF OneOwner, PendingInStep, NoStateError, SlotsCoverFlows, Asked, IInv
  <2>4. \A f \in active' : f <= accepted'
    BY <2>1 DEF IInv
  <2> QED BY <2>2, <2>3, <2>4 DEF IInv
<1> QED BY <1>1, <1>2

\* Every step keeps the invariant.
LEMMA NextIInv == IInv /\ [Next]_vars => IInv'
<1> SUFFICES ASSUME IInv, [Next]_vars PROVE IInv'
  OBVIOUS
<1>1. CASE PollPending
  BY <1>1, PollPendingIInv
<1>2. CASE AwaitResponse
  BY <1>2, AwaitResponseIInv
<1>3. CASE Rejected
  BY <1>3, RejectedIInv
<1>4. CASE Attached
  BY <1>4, AttachedIInv
<1>5. CASE AnswerFails
  BY <1>5, FailIInv DEF AnswerFails
<1>6. CASE StartAccept
  BY <1>6, StartAcceptIInv
<1>7. CASE PollAccepting
  BY <1>7, PollAcceptingIInv
<1>8. CASE FlowAccepted
  BY <1>8, FlowAcceptedIInv
<1>9. CASE AcceptFails
  BY <1>9, FailIInv DEF AcceptFails
<1>10. CASE ClientOpens \/ \E f \in Flow : ModuleCloses(f)
  BY <1>10, OutsideIInv
<1>11. CASE UNCHANGED vars
  <2>1. TypeOK'
    BY <1>11, Zenon DEF TypeOK, IInv, vars
  <2>2. OneOwner' /\ PendingInStep' /\ NoStateError' /\ SlotsCoverFlows'
    BY <1>11 DEF OneOwner, PendingInStep, NoStateError, SlotsCoverFlows, Asked, IInv, vars
  <2>3. \A f \in active' : f <= accepted'
    BY <1>11 DEF IInv, vars
  <2> QED BY <2>1, <2>2, <2>3 DEF IInv
<1> QED BY <1>1, <1>2, <1>3, <1>4, <1>5, <1>6, <1>7, <1>8, <1>9, <1>10, <1>11 DEF Next

\* Every reachable state of a session satisfies the invariant.
LEMMA Inductive == Spec => []IInv
BY InitIInv, NextIInv, PTL DEF Spec
-----------------------------------------------------------------------------
\* The fields of EstablishedSession keep their types and the reserved slots their
\* limit, for any limit and any number of flows.
THEOREM TypeCorrect == Spec => []TypeOK
<1>1. IInv => TypeOK
  BY DEF IInv
<1> QED BY <1>1, Inductive, PTL

\* poll and start_response never return SessionFlowError::State.
THEOREM StatesInStep == Spec => []NoStateError
<1>1. IInv => NoStateError
  BY DEF IInv
<1> QED BY <1>1, Inductive, PTL

\* Every flow of a session holds a slot of its own: release_flow, which saturates,
\* never frees the slot of another flow.
THEOREM SlotsKept == Spec => []SlotsCoverFlows
<1>1. IInv => SlotsCoverFlows
  BY DEF IInv
<1> QED BY <1>1, Inductive, PTL

\* No adapter opens a flow before the policy admitted it and all the addresses that
\* this adapter resolved.
THEOREM AdmittedFirst == Spec => []OpenedAfterAdmission
<1>1. IInv => OpenedAfterAdmission
  BY DEF IInv, PendingInStep, Asked, OpenedAfterAdmission
<1> QED BY <1>1, Inductive, PTL

\* A stream is handed to the modules once per flow: poll registers only the flow it
\* accepted last, and that one is not attached.
THEOREM HandedOverOnce == Spec => AttachedOnce
<1>1. IInv /\ [Next]_vars => [\A f \in registered' \ registered : f \notin active /\ f = accepted]_vars
  <2> SUFFICES ASSUME IInv, Next,
                      NEW f \in registered' \ registered
               PROVE  f \notin active /\ f = accepted
    BY DEF vars
  <2>1. Attached
    BY DEF Next, PollPending, AwaitResponse, Rejected, AnswerFails, StartAccept,
           PollAccepting, FlowAccepted, AcceptFails, ClientOpens, ModuleCloses, Fail
  <2>2. responding /\ f = pending.flow
    BY <2>1 DEF Attached
  <2> QED BY <2>2, RespondingSlots
<1> QED BY <1>1, Inductive, PTL DEF Spec, AttachedOnce
=============================================================================
