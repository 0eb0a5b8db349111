-------------------------- MODULE ClientFlowsProofs -------------------------
(* Proofs about the client's flows, for any number of flows, any limits and    *)
(* any faults: slots, places and what an adapter hears.                        *)
EXTENDS ClientFlows, FiniteSetTheorems, TLAPS

Arrived == 1..Len(kind)
Mux(f) == <<f, "mux">>

TypeOK ==
    /\ kind \in Seq(Kinds) /\ Len(kind) <= MaxFlow
    /\ waiting \subseteq Arrived
    /\ pending \in [flow : Arrived \cup {0}, admitted : BOOLEAN, port : BOOLEAN]
    /\ openings \in Seq(Flow) /\ Range(openings) \subseteq Arrived
    /\ active \subseteq Arrived /\ IsFiniteSet(active)
    /\ user_streams \in Nat
    /\ IsFiniteSet(io)
    /\ told \in [Flow -> {"nothing", "ok", "refused", "closed"}]

\* No flow is opened twice.
Once == \A i, j \in DOMAIN openings : openings[i] = openings[j] => i = j

Places ==
    /\ waiting \cap (Range(openings) \cup active \cup {pending.flow}) = {}
    /\ Range(openings) \cap active = {}
    /\ pending.flow \notin Range(openings) \cup active
    /\ Range(openings) \cup active \subseteq admitted

\* A flow that has not arrived, or is on its way to its opening.
Unanswered(f) ==
    f \notin Arrived \/ f \in waiting \cup Range(openings) \cup {pending.flow}

\* What an adapter heard of a flow, by the place of the flow; only the flows that
\* are active have a stream in the hands of a module.  A session that failed
\* takes no further step.
Heard ==
    failed = "no" =>
        \A f \in Flow :
            /\ Unanswered(f) => told[f] = "nothing" /\ Mux(f) \notin io
            /\ f \in active /\ ~IsPacket(f) => told[f] = "ok"

\* client_pending is None or holds a flow.
Vacant == pending.flow = 0 => pending = NoPending

IInv == TypeOK /\ Once /\ SlotsCoverFlows /\ Places /\ Heard /\ Vacant

\* The step that AnsweredOnce allows.
AnswerStep ==
    \A f \in Flow :
        told'[f] # told[f] =>
            \/ told[f] = "nothing" /\ told'[f] = "ok" /\ <<f, "mux">> \in io' /\ f \in admitted
            \/ told[f] = "nothing" /\ told'[f] = "refused" /\ <<f, "mux">> \notin io'
            \/ told[f] = "ok" /\ told'[f] = "closed" /\ <<f, "mux">> \notin io'
-----------------------------------------------------------------------------
\* Flows arrive in order and are numbered.
LEMMA Numbers ==
    ASSUME TypeOK
    PROVE  /\ Len(kind) \in Nat /\ Arrived \subseteq Flow /\ 0 \notin Flow
           /\ MaxFlow \in Nat /\ MaxUserStreams \in Nat /\ IoLimit \in Nat
           /\ Len(openings) \in Nat /\ DOMAIN openings = 1..Len(openings)
           /\ Cardinality(active) \in Nat /\ Cardinality(io) \in Nat
<1>1. /\ Len(kind) \in Nat /\ Arrived \subseteq Flow /\ 0 \notin Flow
      /\ MaxFlow \in Nat /\ MaxUserStreams \in Nat /\ IoLimit \in Nat
  BY ClientAssumption DEF TypeOK, Arrived, Flow
<1>2. Len(openings) \in Nat /\ DOMAIN openings = 1..Len(openings)
  BY DEF TypeOK
<1>3. Cardinality(active) \in Nat /\ Cardinality(io) \in Nat
  BY FS_CardinalityType DEF TypeOK
<1> QED BY <1>1, <1>2, <1>3

\* A sequence without repetitions has as many members as elements.
LEMMA OnceCounted ==
    ASSUME TypeOK, Once
    PROVE  Cardinality(Range(openings)) = Len(openings)
<1> DEFINE n == Len(openings)
<1>1. n \in Nat /\ DOMAIN openings = 1..n
  BY Numbers
<1>2. IsFiniteSet(1..n) /\ Cardinality(1..n) = n
  <2> HIDE DEF n
  <2>1. n \in Int /\ 1 \in Int
    BY <1>1
  <2>2. IsFiniteSet(1..n) /\ Cardinality(1..n) = IF 1 > n THEN 0 ELSE n - 1 + 1
    BY <2>1, FS_Interval
  <2> QED BY <1>1, <2>2
<1>3. openings \in Bijection(1..n, Range(openings))
  BY <1>1 DEF Once, Range, Bijection, Injection, Surjection, TypeOK, IsInjective
<1>4. ExistsBijection(1..n, Range(openings))
  BY <1>3 DEF ExistsBijection
<1> HIDE DEF n
<1>5. Cardinality(Range(openings)) = Cardinality(1..n)
  BY <1>2, <1>4, FS_Bijection
<1> QED BY <1>2, <1>5 DEF n

\* release_flow gives back at most what there is.
LEMMA Released ==
    ASSUME NEW n \in Nat, NEW k \in Nat
    PROVE  release_flow(n, k) \in Nat /\ release_flow(n, k) <= n /\ release_flow(n, k) >= n - k
BY DEF release_flow

\* reap_closed frees no more slots than flows leave, and tells the adapters of
\* flows that were active, and of those only.
LEMMA ReapFine ==
    ASSUME IInv, failed = "no"
    PROVE  /\ reap_closed.active \subseteq active /\ IsFiniteSet(reap_closed.active)
           /\ Cardinality(reap_closed.active) \in Nat
           /\ reap_closed.user_streams \in Nat /\ reap_closed.user_streams <= user_streams
           /\ reap_closed.user_streams >= Len(openings) + Cardinality(reap_closed.active)
           /\ reap_closed.told \in [Flow -> {"nothing", "ok", "refused", "closed"}]
           /\ \A f \in Flow : \/ reap_closed.told[f] = told[f]
                              \/ /\ told[f] = "ok" /\ reap_closed.told[f] = "closed"
                                 /\ f \in active /\ f \notin reap_closed.active
                                 /\ Mux(f) \notin io
<1> DEFINE r == reap_closed
<1>1. /\ r.active = active \ Closed
      /\ r.user_streams = release_flow(user_streams, Cardinality(Reaped))
      /\ r.told = [f \in Flow |-> IF f \in Reaped THEN "closed" ELSE told[f]]
  BY DEF reap_closed
<1> HIDE DEF r
<1>2. Closed \subseteq active /\ Reaped \subseteq Closed /\ IsFiniteSet(active)
  BY DEF Closed, Reaped, IInv, TypeOK
<1>3. /\ IsFiniteSet(Closed) /\ Cardinality(Closed) \in Nat
      /\ IsFiniteSet(Reaped) /\ Cardinality(Reaped) \in Nat
      /\ IsFiniteSet(active \ Closed) /\ Cardinality(active \ Closed) \in Nat
      /\ Cardinality(Reaped) <= Cardinality(Closed)
  <2>1. IsFiniteSet(Closed) /\ IsFiniteSet(active \ Closed)
    BY <1>2, FS_Subset
  <2>2. IsFiniteSet(Reaped) /\ Cardinality(Reaped) <= Cardinality(Closed)
    BY <1>2, <2>1, FS_Subset
  <2> QED BY <2>1, <2>2, FS_CardinalityType
<1>4. Cardinality(active) = Cardinality(active \ Closed) + Cardinality(Closed)
  <2>1. (active \ Closed) \cup Closed = active /\ (active \ Closed) \cap Closed = {}
    BY <1>2
  <2>2. Cardinality((active \ Closed) \cup Closed) =
          Cardinality(active \ Closed) + Cardinality(Closed)
            - Cardinality((active \ Closed) \cap Closed)
    BY <1>3, FS_Union
  <2>3. Cardinality({}) = 0
    BY FS_EmptySet
  <2>4. Cardinality(active) = Cardinality(active \ Closed) + Cardinality(Closed) - 0
    BY <2>1, <2>2, <2>3
  <2> QED BY <1>3, <2>4
<1>5. /\ user_streams \in Nat /\ Len(openings) \in Nat
      /\ user_streams >= Len(openings) + Cardinality(active)
  BY Numbers DEF IInv, TypeOK, SlotsCoverFlows
<1>6. /\ r.user_streams \in Nat /\ r.user_streams <= user_streams
      /\ r.user_streams >= user_streams - Cardinality(Reaped)
  <2>1. r.user_streams = release_flow(user_streams, Cardinality(Reaped))
    BY <1>1
  <2> QED BY <1>3, <1>5, <2>1, Released
<1>7. r.user_streams >= Len(openings) + Cardinality(active \ Closed)
  BY <1>3, <1>4, <1>5, <1>6
<1>8. \A f \in Reaped : f \in Flow /\ f \in active /\ told[f] = "ok" /\ Mux(f) \notin io
  BY Numbers DEF Reaped, Closed, IInv, Heard, TypeOK, Mux
<1>9. r.told \in [Flow -> {"nothing", "ok", "refused", "closed"}]
  BY <1>1 DEF IInv, TypeOK
<1>10. \A f \in Flow : \/ r.told[f] = told[f]
                       \/ /\ told[f] = "ok" /\ r.told[f] = "closed"
                          /\ f \in active /\ f \notin r.active /\ Mux(f) \notin io
  BY <1>1, <1>2, <1>8
<1> QED BY <1>1, <1>2, <1>3, <1>6, <1>7, <1>9, <1>10 DEF r

\* Registration keeps the limit on handles.
LEMMA RegisterFine ==
    ASSUME IInv, NEW E, IsFiniteSet(E), CanRegister(E)
    PROVE  IsFiniteSet(io \cup E) /\ Cardinality(io \cup E) <= IoLimit
<1>1. IsFiniteSet(io) /\ Cardinality(io) \in Nat /\ Cardinality(E) \in Nat /\ IoLimit \in Nat
  BY Numbers, FS_CardinalityType DEF IInv, TypeOK
<1>2. IsFiniteSet(io \cap E) /\ Cardinality(io \cap E) \in Nat
  <2>1. io \cap E \in SUBSET io
    OBVIOUS
  <2>2. IsFiniteSet(io \cap E)
    BY <1>1, <2>1, FS_Subset
  <2> QED BY <2>2, FS_CardinalityType
<1>3. /\ IsFiniteSet(io \cup E)
      /\ Cardinality(io \cup E) = Cardinality(io) + Cardinality(E) - Cardinality(io \cap E)
  BY <1>1, FS_Union
<1> QED BY <1>1, <1>2, <1>3 DEF CanRegister

\* The ends of a flow are finitely many.
LEMMA EndsFinite == \A f : IsFiniteSet(EndsOf(f)) /\ IsFiniteSet({<<f, "adapter">>})
<1> TAKE f
<1>1. IsFiniteSet({<<f, "mux">>}) /\ IsFiniteSet({<<f, "adapter">>})
  BY FS_Singleton
<1>2. IsFiniteSet({<<f, "mux">>} \cup {<<f, "policy">>})
  BY <1>1, FS_AddElement
<1>3. {<<f, "mux">>} \cup {<<f, "policy">>} = {<<f, "mux">>, <<f, "policy">>}
  OBVIOUS
<1> QED BY <1>1, <1>2, <1>3 DEF EndsOf

\* swap_remove takes out the opening it is asked to take out, and no other.
LEMMA RemoveFine ==
    ASSUME TypeOK, Once, NEW i \in DOMAIN openings
    PROVE  /\ RemoveOpening(i) \in Seq(Flow)
           /\ Len(RemoveOpening(i)) = Len(openings) - 1
           /\ Range(RemoveOpening(i)) = Range(openings) \ {openings[i]}
           /\ \A j, k \in DOMAIN RemoveOpening(i) :
                 RemoveOpening(i)[j] = RemoveOpening(i)[k] => j = k
<1> DEFINE n == Len(openings)
           t == [openings EXCEPT ![i] = openings[n]]
           s == RemoveOpening(i)
<1>1. n \in Nat /\ DOMAIN openings = 1..n /\ i \in 1..n /\ n \in 1..n /\ n - 1 \in Nat
  BY Numbers
<1>2. /\ t \in Seq(Flow) /\ Len(t) = n
      /\ \A k \in 1..n : t[k] = IF k = i THEN openings[n] ELSE openings[k]
  BY <1>1 DEF TypeOK
<1>3. s = SubSeq(t, 1, n - 1)
  BY DEF RemoveOpening
<1> HIDE DEF n, t, s
<1>4. s \in Seq(Flow) /\ Len(s) = n - 1 /\ \A k \in 1..(n - 1) : s[k] = t[k]
  BY <1>1, <1>2, <1>3
<1>5. DOMAIN s = 1..(n - 1)
  BY <1>4
<1>6. \A k \in 1..(n - 1) : k \in 1..n /\ k # n
  BY <1>1
<1>7. \A k \in 1..(n - 1) : s[k] = IF k = i THEN openings[n] ELSE openings[k]
  BY <1>2, <1>4, <1>6
<1>8. \A j, k \in DOMAIN s : s[j] = s[k] => j = k
  BY <1>1, <1>5, <1>6, <1>7 DEF Once
<1>9. Range(s) \subseteq Range(openings) \ {openings[i]}
  BY <1>1, <1>5, <1>6, <1>7 DEF Once, Range
<1>10. Range(openings) \ {openings[i]} \subseteq Range(s)
  <2> SUFFICES ASSUME NEW k \in 1..n, openings[k] # openings[i]
               PROVE  \E j \in 1..(n - 1) : s[j] = openings[k]
    BY <1>1, <1>5 DEF Range
  <2>1. CASE k = n
    <3>1. i \in 1..(n - 1)
      BY <1>1, <2>1
    <3> QED BY <1>7, <2>1, <3>1
  <2>2. CASE k # n
    <3>1. k \in 1..(n - 1) /\ k # i
      BY <1>1, <2>2
    <3> QED BY <1>7, <3>1
  <2> QED BY <2>1, <2>2
<1> QED BY <1>4, <1>8, <1>9, <1>10 DEF s, n
-----------------------------------------------------------------------------
\* Completing a flow tells its adapter, and the adapters of reaped flows.
LEMMA CompleteFine ==
    ASSUME IInv, failed = "no", NEW f \in Flow, NEW what \in {"ok", "refused"}
    PROVE  /\ complete_flow(f, what) \in [Flow -> {"nothing", "ok", "refused", "closed"}]
           /\ \A g \in Flow : g # f => complete_flow(f, what)[g] = reap_closed.told[g]
           /\ complete_flow(f, what)[f] =
                IF IsPacket(f) THEN reap_closed.told[f] ELSE what
<1>1. reap_closed.told \in [Flow -> {"nothing", "ok", "refused", "closed"}]
  BY ReapFine
<1> DEFINE t == reap_closed.told
<1>2. complete_flow(f, what) = IF IsPacket(f) THEN t ELSE [t EXCEPT ![f] = what]
  BY DEF complete_flow
<1> HIDE DEF t
<1>3. t \in [Flow -> {"nothing", "ok", "refused", "closed"}]
  BY <1>1 DEF t
<1> QED BY <1>2, <1>3 DEF t

\* A poll that only reaps tells of ends.
LEMMA AnswersReap ==
    ASSUME IInv, failed = "no", told' = reap_closed.told,
           \A g \in Flow : Mux(g) \in io' => Mux(g) \in io
    PROVE  AnswerStep
BY ReapFine DEF AnswerStep, Mux

\* The adapter of an opening that the server accepted hears ok.
LEMMA AnswersOk ==
    ASSUME IInv, failed = "no", NEW f \in Range(openings),
           told' = complete_flow(f, "ok"), io' = io \cup EndsOf(f)
    PROVE  AnswerStep
<1>1. f \in Flow /\ told[f] = "nothing" /\ f \in admitted /\ f \notin active
  BY Numbers DEF IInv, TypeOK, Heard, Unanswered, Places
<1>2. reap_closed.told[f] = told[f]
  BY <1>1, ReapFine
<1>3. Mux(f) \in io' /\ \A g \in Flow : g # f /\ Mux(g) \notin io => Mux(g) \notin io'
  BY DEF EndsOf, Mux
<1>4. \A g \in Flow : g # f => told'[g] = reap_closed.told[g]
  BY <1>1, CompleteFine
<1>5. told'[f] = IF IsPacket(f) THEN reap_closed.told[f] ELSE "ok"
  BY <1>1, CompleteFine
<1>6. \A g \in Flow : reap_closed.told[g] = told[g] \/
                      (told[g] = "ok" /\ reap_closed.told[g] = "closed" /\ Mux(g) \notin io)
  BY ReapFine
<1> QED BY <1>1, <1>2, <1>3, <1>4, <1>5, <1>6 DEF AnswerStep, Mux

\* The adapter of a flow that is refused hears so.
LEMMA AnswersRefused ==
    ASSUME IInv, failed = "no", NEW f \in Flow, Unanswered(f), f \notin active,
           told' = complete_flow(f, "refused"), io' = io
    PROVE  AnswerStep
<1>1. told[f] = "nothing" /\ Mux(f) \notin io
  BY DEF IInv, Heard
<1>2. reap_closed.told[f] = told[f]
  BY <1>1, ReapFine
<1>4. \A g \in Flow : g # f => told'[g] = reap_closed.told[g]
  BY CompleteFine
<1>5. told'[f] = IF IsPacket(f) THEN reap_closed.told[f] ELSE "refused"
  BY CompleteFine
<1>6. \A g \in Flow : reap_closed.told[g] = told[g] \/
                      (told[g] = "ok" /\ reap_closed.told[g] = "closed" /\ Mux(g) \notin io)
  BY ReapFine
<1> QED BY <1>1, <1>2, <1>4, <1>5, <1>6 DEF AnswerStep, Mux

\* A poll that reaps and leaves every other flow where it is; what it tells
\* matters only if the session goes on.
LEMMA StayIInv ==
    ASSUME IInv, failed = "no",
           UNCHANGED <<kind, waiting, pending, openings, admitted>>,
           active' = reap_closed.active, user_streams' = reap_closed.user_streams,
           told' \in [Flow -> {"nothing", "ok", "refused", "closed"}],
           IsFiniteSet(io'), Cardinality(io') <= IoLimit,
           failed' # "no" \/ (told' = reap_closed.told /\ io' = io)
    PROVE  IInv'
<1>1. active' \subseteq active /\ IsFiniteSet(active')
  BY ReapFine
<1>2. TypeOK'
  BY <1>1, ReapFine DEF IInv, TypeOK, Arrived
<1>3. Once'
  BY DEF IInv, Once
<1>4. SlotsCoverFlows'
  <2>1. /\ user_streams' \in Nat /\ user_streams' <= user_streams
        /\ user_streams' >= Len(openings) + Cardinality(active')
    BY ReapFine
  <2>2. user_streams <= MaxUserStreams /\ user_streams \in Nat /\ MaxUserStreams \in Nat
    BY Numbers DEF IInv, TypeOK, SlotsCoverFlows
  <2> QED BY <2>1, <2>2 DEF SlotsCoverFlows
<1>5. Places'
  BY <1>1 DEF IInv, Places
<1>6. Heard'
  <2> SUFFICES ASSUME failed' = "no", NEW f \in Flow
               PROVE  /\ Unanswered(f)' => told'[f] = "nothing" /\ Mux(f) \notin io'
                      /\ f \in active' /\ ~IsPacket(f)' => told'[f] = "ok"
    BY DEF Heard, Mux
  <2>1. told' = reap_closed.told /\ io' = io
    OBVIOUS
  <2>2. (Unanswered(f)' <=> Unanswered(f)) /\ (IsPacket(f)' <=> IsPacket(f))
    BY DEF Unanswered, Arrived, IsPacket
  <2>3. /\ Unanswered(f) => told[f] = "nothing" /\ Mux(f) \notin io
        /\ f \in active /\ ~IsPacket(f) => told[f] = "ok"
    BY DEF IInv, Heard
  <2>4. \/ reap_closed.told[f] = told[f]
        \/ told[f] = "ok" /\ f \notin active'
    BY ReapFine
  <2> QED BY <1>1, <2>1, <2>2, <2>3, <2>4
<1>7. Vacant'
  BY DEF IInv, Vacant
<1> QED BY <1>2, <1>3, <1>4, <1>5, <1>6, <1>7 DEF IInv

\* The flow of an opening: it has arrived and its adapter has heard nothing.
LEMMA OpeningFlow ==
    ASSUME IInv, failed = "no", NEW i \in DOMAIN openings
    PROVE  /\ openings[i] \in Range(openings) /\ openings[i] \in Flow
           /\ openings[i] \in Arrived /\ Unanswered(openings[i])
           /\ openings[i] \notin active /\ openings[i] \notin waiting
           /\ openings[i] # pending.flow /\ openings[i] \in admitted
<1>1. openings[i] \in Range(openings)
  BY DEF Range
<1> QED BY <1>1, Numbers DEF IInv, TypeOK, Places, Unanswered

\* The server accepted a flow.
LEMMA OpenedOkFine ==
    ASSUME IInv, NEW i \in DOMAIN openings, OpenedOk(i)
    PROVE  IInv' /\ AnswerStep
<1> DEFINE f == openings[i]
           r == reap_closed
<1>1. failed = "no"
  BY DEF OpenedOk
<1>2. /\ f \in Range(openings) /\ f \in Flow /\ f \in Arrived /\ Unanswered(f)
      /\ f \notin active /\ f \notin waiting /\ f # pending.flow /\ f \in admitted
  BY <1>1, OpeningFlow
<1>3. IsFiniteSet(io) /\ Cardinality(io) <= IoLimit
  BY DEF IInv, TypeOK, SlotsCoverFlows
<1>4. /\ UNCHANGED <<kind, waiting, pending, admitted>>
      /\ user_streams' = r.user_streams
      /\ \/ /\ active' = r.active /\ UNCHANGED openings /\ failed' # "no"
            /\ told' = r.told /\ io' = io
         \/ /\ active' = r.active /\ UNCHANGED openings /\ failed' # "no"
            /\ told' = complete_flow(f, "ok") /\ io' = io \cup EndsOf(f) /\ CanRegister(EndsOf(f))
         \/ /\ active' = r.active \cup {f} /\ openings' = RemoveOpening(i) /\ failed' = "no"
            /\ told' = complete_flow(f, "ok") /\ io' = io \cup EndsOf(f) /\ CanRegister(EndsOf(f))
  BY <1>1 DEF OpenedOk, Fail
<1> HIDE DEF f, r
<1>5. CASE active' = r.active /\ UNCHANGED openings /\ failed' # "no"
           /\ told' = r.told /\ io' = io
  BY <1>1, <1>3, <1>4, <1>5, ReapFine, StayIInv, AnswersReap DEF r
<1>6. CASE told' = complete_flow(f, "ok") /\ io' = io \cup EndsOf(f) /\ CanRegister(EndsOf(f))
  <2>1. IsFiniteSet(io') /\ Cardinality(io') <= IoLimit
    BY <1>6, EndsFinite, RegisterFine
  <2>2. told' \in [Flow -> {"nothing", "ok", "refused", "closed"}]
    BY <1>1, <1>2, <1>6, CompleteFine
  <2>3. AnswerStep
    BY <1>1, <1>2, <1>6, AnswersOk
  <2>4. CASE active' = r.active /\ UNCHANGED openings /\ failed' # "no"
    BY <1>1, <1>4, <2>1, <2>2, <2>3, <2>4, StayIInv DEF r
  <2>5. CASE active' = r.active \cup {f} /\ openings' = RemoveOpening(i) /\ failed' = "no"
    <3>1. /\ openings' \in Seq(Flow) /\ Len(openings') = Len(openings) - 1
          /\ Range(openings') = Range(openings) \ {f}
      BY <2>5, RemoveFine DEF IInv, f
    <3>2. Once'
      BY <2>5, RemoveFine DEF IInv, Once
    <3>3. /\ r.active \subseteq active /\ IsFiniteSet(r.active) /\ Cardinality(r.active) \in Nat
          /\ r.user_streams \in Nat /\ r.user_streams <= user_streams
          /\ r.user_streams >= Len(openings) + Cardinality(r.active)
      BY <1>1, ReapFine DEF r
    <3>4. IsFiniteSet(active') /\ Cardinality(active') = Cardinality(r.active) + 1
      <4>1. f \notin r.active
        BY <1>2, <3>3
      <4> QED BY <2>5, <3>3, <4>1, FS_AddElement
    <3>5. TypeOK'
      BY <1>2, <1>4, <2>1, <2>2, <2>5, <3>1, <3>3, <3>4 DEF IInv, TypeOK, Arrived
    <3>6. SlotsCoverFlows'
      <4>1. /\ user_streams <= MaxUserStreams /\ user_streams \in Nat
            /\ MaxUserStreams \in Nat /\ Len(openings) \in Nat
        BY Numbers DEF IInv, TypeOK, SlotsCoverFlows
      <4>2. user_streams' >= Len(openings') + Cardinality(active')
        BY <1>4, <3>1, <3>3, <3>4, <4>1
      <4>3. user_streams' <= MaxUserStreams
        BY <1>4, <3>3, <4>1
      <4> QED BY <2>1, <4>2, <4>3 DEF SlotsCoverFlows
    <3>7. Places'
      <4>1. active' \subseteq active \cup {f} /\ f \notin Range(openings')
            /\ Range(openings') \subseteq Range(openings)
        BY <2>5, <3>1, <3>3
      <4>2. /\ waiting \cap (Range(openings) \cup active \cup {pending.flow}) = {}
            /\ Range(openings) \cap active = {}
            /\ pending.flow \notin Range(openings) \cup active
            /\ Range(openings) \cup active \subseteq admitted
        BY DEF IInv, Places
      <4> QED BY <1>2, <1>4, <4>1, <4>2 DEF Places
    <3>8. Heard'
      <4> SUFFICES ASSUME NEW g \in Flow
                   PROVE  /\ Unanswered(g)' => told'[g] = "nothing" /\ Mux(g) \notin io'
                          /\ g \in active' /\ ~IsPacket(g)' => told'[g] = "ok"
        BY DEF Heard, Mux
      <4>1. IsPacket(g)' <=> IsPacket(g)
        BY <1>4 DEF IsPacket
      <4>2. CASE g = f
        <5>1. ~Unanswered(g)'
          BY <1>2, <1>4, <3>1, <4>2 DEF Unanswered, Arrived
        <5>2. ~IsPacket(f) => told'[f] = "ok"
          BY <1>1, <1>2, <1>6, CompleteFine
        <5> QED BY <4>1, <4>2, <5>1, <5>2
      <4>3. CASE g # f
        <5>1. told'[g] = r.told[g]
          BY <1>1, <1>2, <1>6, <4>3, CompleteFine DEF r
        <5>2. r.told[g] = told[g] \/ (told[g] = "ok" /\ g \notin r.active)
          BY <1>1, ReapFine DEF r
        <5>3. Unanswered(g)' => Unanswered(g)
          BY <1>4, <3>1 DEF Unanswered, Arrived
        <5>4. Mux(g) \in io' => Mux(g) \in io
          BY <1>6, <4>3 DEF EndsOf, Mux
        <5>5. g \in active' => g \in r.active /\ g \in active
          BY <2>5, <3>3, <4>3
        <5>6. /\ Unanswered(g) => told[g] = "nothing" /\ Mux(g) \notin io
              /\ g \in active /\ ~IsPacket(g) => told[g] = "ok"
          BY <1>1 DEF IInv, Heard
        <5> QED BY <4>1, <5>1, <5>2, <5>3, <5>4, <5>5, <5>6
      <4> QED BY <4>2, <4>3
    <3>9. Vacant'
      BY <1>4 DEF IInv, Vacant
    <3> QED BY <2>3, <3>2, <3>5, <3>6, <3>7, <3>8, <3>9 DEF IInv
  <2> QED BY <1>4, <1>6, <2>4, <2>5
<1> QED BY <1>4, <1>5, <1>6

\* The server refused a flow, or its stream failed.
LEMMA OpenedRefusedFine ==
    ASSUME IInv, NEW i \in DOMAIN openings, OpenedRefused(i) \/ OpenedError(i)
    PROVE  IInv' /\ AnswerStep
<1> DEFINE f == openings[i]
           r == reap_closed
<1>1. failed = "no"
  BY DEF OpenedRefused, OpenedError
<1>2. /\ f \in Range(openings) /\ f \in Flow /\ f \in Arrived /\ Unanswered(f)
      /\ f \notin active /\ f \notin waiting /\ f # pending.flow
  BY <1>1, OpeningFlow
<1>3. IsFiniteSet(io) /\ Cardinality(io) <= IoLimit
  BY DEF IInv, TypeOK, SlotsCoverFlows
<1>4. /\ UNCHANGED <<kind, waiting, pending, admitted, io>>
      /\ active' = r.active /\ told' = complete_flow(f, "refused")
      /\ \/ UNCHANGED openings /\ user_streams' = r.user_streams /\ failed' # "no"
         \/ /\ openings' = RemoveOpening(i) /\ failed' = "no"
            /\ user_streams' = release_flow(r.user_streams, 1)
  BY <1>1 DEF OpenedRefused, OpenedError, Fail
<1> HIDE DEF f, r
<1>5. AnswerStep
  BY <1>1, <1>2, <1>4, AnswersRefused
<1>6. told' \in [Flow -> {"nothing", "ok", "refused", "closed"}]
  BY <1>1, <1>2, <1>4, CompleteFine
<1>7. CASE UNCHANGED openings /\ user_streams' = r.user_streams /\ failed' # "no"
  BY <1>1, <1>3, <1>4, <1>5, <1>6, <1>7, StayIInv DEF r
<1>8. CASE openings' = RemoveOpening(i) /\ failed' = "no"
           /\ user_streams' = release_flow(r.user_streams, 1)
  <2>1. /\ openings' \in Seq(Flow) /\ Len(openings') = Len(openings) - 1
        /\ Range(openings') = Range(openings) \ {f}
    BY <1>8, RemoveFine DEF IInv, f
  <2>2. Once'
    BY <1>8, RemoveFine DEF IInv, Once
  <2>3. /\ r.active \subseteq active /\ IsFiniteSet(r.active) /\ Cardinality(r.active) \in Nat
        /\ r.user_streams \in Nat /\ r.user_streams <= user_streams
        /\ r.user_streams >= Len(openings) + Cardinality(r.active)
    BY <1>1, ReapFine DEF r
  <2>4. /\ user_streams' \in Nat /\ user_streams' <= r.user_streams
        /\ user_streams' >= r.user_streams - 1
    BY <1>8, <2>3, Released
  <2>5. TypeOK'
    BY <1>4, <1>6, <2>1, <2>3, <2>4 DEF IInv, TypeOK, Arrived
  <2>6. SlotsCoverFlows'
    <3>1. /\ user_streams <= MaxUserStreams /\ user_streams \in Nat
          /\ MaxUserStreams \in Nat /\ Len(openings) \in Nat
      BY Numbers DEF IInv, TypeOK, SlotsCoverFlows
    <3>2. user_streams' >= Len(openings') + Cardinality(active')
      BY <1>4, <2>1, <2>3, <2>4, <3>1
    <3>3. user_streams' <= MaxUserStreams
      BY <2>3, <2>4, <3>1
    <3> QED BY <1>3, <1>4, <3>2, <3>3 DEF SlotsCoverFlows
  <2>7. Places'
    BY <1>4, <2>1, <2>3 DEF IInv, Places
  <2>8. Heard'
    <3> SUFFICES ASSUME NEW g \in Flow
                 PROVE  /\ Unanswered(g)' => told'[g] = "nothing" /\ Mux(g) \notin io'
                        /\ g \in active' /\ ~IsPacket(g)' => told'[g] = "ok"
      BY DEF Heard, Mux
    <3>1. (IsPacket(g)' <=> IsPacket(g)) /\ (Unanswered(g)' => Unanswered(g) /\ g # f)
      BY <1>2, <1>4, <2>1 DEF IsPacket, Unanswered, Arrived
    <3>2. g \in active' => g # f /\ g \in active /\ g \in r.active
      BY <1>2, <1>4, <2>3
    <3>3. g # f => told'[g] = r.told[g]
      BY <1>1, <1>2, <1>4, CompleteFine DEF r
    <3>4. r.told[g] = told[g] \/ (told[g] = "ok" /\ g \notin r.active)
      BY <1>1, ReapFine DEF r
    <3>5. /\ Unanswered(g) => told[g] = "nothing" /\ Mux(g) \notin io
          /\ g \in active /\ ~IsPacket(g) => told[g] = "ok"
      BY <1>1 DEF IInv, Heard
    <3> QED BY <1>4, <3>1, <3>2, <3>3, <3>4, <3>5
  <2>9. Vacant'
    BY <1>4 DEF IInv, Vacant
  <2> QED BY <1>5, <2>2, <2>5, <2>6, <2>7, <2>8, <2>9 DEF IInv
<1> QED BY <1>4, <1>7, <1>8

\* What a poll does with the flow p that it takes or has pending.
LEMMA SeeSummary ==
    ASSUME NEW p \in [flow : Flow, admitted : BOOLEAN, port : BOOLEAN], failed = "no", See(p)
    PROVE  /\ active' = reap_closed.active
           /\ pending' \in {NoPending, p, [p EXCEPT !.admitted = TRUE]}
           /\ admitted \subseteq admitted'
           /\ \/ io' = io
              \/ /\ io' = io \cup {<<p.flow, "adapter">>}
                 /\ CanRegister({<<p.flow, "adapter">>})
           /\ \/ openings' = openings /\ user_streams' = reap_closed.user_streams
              \/ /\ openings' = Append(openings, p.flow) /\ pending' = NoPending
                 /\ user_streams' = reap_closed.user_streams + 1
                 /\ ~(reap_closed.user_streams >= MaxUserStreams)
                 /\ p.flow \in admitted' /\ told' = reap_closed.told
           /\ \/ told' = reap_closed.told
              \/ /\ told' = complete_flow(p.flow, "refused") /\ openings' = openings
                 /\ io' = io /\ (failed' # "no" \/ pending' = NoPending)
<1> DEFINE q == [p EXCEPT !.admitted = TRUE]
<1>1. q.flow = p.flow
  OBVIOUS
<1>2. active' = reap_closed.active /\ (Proceed(p) \/ Await(p) \/ Refuse(p))
  BY DEF See
<1>3. CASE Await(p)
  BY <1>2, <1>3 DEF Await
<1>4. CASE Refuse(p)
  BY <1>2, <1>4 DEF Refuse
<1>5. CASE Proceed(p)
  <2>1. admitted' = admitted \cup {p.flow} /\ told' = reap_closed.told /\ open_ports(q)
    BY <1>5 DEF Proceed
  <2> HIDE DEF q
  <2>2. \/ begin_open(q) /\ io' = io
        \/ begin_open(q) /\ io' = io \cup {<<p.flow, "adapter">>}
           /\ CanRegister({<<p.flow, "adapter">>})
        \/ pending' = q /\ user_streams' = reap_closed.user_streams
           /\ UNCHANGED <<openings, io>>
    BY <1>1, <2>1 DEF open_ports
  <2>3. begin_open(q) =>
          /\ pending' = NoPending
          /\ \/ openings' = openings /\ user_streams' = reap_closed.user_streams
             \/ /\ openings' = Append(openings, p.flow)
                /\ user_streams' = reap_closed.user_streams + 1
                /\ ~(reap_closed.user_streams >= MaxUserStreams)
    BY <1>1 DEF begin_open
  <2> QED BY <1>2, <2>1, <2>2, <2>3 DEF q
<1> QED BY <1>2, <1>3, <1>4, <1>5

\* A flow at the end of the openings.
LEMMA AppendFine ==
    ASSUME TypeOK, Once, NEW f \in Flow, f \notin Range(openings)
    PROVE  LET s == Append(openings, f) IN
           /\ s \in Seq(Flow) /\ Len(s) = Len(openings) + 1
           /\ Range(s) = Range(openings) \cup {f}
           /\ \A j, k \in DOMAIN s : s[j] = s[k] => j = k
<1> DEFINE s == Append(openings, f)
           n == Len(openings)
<1>1. n \in Nat /\ DOMAIN openings = 1..n /\ openings \in Seq(Flow)
  BY Numbers DEF TypeOK
<1>2. /\ s \in Seq(Flow) /\ Len(s) = n + 1 /\ DOMAIN s = 1..(n + 1)
      /\ \A k \in 1..n : s[k] = openings[k]
      /\ s[n + 1] = f
  BY <1>1
<1> HIDE DEF s, n
<1>3. \A k \in 1..(n + 1) : k \in 1..n \/ k = n + 1
  BY <1>1
<1>4. \A k \in 1..n : k \in 1..(n + 1)
  BY <1>1
<1>5. n + 1 \in 1..(n + 1)
  BY <1>1
<1>6. \A k \in 1..n : s[k] \in Range(openings) /\ s[k] # f
  BY <1>1, <1>2 DEF Range
<1>7. \A j, k \in DOMAIN s : s[j] = s[k] => j = k
  BY <1>1, <1>2, <1>3, <1>6 DEF Once
<1>8. Range(s) = Range(openings) \cup {f}
  BY <1>1, <1>2, <1>3, <1>4, <1>5 DEF Range
<1> QED BY <1>2, <1>7, <1>8 DEF s, n

\* The flow that a poll works on leaves its waiting place, and is pending, or
\* being opened, or gone.
LEMMA SeeFine ==
    ASSUME IInv, failed = "no",
           NEW p \in [flow : Flow, admitted : BOOLEAN, port : BOOLEAN],
           p.flow \in Arrived, Unanswered(p.flow), p.flow \notin Range(openings) \cup active,
           pending = NoPending \/ pending = p,
           waiting' = waiting \ {p.flow}, kind' = kind, See(p)
    PROVE  IInv' /\ AnswerStep
<1> DEFINE r == reap_closed
           f == p.flow
           e == {<<f, "adapter">>}
<1>1. /\ active' = r.active
      /\ pending' \in {NoPending, p, [p EXCEPT !.admitted = TRUE]}
      /\ admitted \subseteq admitted'
      /\ \/ io' = io
         \/ io' = io \cup e /\ CanRegister(e)
      /\ \/ openings' = openings /\ user_streams' = r.user_streams
         \/ /\ openings' = Append(openings, f) /\ pending' = NoPending
            /\ user_streams' = r.user_streams + 1
            /\ ~(r.user_streams >= MaxUserStreams)
            /\ f \in admitted' /\ told' = r.told
      /\ \/ told' = r.told
         \/ /\ told' = complete_flow(f, "refused") /\ openings' = openings
            /\ io' = io /\ (failed' # "no" \/ pending' = NoPending)
  BY SeeSummary
<1>2. /\ r.active \subseteq active /\ IsFiniteSet(r.active) /\ Cardinality(r.active) \in Nat
      /\ r.user_streams \in Nat /\ r.user_streams <= user_streams
      /\ r.user_streams >= Len(openings) + Cardinality(r.active)
      /\ r.told \in [Flow -> {"nothing", "ok", "refused", "closed"}]
      /\ \A g \in Flow : r.told[g] = told[g] \/ (told[g] = "ok" /\ g \notin r.active)
  BY ReapFine
<1>3. /\ pending' \in [flow : Arrived \cup {0}, admitted : BOOLEAN, port : BOOLEAN]
      /\ pending'.flow \in {0, f} /\ (pending' = NoPending => pending'.flow = 0)
      /\ pending.flow \in {0, f} /\ f \in Flow /\ f \in Arrived
  <2>1. NoPending \in [flow : Arrived \cup {0}, admitted : BOOLEAN, port : BOOLEAN]
        /\ NoPending.flow = 0
    BY DEF NoPending
  <2> QED BY <1>1, <2>1
<1> HIDE DEF r, f, e
<1>4. IsFiniteSet(io') /\ Cardinality(io') <= IoLimit
  <2>1. CASE io' = io
    BY <2>1 DEF IInv, TypeOK, SlotsCoverFlows
  <2>2. CASE io' = io \cup e /\ CanRegister(e)
    BY <2>2, EndsFinite, RegisterFine DEF e
  <2> QED BY <1>1, <2>1, <2>2
<1>5. told' \in [Flow -> {"nothing", "ok", "refused", "closed"}]
  BY <1>1, <1>2, <1>3, CompleteFine
<1>6. \A g \in Flow : Mux(g) \in io' => Mux(g) \in io
  BY <1>1 DEF Mux, e
<1>7. AnswerStep
  <2>1. CASE told' = r.told
    BY <1>6, <2>1, AnswersReap DEF r
  <2>2. CASE told' = complete_flow(f, "refused") /\ io' = io
    BY <1>3, <2>2, AnswersRefused DEF f
  <2> QED BY <1>1, <2>1, <2>2
<1>8. /\ Once' /\ openings' \in Seq(Flow)
      /\ \/ openings' = openings /\ user_streams' = r.user_streams
         \/ /\ Len(openings') = Len(openings) + 1 /\ pending' = NoPending
            /\ Range(openings') = Range(openings) \cup {f} /\ f \in admitted'
            /\ user_streams' = r.user_streams + 1
            /\ ~(r.user_streams >= MaxUserStreams) /\ told' = r.told
  <2>1. CASE openings' = openings /\ user_streams' = r.user_streams
    BY <2>1 DEF IInv, Once, TypeOK
  <2>2. CASE openings' = Append(openings, f) /\ pending' = NoPending
             /\ user_streams' = r.user_streams + 1
             /\ ~(r.user_streams >= MaxUserStreams)
             /\ f \in admitted' /\ told' = r.told
    <3>1. f \notin Range(openings)
      BY DEF f
    <3>2. /\ openings' \in Seq(Flow) /\ Len(openings') = Len(openings) + 1
          /\ Range(openings') = Range(openings) \cup {f}
          /\ \A j, k \in DOMAIN openings' : openings'[j] = openings'[k] => j = k
      BY <1>3, <2>2, <3>1, AppendFine DEF IInv
    <3> QED BY <2>2, <3>2 DEF Once
  <2> QED BY <1>1, <2>1, <2>2
<1>9. Range(openings') \subseteq Range(openings) \cup {f} /\ active' \subseteq active
  BY <1>1, <1>2, <1>8
<1>10. TypeOK'
  <2>1. user_streams' \in Nat /\ IsFiniteSet(active')
    BY <1>1, <1>2, <1>8
  <2> QED BY <1>3, <1>4, <1>5, <1>8, <1>9, <2>1 DEF IInv, TypeOK, Arrived
<1>11. SlotsCoverFlows'
  <2>1. /\ user_streams <= MaxUserStreams /\ user_streams \in Nat
        /\ MaxUserStreams \in Nat /\ Len(openings) \in Nat
    BY Numbers DEF IInv, TypeOK, SlotsCoverFlows
  <2>2. user_streams' >= Len(openings') + Cardinality(active')
    BY <1>1, <1>2, <1>8, <2>1
  <2>3. user_streams' <= MaxUserStreams
    <3>1. \/ user_streams' = r.user_streams
          \/ user_streams' = r.user_streams + 1 /\ ~(r.user_streams >= MaxUserStreams)
      BY <1>8
    <3>2. r.user_streams \in Nat /\ r.user_streams <= user_streams
      BY <1>2
    <3> QED BY <2>1, <3>1, <3>2
  <2> QED BY <1>4, <2>2, <2>3 DEF SlotsCoverFlows
<1>12. Places'
  <2>1. 0 \notin waiting /\ 0 \notin Range(openings) \cup active /\ f # 0
    BY <1>3, Numbers DEF IInv, TypeOK
  <2>2. waiting' = waiting \ {f} /\ f \notin Range(openings) \cup active
    BY DEF f
  <2>3. pending'.flow = f => openings' = openings
    BY <1>3, <1>8, <2>1
  <2> QED BY <1>1, <1>3, <1>8, <1>9, <2>1, <2>2, <2>3 DEF IInv, Places
<1>13. Heard'
  <2> SUFFICES ASSUME failed' = "no", NEW g \in Flow
               PROVE  /\ Unanswered(g)' => told'[g] = "nothing" /\ Mux(g) \notin io'
                      /\ g \in active' /\ ~IsPacket(g)' => told'[g] = "ok"
    BY DEF Heard, Mux
  <2>1. IsPacket(g)' <=> IsPacket(g)
    BY DEF IsPacket
  <2>2. /\ Unanswered(g) => told[g] = "nothing" /\ Mux(g) \notin io
        /\ g \in active /\ ~IsPacket(g) => told[g] = "ok"
    BY DEF IInv, Heard
  <2>3. f \notin active /\ Unanswered(f) /\ waiting' = waiting \ {f}
    BY DEF f
  <2>4. Unanswered(g)' => Unanswered(g)
    BY <1>3, <1>9, <2>3, Numbers DEF Unanswered, Arrived, IInv
  <2>5. CASE told' = r.told
    BY <1>1, <1>2, <1>6, <1>9, <2>1, <2>2, <2>4, <2>5
  <2>6. CASE told' = complete_flow(f, "refused") /\ openings' = openings
             /\ io' = io /\ pending' = NoPending
    <3>1. g # f => told'[g] = r.told[g]
      BY <1>3, <2>6, CompleteFine DEF r
    <3>2. g = f => ~Unanswered(g)'
      <4>1. f \notin Range(openings) /\ f # 0 /\ pending'.flow = 0
        BY <1>3, <2>6, Numbers DEF f, IInv
      <4> QED BY <1>3, <2>3, <2>6, <4>1 DEF Unanswered, Arrived
    <3> QED BY <1>1, <1>2, <1>6, <1>9, <2>1, <2>2, <2>3, <2>4, <3>1, <3>2
  <2> QED BY <1>1, <2>5, <2>6
<1>14. Vacant'
  <2>1. f # 0 /\ p.flow = f /\ [p EXCEPT !.admitted = TRUE].flow = f
    BY <1>3, Numbers DEF IInv, f
  <2> QED BY <1>1, <2>1 DEF Vacant
<1> QED BY <1>7, <1>8, <1>10, <1>11, <1>12, <1>13, <1>14 DEF IInv

\* A set of flows that is not empty has an oldest flow.
LEMMA OldestFine ==
    ASSUME NEW S \in SUBSET Nat, S # {}
    PROVE  Oldest(S) \in S
<1> DEFINE R == OpToRel(<, Nat)
<1>1. \E x \in S : \A y \in S : ~(<<y, x>> \in R)
  <2>1. IsWellFoundedOn(R, Nat)
    BY NatLessThanWellFounded
  <2> HIDE DEF R
  <2> QED BY <2>1, WFMin
<1>2. PICK x \in S : \A y \in S : ~(<<y, x>> \in R)
  BY <1>1
<1>3. \A y \in S : x <= y
  <2> SUFFICES ASSUME NEW y \in S PROVE x <= y
    OBVIOUS
  <2>1. x \in Nat /\ y \in Nat /\ ~(<<y, x>> \in R)
    BY <1>2
  <2>2. y < x => <<y, x>> \in R
    BY <2>1 DEF OpToRel
  <2> HIDE DEF R
  <2> QED BY <2>1, <2>2
<1> QED BY <1>3 DEF Oldest

\* The pending flow goes on, or a flow is taken from those that wait.
LEMMA TakeFine ==
    ASSUME IInv, PollPending \/ AcceptFlow
    PROVE  IInv' /\ AnswerStep
<1>1. failed = "no"
  BY DEF PollPending, AcceptFlow
<1>2. CASE PollPending
  <2>1. See(pending) /\ pending # NoPending /\ kind' = kind /\ waiting' = waiting
    BY <1>2 DEF PollPending
  <2>2. pending.flow # 0 /\ pending.flow \in Arrived
    BY <2>1 DEF IInv, Vacant, TypeOK
  <2>3. pending \in [flow : Flow, admitted : BOOLEAN, port : BOOLEAN]
    BY <2>2, Numbers DEF IInv, TypeOK
  <2>4. pending.flow \notin waiting /\ pending.flow \notin Range(openings) \cup active
    BY DEF IInv, Places
  <2>5. waiting' = waiting \ {pending.flow} /\ Unanswered(pending.flow)
    BY <2>1, <2>4 DEF Unanswered
  <2> QED BY <1>1, <2>1, <2>2, <2>3, <2>4, <2>5, SeeFine
<1>3. CASE AcceptFlow
  <2>1. PICK f \in Accepted : waiting' = waiting \ {f} /\ See(NewPending(f)) /\ kind' = kind
    BY <1>3 DEF AcceptFlow
  <2>2. \A k : WaitingOf(k) \in SUBSET Nat /\ WaitingOf(k) \subseteq waiting
    <3>1. waiting \subseteq Arrived /\ Len(kind) \in Nat
      BY Numbers DEF IInv, TypeOK
    <3>2. Arrived \subseteq Nat
      BY <3>1 DEF Arrived
    <3> QED BY <3>1, <3>2 DEF WaitingOf
  <2>3. pending = NoPending /\ f \in waiting
    BY <2>1, <2>2, OldestFine DEF Accepted
  <2>4. f \in Arrived /\ f \in Flow /\ f \notin Range(openings) \cup active
    BY <2>3, Numbers DEF IInv, TypeOK, Places
  <2>5. NewPending(f) \in [flow : Flow, admitted : BOOLEAN, port : BOOLEAN]
        /\ NewPending(f).flow = f
    BY <2>4 DEF NewPending, IsPacket
  <2>6. Unanswered(f)
    BY <2>3 DEF Unanswered
  <2> QED BY <1>1, <2>1, <2>3, <2>4, <2>5, <2>6, SeeFine
<1> QED BY <1>2, <1>3

\* A poll with nothing to do, or whose adapter or session fails.
LEMMA IdleFine ==
    ASSUME IInv, AcceptFails \/ Idle
    PROVE  IInv' /\ AnswerStep
<1>1. /\ failed = "no" /\ told' = reap_closed.told /\ io' = io
      /\ UNCHANGED <<kind, waiting, pending, openings, admitted>>
      /\ active' = reap_closed.active /\ user_streams' = reap_closed.user_streams
  BY DEF AcceptFails, Idle, Fail
<1>2. IsFiniteSet(io) /\ Cardinality(io) <= IoLimit
  BY DEF IInv, TypeOK, SlotsCoverFlows
<1>3. told' \in [Flow -> {"nothing", "ok", "refused", "closed"}]
  BY <1>1, ReapFine
<1>4. IInv'
  BY <1>1, <1>2, <1>3, StayIInv
<1> QED BY <1>1, <1>4, AnswersReap

\* A flow arrives: its number is new.
LEMMA ArriveFine ==
    ASSUME IInv, NEW k \in Kinds, Arrive(k)
    PROVE  IInv' /\ AnswerStep
<1> DEFINE n == Len(kind)
<1>1. /\ n < MaxFlow /\ kind' = Append(kind, k) /\ waiting' = waiting \cup {n + 1}
      /\ failed = "no"
      /\ UNCHANGED <<pending, openings, active, user_streams, io, told, admitted, failed>>
  BY DEF Arrive
<1>2. n \in Nat /\ MaxFlow \in Nat /\ kind \in Seq(Kinds)
  BY Numbers DEF IInv, TypeOK
<1>3. /\ kind' \in Seq(Kinds) /\ Len(kind') = n + 1
      /\ DOMAIN kind = 1..n /\ DOMAIN kind' = 1..(n + 1)
      /\ \A j \in 1..n : kind'[j] = kind[j]
  BY <1>1, <1>2
<1>4. Arrived = 1..n /\ Arrived' = 1..(n + 1)
  BY <1>3 DEF Arrived
<1> HIDE DEF n
<1>5. /\ Arrived' = Arrived \cup {n + 1} /\ n + 1 \notin Arrived /\ n + 1 # 0
      /\ Len(kind') <= MaxFlow
  BY <1>1, <1>2, <1>3, <1>4
<1>6. TypeOK'
  BY <1>1, <1>3, <1>5 DEF IInv, TypeOK
<1>7. Once' /\ SlotsCoverFlows' /\ Vacant'
  BY <1>1 DEF IInv, Once, SlotsCoverFlows, Vacant
<1>8. Places'
  <2>1. n + 1 \notin Range(openings) \cup active \cup {pending.flow}
    BY <1>5 DEF IInv, TypeOK
  <2> QED BY <1>1, <2>1 DEF IInv, Places
<1>9. Heard'
  <2> SUFFICES ASSUME NEW g \in Flow
               PROVE  /\ Unanswered(g)' => told[g] = "nothing" /\ Mux(g) \notin io
                      /\ g \in active /\ ~IsPacket(g)' => told[g] = "ok"
    BY <1>1 DEF Heard, Mux
  <2>1. Unanswered(g)' => Unanswered(g)
    BY <1>1, <1>5 DEF Unanswered
  <2>2. g \in active => (IsPacket(g)' <=> IsPacket(g))
    <3>1. g \in active => g \in 1..n
      BY <1>4 DEF IInv, TypeOK
    <3>2. g \in 1..n => g \in 1..(n + 1)
      BY <1>2
    <3> QED BY <1>3, <3>1, <3>2 DEF IsPacket
  <2> QED BY <1>1, <2>1, <2>2 DEF IInv, Heard
<1>10. AnswerStep
  BY <1>1 DEF AnswerStep
<1> QED BY <1>6, <1>7, <1>8, <1>9, <1>10 DEF IInv

\* A module closes a handle.
LEMMA CloseFine ==
    ASSUME IInv, NEW h, ModuleCloses(h)
    PROVE  IInv' /\ AnswerStep
<1>1. /\ io' = io \ {h} /\ failed = "no" /\ h \in io
      /\ UNCHANGED <<kind, waiting, pending, openings, active, user_streams, told, admitted,
                     failed>>
  BY DEF ModuleCloses
<1>2. IsFiniteSet(io') /\ Cardinality(io') = Cardinality(io) - 1
  BY <1>1, FS_RemoveElement DEF IInv, TypeOK
<1>3. Cardinality(io) \in Nat /\ IoLimit \in Nat /\ Cardinality(io) <= IoLimit
  BY Numbers DEF IInv, SlotsCoverFlows
<1>4. Cardinality(io') <= IoLimit
  BY <1>2, <1>3
<1>5. TypeOK'
  BY <1>1, <1>2 DEF IInv, TypeOK, Arrived
<1>6. Once' /\ SlotsCoverFlows' /\ Places' /\ Vacant'
  BY <1>1, <1>4 DEF IInv, Once, SlotsCoverFlows, Places, Vacant
<1>7. Heard'
  BY <1>1 DEF IInv, Heard, Unanswered, Arrived, IsPacket, Mux
<1>8. AnswerStep
  BY <1>1 DEF AnswerStep
<1> QED BY <1>5, <1>6, <1>7, <1>8 DEF IInv
-----------------------------------------------------------------------------
\* No flow has arrived.
LEMMA InitIInv == Init => IInv
<1> SUFFICES ASSUME Init PROVE IInv
  OBVIOUS
<1>1. /\ kind = <<>> /\ waiting = {} /\ pending = NoPending /\ openings = <<>>
      /\ active = {} /\ user_streams = 0 /\ io = {}
      /\ told = [f \in Flow |-> "nothing"] /\ admitted = {} /\ failed = "no"
  BY DEF Init
<1>2. Len(kind) = 0 /\ Len(openings) = 0 /\ Range(openings) = {} /\ DOMAIN openings = {}
  BY <1>1 DEF Range
<1>3. IsFiniteSet({}) /\ Cardinality({}) = 0
  BY FS_EmptySet
<1>4. pending \in [flow : Arrived \cup {0}, admitted : BOOLEAN, port : BOOLEAN]
      /\ pending.flow = 0
  BY <1>1 DEF NoPending
<1>5. TypeOK
  BY <1>1, <1>2, <1>3, <1>4, ClientAssumption DEF TypeOK
<1>6. SlotsCoverFlows
  BY <1>1, <1>2, <1>3, ClientAssumption DEF SlotsCoverFlows
<1>7. Once /\ Places /\ Vacant
  BY <1>1, <1>2 DEF Once, Places, Vacant
<1>8. Heard
  BY <1>1 DEF Heard
<1> QED BY <1>5, <1>6, <1>7, <1>8 DEF IInv

\* Every step keeps the invariant and answers as AnsweredOnce says.
LEMMA NextFine == IInv /\ [Next]_vars => IInv' /\ [AnswerStep]_vars
<1> SUFFICES ASSUME IInv, [Next]_vars PROVE IInv' /\ [AnswerStep]_vars
  OBVIOUS
<1>1. CASE UNCHANGED vars
  BY <1>1 DEF vars, IInv, TypeOK, Arrived, Once, SlotsCoverFlows, Places, Heard,
              Unanswered, IsPacket, Mux, Vacant
<1>2. CASE Next
  BY <1>2, OpenedOkFine, OpenedRefusedFine, TakeFine, IdleFine, ArriveFine, CloseFine
     DEF Next
<1> QED BY <1>1, <1>2

\* The invariant holds in every state.
LEMMA Inductive == Spec => []IInv
BY InitIInv, NextFine, PTL DEF Spec

\* Each flow being opened or attached holds a slot of the MuxSession, and neither
\* slots nor registered handles exceed their limits.
THEOREM SlotsKept == Spec => []SlotsCoverFlows
<1>1. IInv => SlotsCoverFlows
  BY DEF IInv
<1> QED BY <1>1, Inductive, PTL

\* No flow is lost between, or in two of, waiting, pending, opening and active;
\* none is opened that the policy did not admit.
THEOREM FlowsInOnePlace == Spec => []OnePlace
<1>1. IInv => OnePlace
  BY OnceCounted DEF IInv, Places, OnePlace
<1> QED BY <1>1, Inductive, PTL

\* An adapter hears one answer to a flow, and of its end after an ok.
THEOREM AnswersOnce == Spec => AnsweredOnce
<1>1. Spec => [][AnswerStep]_vars
  BY Inductive, NextFine, PTL DEF Spec
<1> QED BY <1>1, PTL DEF AnsweredOnce, AnswerStep
=============================================================================
