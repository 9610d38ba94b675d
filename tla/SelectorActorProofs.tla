------------------------ MODULE SelectorActorProofs ------------------------
(***************************************************************************)
(* Theorems about SelectorActor, for every finite set of strategies, every *)
(* policy and every batch interval.                                        *)
(***************************************************************************)
EXTENDS SelectorActor, FiniteSetTheorems, TLAPS

-----------------------------------------------------------------------------
\* A verdict never names an intent that the batch does not hold.
LEMMA PublishedIsBatch ==
    ASSUME NEW batch, NEW approved, NEW answered \in Published(batch, approved)
    PROVE  answered \subseteq batch
  BY DEF Published

\* What is left of the intents when some of the batch are answered.
LEMMA HeardEffect ==
    ASSUME TypeOK, NEW answered, NEW approved, answered \subseteq Intent,
           Heard(answered, approved)
    PROVE  /\ port' \in [Strategies -> {"free", "waiting", "trading"}]
           /\ pending' \in [Strategies -> Intent \union {NoIntent}]
           /\ age' \in [Strategies -> Nat]
           /\ \A s \in Strategies :
                 IF pending[s] \in answered
                 THEN pending'[s] = NoIntent /\ port'[s] # "waiting"
                 ELSE pending'[s] = pending[s] /\ port'[s] = port[s]
<1>1. PICK entered \in SUBSET (answered \intersect approved) :
         port' = [s \in Strategies |->
                     IF ~(pending[s] \in answered) THEN port[s]
                     ELSE IF pending[s] \in entered THEN "trading" ELSE "free"]
  BY DEF Heard
<1>2. pending' = [s \in Strategies |->
                     IF pending[s] \in answered THEN NoIntent ELSE pending[s]]
  BY DEF Heard
<1>3. age' = [s \in Strategies |-> IF pending[s] \in answered THEN 0 ELSE age[s]]
  BY DEF Heard
<1>4. port' \in [Strategies -> {"free", "waiting", "trading"}]
  BY <1>1 DEF TypeOK
<1>5. pending' \in [Strategies -> Intent \union {NoIntent}]
  BY <1>2 DEF TypeOK
<1>6. age' \in [Strategies -> Nat]
  BY <1>3 DEF TypeOK
<1>7. ASSUME NEW s \in Strategies
      PROVE  IF pending[s] \in answered
             THEN pending'[s] = NoIntent /\ port'[s] # "waiting"
             ELSE pending'[s] = pending[s] /\ port'[s] = port[s]
  BY <1>1, <1>2
<1> QED
  BY <1>4, <1>5, <1>6, <1>7

-----------------------------------------------------------------------------
(***************************************************************************)
(* TypeOK and NothingStranded are inductive as they stand, and Apart is    *)
(* with them.                                                              *)
(***************************************************************************)
NoStrandInv == TypeOK /\ NothingStranded

LEMMA NoStrandInit == Init => NoStrandInv
<1> SUFFICES ASSUME Init PROVE NoStrandInv
  OBVIOUS
<1> USE DEF Init
<1>1. running \in BOOLEAN
  BY Zenon
<1>2. TypeOK
  BY <1>1 DEF TypeOK
<1>3. NothingStranded
  BY DEF NothingStranded, Off
<1> QED
  BY <1>2, <1>3 DEF NoStrandInv

LEMMA ProposeInv ==
    ASSUME NoStrandInv, NEW i \in Intent, Propose(i.strategy, i)
    PROVE  NoStrandInv'
<1> DEFINE s == i.strategy
<1> USE DEF NoStrandInv
<1>1. s \in Strategies
  BY DEF Intent
<1> HIDE DEF s
<1>2. /\ running' = running /\ running
      /\ port[s] = "free" /\ pending[s] = NoIntent
      /\ port' = [port EXCEPT ![s] = "waiting"]
      /\ pending' = [pending EXCEPT ![s] = i]
      /\ buffer' = buffer \union {i} /\ lost' = lost
      /\ alert' = BatchInterval /\ age' = [age EXCEPT ![s] = 0]
  BY <1>1 DEF Propose, Collect, ScheduleFinalize, NothingStranded, s
<1>3. i # NoIntent
  BY NoIntentAssumption
<1>4. TypeOK'
  <2>1. running' \in BOOLEAN
    BY <1>2, Zenon DEF TypeOK
  <2>2. alert' \in 0..BatchInterval \union {Off}
    BY <1>2, IntervalAssumption
  <2> QED
    BY <1>1, <1>2, <2>1, <2>2 DEF TypeOK
<1>5. i \notin lost
  <2>1. \A t \in Strategies : pending[t] # i
    BY <1>3 DEF Propose
  <2> QED
    BY <2>1 DEF NothingStranded
<1>6. \A t \in Strategies : port'[t] = "waiting" <=> pending'[t] # NoIntent
  BY <1>1, <1>2, <1>3 DEF NothingStranded, TypeOK
<1>7. {pending'[t] : t \in Strategies} \ {NoIntent} = buffer' \union lost'
  <2>1. \A t \in Strategies : pending'[t] = IF t = s THEN i ELSE pending[t]
    BY <1>2 DEF TypeOK
  <2> QED
    BY <1>1, <1>2, <1>3, <2>1 DEF NothingStranded
<1>8. buffer' \intersect lost' = {} /\ buffer' # {} /\ alert' # Off
  BY <1>2, <1>5, IntervalAssumption DEF NothingStranded, Off
<1> QED
  BY <1>2, <1>4, <1>6, <1>7, <1>8 DEF NothingStranded

\* Closing a batch: each of its intents is answered or lost.
LEMMA FinalizeInv ==
    ASSUME NoStrandInv, Finalize, alert' = Off, running' \in BOOLEAN
    PROVE  NoStrandInv'
<1> USE DEF NoStrandInv
<1>1. PICK answered \in Published(buffer, Approved(buffer)) :
         /\ buffer' = {} /\ Heard(answered, Approved(buffer))
         /\ lost' = lost \union (buffer \ answered)
  BY DEF Finalize
<1>2. answered \subseteq buffer /\ answered \subseteq Intent
  BY PublishedIsBatch DEF TypeOK
<1>3. /\ port' \in [Strategies -> {"free", "waiting", "trading"}]
      /\ pending' \in [Strategies -> Intent \union {NoIntent}]
      /\ age' \in [Strategies -> Nat]
      /\ \A s \in Strategies :
            IF pending[s] \in answered
            THEN pending'[s] = NoIntent /\ port'[s] # "waiting"
            ELSE pending'[s] = pending[s] /\ port'[s] = port[s]
  BY <1>1, <1>2, HeardEffect
<1>4. TypeOK'
  BY <1>1, <1>2, <1>3 DEF TypeOK
<1>5. \A s \in Strategies : port'[s] = "waiting" <=> pending'[s] # NoIntent
  BY <1>3 DEF NothingStranded
<1>6. NoIntent \notin lost /\ NoIntent \notin buffer
  BY NoIntentAssumption DEF TypeOK
<1>7. {pending'[s] : s \in Strategies} \ {NoIntent} = buffer' \union lost'
  <2>1. {pending'[s] : s \in Strategies} \ {NoIntent}
           = ({pending[s] : s \in Strategies} \ {NoIntent}) \ answered
    BY <1>2, <1>3, <1>6
  <2>2. (buffer \union lost) \ answered = lost \union (buffer \ answered)
    BY <1>2 DEF NothingStranded
  <2> QED
    BY <1>1, <2>1, <2>2 DEF NothingStranded
<1> QED
  BY <1>1, <1>4, <1>5, <1>7 DEF NothingStranded

LEMMA NoStrandStep == NoStrandInv /\ [Next]_vars => NoStrandInv'
<1> SUFFICES ASSUME NoStrandInv, [Next]_vars PROVE NoStrandInv'
  OBVIOUS
<1> USE DEF NoStrandInv, selectorVars
<1>1. ASSUME NEW i \in Intent, Propose(i.strategy, i) PROVE NoStrandInv'
  BY <1>1, ProposeInv
<1>2. ASSUME NEW s \in Strategies, TradeEnds(s) PROVE NoStrandInv'
  <2>1. TypeOK'
    BY <1>2 DEF TradeEnds, TypeOK
  <2>2. NothingStranded'
    BY <1>2 DEF TradeEnds, NothingStranded, TypeOK
  <2> QED
    BY <2>1, <2>2
<1>3. CASE OnFinalizeAlert
  <2>1. running' \in BOOLEAN
    BY <1>3 DEF OnFinalizeAlert, TypeOK
  <2> QED
    BY <1>3, <2>1, FinalizeInv DEF OnFinalizeAlert
<1>4. CASE OnStop
  <2>1. running' \in BOOLEAN /\ alert' = Off /\ ~running'
    BY <1>4 DEF OnStop
  <2>2. CASE Finalize
    BY <2>1, <2>2, FinalizeInv
  <2>3. CASE buffer' = {} /\ lost' = lost \union buffer /\ UNCHANGED <<port, pending, age>>
    <3>1. TypeOK'
      BY <2>1, <2>3 DEF TypeOK
    <3>2. NothingStranded'
      BY <2>1, <2>3 DEF NothingStranded
    <3> QED
      BY <3>1, <3>2
  <2> QED
    BY <1>4, <2>2, <2>3 DEF OnStop
<1>5. CASE Tick
  <2>1. alert > 0 /\ alert' = alert - 1 /\ UNCHANGED <<port, pending, running, buffer, lost>>
    BY <1>5 DEF Tick
  <2>2. age' \in [Strategies -> Nat]
    BY <1>5 DEF Tick, TypeOK
  <2>3. alert' \in 0..BatchInterval /\ alert # Off /\ alert' # Off
    BY <2>1, IntervalAssumption DEF TypeOK, Off
  <2>4. TypeOK'
    BY <2>1, <2>2, <2>3 DEF TypeOK
  <2>5. NothingStranded'
    BY <2>1, <2>3 DEF NothingStranded
  <2> QED
    BY <2>4, <2>5
<1>6. CASE UNCHANGED vars
  BY <1>6 DEF vars, TypeOK, NothingStranded
<1> QED
  BY <1>1, <1>2, <1>3, <1>4, <1>5, <1>6 DEF Next

\* An intent is proposed under its strategy's name and a fresh uuid, and no
\* other step gives a strategy another intent.
LEMMA ApartStep == NoStrandInv /\ Apart /\ [Next]_vars => Apart'
<1> SUFFICES ASSUME NoStrandInv, Apart, [Next]_vars PROVE Apart'
  OBVIOUS
<1>1. ASSUME NEW i \in Intent, Propose(i.strategy, i) PROVE Apart'
  <2> DEFINE s == i.strategy
  <2>1. s \in Strategies
    BY DEF Intent
  <2> HIDE DEF s
  <2>2. /\ \A t \in Strategies : pending'[t] = IF t = s THEN i ELSE pending[t]
        /\ \A t \in Strategies : pending[t] # NoIntent => pending[t].id # i.id
    BY <1>1 DEF Propose, NoStrandInv, TypeOK, s
  <2>3. i.strategy = s
    BY DEF s
  <2> QED
    BY <2>1, <2>2, <2>3 DEF Apart
<1>2. ASSUME NEW batch, NEW approved, batch \subseteq Intent,
             NEW answered \in Published(batch, approved), Heard(answered, approved)
      PROVE  Apart'
  <2>1. answered \subseteq Intent
    BY <1>2, PublishedIsBatch
  <2>2. \A s \in Strategies : pending'[s] = NoIntent \/ pending'[s] = pending[s]
    BY <1>2, <2>1, HeardEffect DEF NoStrandInv
  <2> QED
    BY <2>2 DEF Apart
<1>3. CASE Finalize
  BY <1>2, <1>3 DEF Finalize, NoStrandInv, TypeOK
<1>4. CASE UNCHANGED pending
  BY <1>4 DEF Apart
<1> QED
  BY <1>1, <1>3, <1>4
     DEF Next, TradeEnds, OnFinalizeAlert, OnStop, Tick, vars, selectorVars

\* Whatever strategies propose, exceptions interrupt or the shutdown cuts off,
\* a strategy that waits has its intent in the buffer of a selector whose alert
\* is set, or in the record of lost verdicts; no verdict is given twice, and no
\* two intents under way share a strategy or a uuid.
THEOREM SelectorInvariant == Spec => []SelectorInv
<1>1. Init => Apart
  BY DEF Init, Apart
<1>2. SelectorInv <=> NoStrandInv /\ Apart
  BY DEF SelectorInv, NoStrandInv
<1> QED
  BY <1>1, <1>2, NoStrandInit, NoStrandStep, ApartStep, PTL DEF Spec

-----------------------------------------------------------------------------
(***************************************************************************)
(* VerdictAge is inductive together with SelectorInv.                      *)
(***************************************************************************)

\* One more interval for one more strategy.
LEMMA OneMoreInterval ==
    ASSUME NEW n \in Nat
    PROVE  /\ BatchInterval * n \in Nat
           /\ BatchInterval * (n + 1) = BatchInterval * n + BatchInterval
  BY IntervalAssumption

\* More strategies in the batch never shorten its deadline.
LEMMA DeadlineGrows ==
    ASSUME NEW n \in Nat, NEW m \in Nat, n <= m
    PROVE  BatchInterval * n <= BatchInterval * m
  BY IntervalAssumption

LEMMA BufferedFinite ==
    /\ IsFiniteSet(Buffered) /\ Cardinality(Buffered) \in Nat
    /\ Cardinality(Strategies) \in Nat
    /\ Cardinality(Buffered) <= Cardinality(Strategies)
<1>1. Buffered \in SUBSET Strategies
  BY DEF Buffered
<1> QED
  BY <1>1, StrategiesAssumption, FS_Subset, FS_CardinalityType

AgeInv == SelectorInv /\ VerdictAge

\* A new intent adds its strategy to the batch and one interval to the deadline.
LEMMA ProposeAge ==
    ASSUME AgeInv, NEW i \in Intent, Propose(i.strategy, i)
    PROVE  VerdictAge'
<1> DEFINE s == i.strategy
           n == Cardinality(Buffered)
<1> USE DEF AgeInv, SelectorInv
<1>1. s \in Strategies
  BY DEF Intent
<1>2. /\ pending[s] = NoIntent
      /\ pending' = [pending EXCEPT ![s] = i]
      /\ buffer' = buffer \union {i}
      /\ alert' = BatchInterval /\ age' = [age EXCEPT ![s] = 0]
      /\ \A t \in Strategies : pending[t] # i
  BY <1>1, NoIntentAssumption DEF Propose, Collect, ScheduleFinalize, NothingStranded
<1> HIDE DEF s
<1>3. s \notin Buffered
  BY <1>2, NoIntentAssumption DEF Buffered, TypeOK
<1>4. Buffered' = Buffered \union {s}
  <2>1. \A t \in Strategies : pending'[t] = IF t = s THEN i ELSE pending[t]
    BY <1>2 DEF TypeOK
  <2> QED
    BY <1>1, <1>2, <2>1 DEF Buffered
<1>5. n \in Nat /\ Cardinality(Buffered)' = n + 1
  <2>1. Cardinality(Buffered \union {s}) = n + 1
    BY <1>3, BufferedFinite, FS_AddElement
  <2> QED
    BY <1>4, <2>1, BufferedFinite
<1>6. /\ BatchInterval * n \in Nat
      /\ BatchInterval * (n + 1) = BatchInterval * n + BatchInterval
  BY <1>5, OneMoreInterval
<1>7. ASSUME NEW t \in Buffered'
      PROVE  age'[t] + BatchInterval <= BatchInterval * n + BatchInterval
  <2>1. CASE t = s
    <3>1. age'[t] = 0
      BY <1>1, <1>2, <2>1 DEF TypeOK
    <3> QED
      BY <1>6, <3>1, IntervalAssumption
  <2>2. CASE t # s
    <3>1. t \in Buffered /\ t \in Strategies /\ buffer # {}
      BY <1>4, <1>7, <2>2 DEF Buffered
    <3>2. age'[t] = age[t] /\ age[t] \in Nat /\ alert \in Nat
      BY <1>2, <2>2, <3>1, IntervalAssumption DEF TypeOK, NothingStranded
    <3>3. age[t] + alert <= BatchInterval * n
      BY <3>1 DEF VerdictAge
    <3> QED
      BY <1>6, <3>2, <3>3, IntervalAssumption
  <2> QED
    BY <2>1, <2>2
<1>8. ASSUME NEW t \in Buffered'
      PROVE  age'[t] + alert' <= BatchInterval * Cardinality(Buffered)'
  BY <1>2, <1>5, <1>6, <1>7
<1> QED
  BY <1>8 DEF VerdictAge

\* A tick turns one unit still to wait into one unit waited.
LEMMA TickAge == ASSUME AgeInv, Tick PROVE VerdictAge'
<1> USE DEF AgeInv, SelectorInv
<1>1. Buffered' = Buffered
  BY DEF Tick, Buffered
<1>2. alert \in Nat /\ alert' = alert - 1
  BY IntervalAssumption DEF Tick, TypeOK, Off
<1>3. ASSUME NEW t \in Buffered
      PROVE  age'[t] + alert' <= BatchInterval * Cardinality(Buffered)
  <2>1. t \in Strategies
    BY DEF Buffered
  <2>2. age'[t] = age[t] + 1 /\ age[t] \in Nat
    BY <2>1 DEF Tick, TypeOK
  <2>3. age[t] + alert <= BatchInterval * Cardinality(Buffered)
    BY DEF VerdictAge
  <2>4. age'[t] + alert' = age[t] + alert
    BY <1>2, <2>2
  <2> QED
    BY <2>3, <2>4
<1>4. Cardinality(Buffered)' = Cardinality(Buffered)
  BY <1>1
<1> QED
  BY <1>1, <1>3, <1>4 DEF VerdictAge

\* An empty buffer has no deadline to keep.
LEMMA EmptyAge == ASSUME buffer = {} PROVE VerdictAge
  BY DEF VerdictAge, Buffered

\* What a strategy has waited and has still to wait is at most one batch
\* interval for each strategy in the batch.
THEOREM VerdictInTime == Spec => []VerdictAge
<1>1. Init => VerdictAge
  BY EmptyAge DEF Init
<1>2. AgeInv /\ [Next]_vars => VerdictAge'
  <2> SUFFICES ASSUME AgeInv, [Next]_vars PROVE VerdictAge'
    OBVIOUS
  <2>1. ASSUME NEW i \in Intent, Propose(i.strategy, i) PROVE VerdictAge'
    BY <2>1, ProposeAge
  <2>2. CASE OnFinalizeAlert \/ OnStop
    <3>1. buffer' = {}
      BY <2>2 DEF OnFinalizeAlert, OnStop, Finalize
    <3> QED
      BY <3>1 DEF VerdictAge, Buffered
  <2>3. CASE Tick
    BY <2>3, TickAge
  <2>4. CASE UNCHANGED <<pending, buffer, alert, age>>
    BY <2>4 DEF AgeInv, VerdictAge, Buffered
  <2> QED
    BY <2>1, <2>2, <2>3, <2>4 DEF Next, TradeEnds, vars, selectorVars
<1> QED
  BY <1>1, <1>2, SelectorInvariant, PTL DEF Spec, AgeInv

\* No strategy waits longer than one batch interval for each strategy there is.
THEOREM WaitBounded ==
    Spec => [](\A s \in Buffered : age[s] <= BatchInterval * Cardinality(Strategies))
<1>1. ASSUME AgeInv, NEW s \in Buffered
      PROVE  age[s] <= BatchInterval * Cardinality(Strategies)
  <2>1. s \in Strategies /\ buffer # {}
    BY DEF Buffered
  <2>2. age[s] \in Nat /\ alert \in Nat
    BY <1>1, <2>1, IntervalAssumption DEF AgeInv, SelectorInv, TypeOK, NothingStranded
  <2>3. age[s] + alert <= BatchInterval * Cardinality(Buffered)
    BY <1>1 DEF AgeInv, VerdictAge
  <2>4. BatchInterval * Cardinality(Buffered) <= BatchInterval * Cardinality(Strategies)
    BY BufferedFinite, DeadlineGrows
  <2>5. /\ BatchInterval * Cardinality(Buffered) \in Nat
        /\ BatchInterval * Cardinality(Strategies) \in Nat
    BY BufferedFinite, OneMoreInterval
  <2> QED
    BY <2>2, <2>3, <2>4, <2>5
<1>2. AgeInv => \A s \in Buffered : age[s] <= BatchInterval * Cardinality(Strategies)
  BY <1>1
<1> QED
  BY <1>2, SelectorInvariant, VerdictInTime, PTL DEF AgeInv

-----------------------------------------------------------------------------
(***************************************************************************)
(* Sets of intents.  What holds for every finite set is proved by a least  *)
(* counterexample: strict inclusion is well-founded on the parts of a      *)
(* finite set, so a family of parts that is not empty has a minimal one.   *)
(***************************************************************************)

\* A nonempty family of subsets of a finite set has a minimal member.
LEMMA MinimalMember ==
    ASSUME NEW S, IsFiniteSet(S), NEW F \in SUBSET (SUBSET S), F # {}
    PROVE  \E T \in F : \A U \in SUBSET T : U # T => U \notin F
<1>1. IsWellFoundedOn(StrictSubsetOrdering(S), FiniteSubsetsOf(S))
  BY FS_StrictSubsetOrderingWellFounded
<1>2. F \subseteq FiniteSubsetsOf(S)
  BY FS_FiniteSubsetsOfFinite
<1>3. PICK T \in F : \A U \in F : <<U, T>> \notin StrictSubsetOrdering(S)
  BY <1>1, <1>2, WFMin
<1> QED
  BY <1>3 DEF StrictSubsetOrdering

-----------------------------------------------------------------------------
(***************************************************************************)
(* EdgeSum, a fold, takes one element after another; the sum does not      *)
(* depend on which.                                                        *)
(***************************************************************************)
\* Finitely many intents, with edges to add up.
Edged(S) == IsFiniteSet(S) /\ \A i \in S : i.edge \in Int

\* The element that the fold takes next.
Some(s) == CHOOSE i \in s : TRUE

\* g is the recursive function from which the sum over T is read.
Sums(g, T) == g = [s \in SUBSET T |-> IF s = {} THEN 0 ELSE Some(s).edge + g[s \ {Some(s)}]]

\* Two such functions agree where both are defined.
LEMMA SumsAgree ==
    ASSUME NEW T, IsFiniteSet(T), NEW g, NEW U, NEW h, Sums(g, T), Sums(h, U), T \subseteq U
    PROVE  \A s \in SUBSET T : g[s] = h[s]
<1> DEFINE F == {s \in SUBSET T : g[s] # h[s]}
<1>1. ASSUME F # {} PROVE FALSE
  <2>1. PICK s \in F : \A u \in SUBSET s : u # s => u \notin F
    <3>1. F \in SUBSET (SUBSET T)
      OBVIOUS
    <3> HIDE DEF F
    <3> QED
      BY <1>1, <3>1, MinimalMember
  <2>2. CASE s = {}
    BY <2>1, <2>2 DEF Sums
  <2>3. CASE s # {}
    <3>1. Some(s) \in s
      BY <2>3 DEF Some
    <3>2. g[s \ {Some(s)}] = h[s \ {Some(s)}]
      BY <2>1, <3>1
    <3>3. g[s] = Some(s).edge + g[s \ {Some(s)}] /\ h[s] = Some(s).edge + h[s \ {Some(s)}]
      BY <2>1, <2>3 DEF Sums
    <3> QED
      BY <2>1, <3>2, <3>3
  <2> QED
    BY <2>2, <2>3
<1> QED
  BY <1>1

\* There is one for every finite set.
LEMMA SumsExist ==
    ASSUME NEW S, IsFiniteSet(S)
    PROVE  \E g : Sums(g, S)
<1> DEFINE F == {T \in SUBSET S : ~ \E g : Sums(g, T)}
<1>1. ASSUME F # {} PROVE FALSE
  <2>1. PICK T \in F : \A u \in SUBSET T : u # T => u \notin F
    <3>1. F \in SUBSET (SUBSET S)
      OBVIOUS
    <3> HIDE DEF F
    <3> QED
      BY <1>1, <3>1, MinimalMember
  <2> DEFINE At(u) == CHOOSE g : Sums(g, u)
             Value(s) == IF s = {} THEN 0 ELSE Some(s).edge + At(s \ {Some(s)})[s \ {Some(s)}]
             g == [s \in SUBSET T |-> Value(s)]
  <2>2. ASSUME NEW u \in SUBSET T, u # T PROVE Sums(At(u), u)
    BY <2>1, <2>2
  <2>3. ASSUME NEW s \in SUBSET T, s # {}
        PROVE  g[s \ {Some(s)}] = At(s \ {Some(s)})[s \ {Some(s)}]
    <3> DEFINE u == s \ {Some(s)}
               v == u \ {Some(u)}
    <3>1. Some(s) \in s /\ u \in SUBSET T /\ u # T
      BY <2>3 DEF Some
    <3>2. Sums(At(u), u)
      BY <2>2, <3>1
    <3>3. CASE u = {}
      BY <3>1, <3>2, <3>3 DEF Sums
    <3>4. CASE u # {}
      <4>1. Some(u) \in u /\ v \in SUBSET u /\ v # T
        BY <3>1, <3>4 DEF Some
      <4>2. Sums(At(v), v) /\ IsFiniteSet(v)
        BY <2>2, <3>1, <4>1, FS_Subset
      <4>3. At(v)[v] = At(u)[v]
        BY <3>2, <4>1, <4>2, SumsAgree
      <4>4. At(u)[u] = Some(u).edge + At(u)[v]
        BY <3>2, <3>4 DEF Sums
      <4>5. g[u] = Some(u).edge + At(v)[v]
        BY <3>1, <3>4
      <4> QED
        BY <4>3, <4>4, <4>5
    <3> QED
      BY <3>3, <3>4
  <2>4. Sums(g, T)
    <3> DEFINE Next1(s) == IF s = {} THEN 0 ELSE Some(s).edge + g[s \ {Some(s)}]
    <3>1. ASSUME NEW s \in SUBSET T PROVE Value(s) = Next1(s)
      <4>1. CASE s = {}
        BY <4>1
      <4>2. CASE s # {}
        <5>1. g[s \ {Some(s)}] = At(s \ {Some(s)})[s \ {Some(s)}]
          BY <2>3, <4>2
        <5> HIDE DEF g, At
        <5> QED
          BY <4>2, <5>1
      <4> QED
        BY <4>1, <4>2
    <3> HIDE DEF Value, Next1
    <3>2. g = [s \in SUBSET T |-> Next1(s)]
      BY <3>1
    <3> QED
      BY <3>2, Zenon DEF Sums, Next1
  <2> QED
    BY <2>1, <2>4
<1>2. S \notin F
  BY <1>1
<1> QED
  BY <1>2

\* The sum is what any such function says.
LEMMA SumIsSums ==
    ASSUME NEW S, IsFiniteSet(S), NEW g, Sums(g, S)
    PROVE  EdgeSum(S) = g[S]
<1>1. PICK h : Sums(h, S) /\ EdgeSum(S) = h[S]
  <2> DEFINE h == CHOOSE f : Sums(f, S)
  <2>1. Sums(h, S)
    BY SumsExist
  <2>2. EdgeSum(S) = h[S]
    BY DEF EdgeSum, MapThenSumSet, MapThenFoldSet, Sums, Some
  <2> QED
    BY <2>1, <2>2
<1> QED
  BY <1>1, SumsAgree

\* Nothing sums to nothing.
LEMMA EdgeSumEmpty == EdgeSum({}) = 0
<1>1. PICK g : Sums(g, {})
  BY SumsExist, FS_EmptySet
<1>2. EdgeSum({}) = g[{}]
  BY <1>1, SumIsSums, FS_EmptySet
<1> QED
  BY <1>1, <1>2 DEF Sums

\* The fold's own step.
LEMMA EdgeSumSome ==
    ASSUME NEW S, IsFiniteSet(S), S # {}
    PROVE  EdgeSum(S) = Some(S).edge + EdgeSum(S \ {Some(S)})
<1> DEFINE T == S \ {Some(S)}
<1>1. IsFiniteSet(T) /\ T \in SUBSET S
  BY FS_Subset
<1>2. PICK g : Sums(g, S)
  BY SumsExist
<1>3. PICK h : Sums(h, T)
  BY <1>1, SumsExist
<1> HIDE DEF T
<1>4. EdgeSum(S) = g[S] /\ EdgeSum(T) = h[T]
  BY <1>1, <1>2, <1>3, SumIsSums
<1>5. h[T] = g[T]
  BY <1>1, <1>2, <1>3, SumsAgree
<1>6. g[S] = Some(S).edge + g[T]
  BY <1>2 DEF Sums, T
<1> QED
  BY <1>4, <1>5, <1>6 DEF T

\* Sums are integers.
LEMMA EdgeSumInt ==
    ASSUME NEW B, Edged(B)
    PROVE  \A S \in SUBSET B : EdgeSum(S) \in Int
<1> DEFINE F == {S \in SUBSET B : EdgeSum(S) \notin Int}
<1>1. ASSUME F # {} PROVE FALSE
  <2>1. PICK S \in F : \A U \in SUBSET S : U # S => U \notin F
    <3>1. F \in SUBSET (SUBSET B)
      OBVIOUS
    <3> HIDE DEF F
    <3> QED
      BY <1>1, <3>1, MinimalMember DEF Edged
  <2>2. S # {}
    <3>1. EdgeSum(S) \notin Int
      BY <2>1
    <3>2. EdgeSum({}) \in Int
      BY EdgeSumEmpty
    <3> QED
      BY <3>1, <3>2, Zenon
  <2>3. Some(S) \in S
    BY <2>2 DEF Some
  <2>4. EdgeSum(S \ {Some(S)}) \in Int
    BY <2>1, <2>3
  <2>5. IsFiniteSet(S)
    BY <2>1, FS_Subset DEF Edged
  <2>6. EdgeSum(S) = Some(S).edge + EdgeSum(S \ {Some(S)})
    BY <2>2, <2>5, EdgeSumSome
  <2>7. Some(S).edge \in Int
    BY <2>1, <2>3 DEF Edged
  <2> QED
    BY <2>1, <2>4, <2>6, <2>7, Z3
<1> QED
  BY <1>1

\* Any element may be taken first.
LEMMA EdgeSumRemove ==
    ASSUME NEW B, Edged(B)
    PROVE  \A S \in SUBSET B : \A i \in S :
              EdgeSum(S) = i.edge + EdgeSum(S \ {i})
<1> DEFINE F == {S \in SUBSET B : \E i \in S : EdgeSum(S) # i.edge + EdgeSum(S \ {i})}
<1>1. ASSUME F # {} PROVE FALSE
  <2>1. PICK S \in F : \A U \in SUBSET S : U # S => U \notin F
    <3>1. F \in SUBSET (SUBSET B)
      OBVIOUS
    <3> HIDE DEF F
    <3> QED
      BY <1>1, <3>1, MinimalMember DEF Edged
  <2>2. PICK i \in S : EdgeSum(S) # i.edge + EdgeSum(S \ {i})
    BY <2>1
  <2> DEFINE c == Some(S)
  <2>3. IsFiniteSet(S) /\ c \in S
    BY <2>1, FS_Subset DEF Edged, Some
  <2>4. EdgeSum(S) = c.edge + EdgeSum(S \ {c})
    BY <2>3, EdgeSumSome
  <2> HIDE DEF c
  <2>5. i # c
    BY <2>2, <2>4
  <2>6. EdgeSum(S \ {c}) = i.edge + EdgeSum((S \ {c}) \ {i})
    <3>1. S \ {c} \notin F
      BY <2>1, <2>3
    <3> QED
      BY <2>1, <2>5, <3>1
  <2>7. EdgeSum(S \ {i}) = c.edge + EdgeSum((S \ {i}) \ {c})
    <3>1. S \ {i} \notin F
      BY <2>1
    <3> QED
      BY <2>1, <2>3, <2>5, <3>1
  <2>8. (S \ {i}) \ {c} = (S \ {c}) \ {i}
    OBVIOUS
  <2>9. i.edge \in Int /\ c.edge \in Int
    BY <2>1, <2>3 DEF Edged
  <2>10. EdgeSum((S \ {c}) \ {i}) \in Int
    BY <2>1, EdgeSumInt
  <2>11. EdgeSum(S) = c.edge + (i.edge + EdgeSum((S \ {c}) \ {i}))
    BY <2>4, <2>6
  <2>12. EdgeSum(S \ {i}) = c.edge + EdgeSum((S \ {c}) \ {i})
    BY <2>7, <2>8
  <2> QED
    BY <2>2, <2>9, <2>10, <2>11, <2>12
<1> QED
  BY <1>1

\* Exchanging one intent for another changes the sum by the difference.
LEMMA EdgeSumExchange ==
    ASSUME NEW B, Edged(B), NEW S \in SUBSET B, NEW i \in S, NEW j \in B \ S
    PROVE  EdgeSum((S \ {i}) \union {j}) = EdgeSum(S) - i.edge + j.edge
<1> DEFINE R == (S \ {i}) \union {j}
<1>1. EdgeSum(S) = i.edge + EdgeSum(S \ {i})
  BY EdgeSumRemove
<1>2. EdgeSum(R) = j.edge + EdgeSum(R \ {j})
  BY EdgeSumRemove
<1>3. R \ {j} = S \ {i}
  OBVIOUS
<1>4. i.edge \in Int /\ j.edge \in Int /\ EdgeSum(S \ {i}) \in Int
  BY EdgeSumInt DEF Edged
<1> HIDE DEF R
<1>5. EdgeSum(R) = j.edge + EdgeSum(S \ {i})
  BY <1>2, <1>3
<1>6. EdgeSum(R) = EdgeSum(S) - i.edge + j.edge
  BY <1>1, <1>4, <1>5
<1> QED
  BY <1>6 DEF R

-----------------------------------------------------------------------------
(***************************************************************************)
(* The rank, and what the greedy loop keeps.                               *)
(***************************************************************************)

\* What the buffer always is: intents of different strategies and uuids.
Batch(B) ==
    /\ IsFiniteSet(B) /\ B \subseteq Intent
    /\ \A i, j \in B : i # j => i.id # j.id /\ i.strategy # j.strategy

\* Ties of the edge are broken by the uuid.
LEMMA BetterIsTotalOrder ==
    ASSUME NEW B, Batch(B)
    PROVE  \A i, j, k \in B :
              /\ ~Better(i, i)
              /\ Better(i, j) => ~Better(j, i)
              /\ i # j => Better(i, j) \/ Better(j, i)
              /\ Better(i, j) /\ Better(j, k) => Better(i, k)
<1> TAKE i, j, k \in B
<1>1. /\ i.edge \in Int /\ j.edge \in Int /\ k.edge \in Int
      /\ i.id \in Int /\ j.id \in Int /\ k.id \in Int
  BY EdgesAssumption, StrategiesAssumption, FS_CardinalityType DEF Batch, Intent, Ids
<1>2. i # j => i.id # j.id
  BY DEF Batch
<1> QED
  BY <1>1, <1>2 DEF Better

\* Some intent of a batch is ranked last.
LEMMA WorstExists ==
    ASSUME NEW B, Batch(B)
    PROVE  \A T \in SUBSET B : T # {} => \E w \in T : \A j \in T \ {w} : Better(j, w)
<1> DEFINE Worst(T) == \E w \in T : \A j \in T \ {w} : Better(j, w)
           F == {T \in SUBSET B : T # {} /\ ~Worst(T)}
<1>1. ASSUME F # {} PROVE FALSE
  <2>1. PICK T \in F : \A U \in SUBSET T : U # T => U \notin F
    <3>1. F \in SUBSET (SUBSET B)
      OBVIOUS
    <3> HIDE DEF F
    <3> QED
      BY <1>1, <3>1, MinimalMember DEF Batch
  <2>2. T \in SUBSET B /\ T # {} /\ ~Worst(T)
    BY <2>1
  <2>3. PICK a \in T : TRUE
    BY <2>2
  <2>4. T # {a}
    BY <2>2
  <2>5. PICK w \in T \ {a} : \A j \in (T \ {a}) \ {w} : Better(j, w)
    <3>1. T \ {a} # {} /\ T \ {a} # T /\ T \ {a} \in SUBSET T
      BY <2>3, <2>4
    <3>2. Worst(T \ {a})
      BY <2>1, <2>2, <3>1
    <3> QED
      BY <3>2
  <2>6. a \in B /\ w \in B /\ a # w
    BY <2>2, <2>5
  <2>7. CASE Better(a, w)
    <3>1. \A j \in T \ {w} : Better(j, w)
      BY <2>5, <2>7
    <3> QED
      BY <2>2, <2>5, <3>1
  <2>8. CASE Better(w, a)
    <3>1. \A j \in T \ {a} : Better(j, a)
      BY <2>2, <2>5, <2>6, <2>8, BetterIsTotalOrder
    <3> QED
      BY <2>2, <2>3, <3>1
  <2> QED
    BY <2>6, <2>7, <2>8, BetterIsTotalOrder
<1> QED
  BY <1>1

\* Those of K that the loop has seen before i.
Ahead(K, i) == {j \in K : Better(j, i)}

\* K is kept from T: an intent is in K exactly when there was room for it.
Greedy(K, T) == K \subseteq T /\ \A i \in T : i \in K <=> Room(Ahead(K, i), i)

\* Every part of a batch has such a K: decide about the last of it last.
LEMMA GreedyExists ==
    ASSUME NEW B, Batch(B)
    PROVE  \A T \in SUBSET B : \E K : Greedy(K, T)
<1> DEFINE F == {T \in SUBSET B : ~ \E K : Greedy(K, T)}
<1>1. ASSUME F # {} PROVE FALSE
  <2>1. PICK T \in F : \A U \in SUBSET T : U # T => U \notin F
    <3>1. F \in SUBSET (SUBSET B)
      OBVIOUS
    <3> HIDE DEF F
    <3> QED
      BY <1>1, <3>1, MinimalMember DEF Batch
  <2>2. T \in SUBSET B /\ ~ \E K : Greedy(K, T)
    BY <2>1
  <2>3. T # {}
    <3>1. Greedy({}, {})
      BY DEF Greedy
    <3> QED
      BY <2>2, <3>1
  <2>4. PICK w \in T : \A j \in T \ {w} : Better(j, w)
    BY <2>2, <2>3, WorstExists
  <2>5. PICK K : Greedy(K, T \ {w})
    BY <2>1, <2>2, <2>4
  <2> DEFINE L == IF Room(K, w) THEN K \union {w} ELSE K
  <2>6. \A j \in T : ~Better(w, j)
    BY <2>2, <2>4, BetterIsTotalOrder
  <2>7. \A i \in T \ {w} : Ahead(L, i) = Ahead(K, i)
    BY <2>6 DEF Ahead
  <2>8. Ahead(L, w) = K
    BY <2>4, <2>5, <2>6 DEF Ahead, Greedy
  <2>9. L \subseteq T /\ (w \in L <=> Room(K, w)) /\ \A i \in T \ {w} : i \in L <=> i \in K
    BY <2>4, <2>5 DEF Greedy
  <2> HIDE DEF L
  <2>10. Greedy(L, T)
    BY <2>5, <2>7, <2>8, <2>9 DEF Greedy
  <2> QED
    BY <2>2, <2>10
<1> QED
  BY <1>1

\* The recursive function of Approved exists, and Approved is such a K.
LEMMA ApprovedIsGreedy ==
    ASSUME NEW B, Batch(B)
    PROVE  Greedy(Approved(B), B)
<1>1. PICK K : Greedy(K, B)
  BY GreedyExists
<1> DEFINE Step(k) == [i \in B |-> Room({j \in B : Better(j, i) /\ k[j]}, i)]
           m == [i \in B |-> Room(Ahead(K, i), i)]
           keeps == CHOOSE k : k = Step(k)
<1>2. m = Step(m)
  <2>1. ASSUME NEW i \in B PROVE {j \in B : Better(j, i) /\ m[j]} = Ahead(K, i)
    <3>1. ASSUME NEW j \in B PROVE m[j] <=> j \in K
      <4>1. m[j] = Room(Ahead(K, j), j)
        BY Zenon
      <4> HIDE DEF m
      <4> QED
        BY <1>1, <4>1, Zenon DEF Greedy
    <3> HIDE DEF m
    <3>2. K \subseteq B
      BY <1>1 DEF Greedy
    <3> QED
      BY <3>1, <3>2, Zenon DEF Ahead
  <2> QED
    BY <2>1, Zenon
<1>3. keeps = Step(keeps)
  BY <1>2, Zenon
<1>4. Approved(B) = {i \in B : keeps[i]}
  BY DEF Approved
<1> HIDE DEF keeps
<1> DEFINE A == {i \in B : keeps[i]}
<1>5. ASSUME NEW i \in B PROVE {j \in B : Better(j, i) /\ keeps[j]} = Ahead(A, i)
  BY DEF Ahead
<1>6. ASSUME NEW i \in B PROVE keeps[i] = Room({j \in B : Better(j, i) /\ keeps[j]}, i)
  BY <1>3, Zenon
<1>7. ASSUME NEW i \in B PROVE i \in A <=> Room(Ahead(A, i), i)
  BY <1>5, <1>6, Zenon
<1>8. Greedy(A, B)
  BY <1>7 DEF Greedy
<1> QED
  BY <1>4, <1>8

\* The intents of S on one instrument.
On(x, S) == {i \in S : i.instrument = x}

\* In a batch the cap per strategy never binds, as each strategy is in it once.
LEMMA StrategyCapNeverBinds ==
    ASSUME NEW B, Batch(B), NEW K \in SUBSET B, NEW i \in B
    PROVE  Room(Ahead(K, i), i) <=>
              /\ Cardinality(Ahead(K, i)) < TopN
              /\ Cardinality(On(i.instrument, Ahead(K, i))) < MaxPerInstrument
<1>1. {j \in Ahead(K, i) : j.strategy = i.strategy} = {}
  BY BetterIsTotalOrder DEF Ahead, Batch
<1>2. MaxPerStrategy \in Int /\ 0 < MaxPerStrategy
  BY PolicyAssumption DEF MaxPerStrategy
<1>3. Cardinality({j \in Ahead(K, i) : j.strategy = i.strategy}) < MaxPerStrategy
  BY <1>1, <1>2, FS_EmptySet
<1> QED
  BY <1>3 DEF Room, On

\* What is kept is within the caps: look at the last that was kept.
LEMMA GreedyWithinCaps ==
    ASSUME NEW B, Batch(B), NEW A, Greedy(A, B)
    PROVE  WithinCaps(A)
<1>1. A \in SUBSET B /\ IsFiniteSet(A) /\ A \in SUBSET A
  BY FS_Subset DEF Greedy, Batch
<1>2. Cardinality(A) <= TopN
  <2>1. CASE A = {}
    BY <2>1, FS_EmptySet, PolicyAssumption
  <2>2. CASE A # {}
    <3>1. PICK w \in A : \A j \in A \ {w} : Better(j, w)
      BY <1>1, <2>2, WorstExists
    <3>2. Ahead(A, w) = A \ {w}
      BY <1>1, <3>1, BetterIsTotalOrder DEF Ahead
    <3>3. Cardinality(Ahead(A, w)) < TopN
      BY <1>1, <3>1 DEF Greedy, Room
    <3>4. Cardinality(A \ {w}) = Cardinality(A) - 1
      BY <1>1, <3>1, FS_RemoveElement
    <3>5. Cardinality(A) \in Nat
      BY <1>1, FS_CardinalityType
    <3> QED
      BY <3>2, <3>3, <3>4, <3>5, PolicyAssumption
  <2> QED
    BY <2>1, <2>2
<1>3. ASSUME NEW x \in Instruments PROVE Cardinality(On(x, A)) <= MaxPerInstrument
  <2>1. On(x, A) \in SUBSET B /\ IsFiniteSet(On(x, A)) /\ On(x, A) \in SUBSET A
    BY <1>1, FS_Subset DEF On
  <2>2. CASE On(x, A) = {}
    BY <2>2, FS_EmptySet, PolicyAssumption
  <2>3. CASE On(x, A) # {}
    <3>1. PICK w \in On(x, A) : \A j \in On(x, A) \ {w} : Better(j, w)
      BY <2>1, <2>3, WorstExists
    <3>2. w \in A /\ w \in B /\ w.instrument = x
      BY <1>1, <3>1 DEF On
    <3>3. On(x, Ahead(A, w)) = On(x, A) \ {w}
      BY <1>1, <3>1, <3>2, BetterIsTotalOrder DEF Ahead, On
    <3>4. Cardinality(On(x, Ahead(A, w))) < MaxPerInstrument
      BY <1>1, <3>2, StrategyCapNeverBinds DEF Greedy
    <3>5. Cardinality(On(x, A) \ {w}) = Cardinality(On(x, A)) - 1
      BY <2>1, <3>1, FS_RemoveElement
    <3>6. Cardinality(On(x, A)) \in Nat
      BY <2>1, FS_CardinalityType
    <3> QED
      BY <3>3, <3>4, <3>5, <3>6, PolicyAssumption
  <2> QED
    BY <2>2, <2>3
<1> QED
  BY <1>2, <1>3 DEF WithinCaps, On

-----------------------------------------------------------------------------
\* A larger part of a batch is larger on some instrument.
LEMMA LargerOnSome ==
    ASSUME NEW B, Batch(B)
    PROVE  \A D, T \in SUBSET B : Cardinality(T) < Cardinality(D) =>
              \E x \in Instruments : Cardinality(On(x, T)) < Cardinality(On(x, D))
<1> DEFINE Less(T, D) == \E x \in Instruments : Cardinality(On(x, T)) < Cardinality(On(x, D))
           F == {D \in SUBSET B : \E T \in SUBSET B :
                    Cardinality(T) < Cardinality(D) /\ ~Less(T, D)}
<1>0. ASSUME NEW S \in SUBSET B, NEW x
      PROVE  /\ IsFiniteSet(S) /\ Cardinality(S) \in Nat
             /\ IsFiniteSet(On(x, S)) /\ Cardinality(On(x, S)) \in Nat
  <2>1. IsFiniteSet(S)
    BY FS_Subset DEF Batch
  <2>2. IsFiniteSet(On(x, S))
    BY <2>1, FS_Subset DEF On
  <2> QED
    BY <2>1, <2>2, FS_CardinalityType
<1>1. ASSUME F # {} PROVE FALSE
  <2>1. PICK D \in F : \A U \in SUBSET D : U # D => U \notin F
    <3>1. F \in SUBSET (SUBSET B)
      OBVIOUS
    <3> HIDE DEF F
    <3> QED
      BY <1>1, <3>1, MinimalMember DEF Batch
  <2>2. D \in SUBSET B
    BY <2>1
  <2>3. PICK T \in SUBSET B : Cardinality(T) < Cardinality(D) /\ ~Less(T, D)
    BY <2>1
  <2>4. Cardinality(D) \in Nat /\ Cardinality(T) \in Nat /\ IsFiniteSet(D) /\ IsFiniteSet(T)
    BY <1>0, <2>2
  <2>5. PICK d \in D : TRUE
    <3>1. D # {}
      BY <2>3, <2>4, FS_EmptySet
    <3> QED
      BY <3>1
  <2> DEFINE y == d.instrument
  <2>6. y \in Instruments
    BY <2>2, <2>5 DEF Batch, Intent
  <2>7. PICK t \in T : t.instrument = y
    <3>1. d \in On(y, D)
      BY <2>5 DEF On
    <3>2. Cardinality(On(y, D)) > 0
      BY <1>0, <2>2, <3>1, FS_EmptySet
    <3>3. Cardinality(On(y, T)) > 0
      BY <1>0, <2>2, <2>3, <2>6, <3>2
    <3>4. On(y, T) # {}
      BY <3>3, FS_EmptySet
    <3> QED
      BY <3>4 DEF On
  <2> HIDE DEF y
  <2>8. D \ {d} \in SUBSET B /\ T \ {t} \in SUBSET B
    BY <2>2
  <2>9. Cardinality(D \ {d}) = Cardinality(D) - 1 /\ Cardinality(T \ {t}) = Cardinality(T) - 1
    BY <2>4, <2>5, <2>7, FS_RemoveElement
  <2>10. ASSUME NEW x \in Instruments
         PROVE  ~ (Cardinality(On(x, T \ {t})) < Cardinality(On(x, D \ {d})))
    <3>1. ~ (Cardinality(On(x, T)) < Cardinality(On(x, D)))
      BY <2>3
    <3>2. CASE x = y
      <4>1. On(x, D \ {d}) = On(x, D) \ {d} /\ d \in On(x, D)
        BY <2>5, <3>2 DEF On, y
      <4>2. On(x, T \ {t}) = On(x, T) \ {t} /\ t \in On(x, T)
        BY <2>7, <3>2 DEF On
      <4>3. Cardinality(On(x, D \ {d})) = Cardinality(On(x, D)) - 1
        <5>1. IsFiniteSet(On(x, D))
          BY <1>0, <2>2
        <5>2. Cardinality(On(x, D) \ {d}) = Cardinality(On(x, D)) - 1
          BY <4>1, <5>1, FS_RemoveElement
        <5> QED
          BY <4>1, <5>2
      <4>4. Cardinality(On(x, T \ {t})) = Cardinality(On(x, T)) - 1
        <5>1. IsFiniteSet(On(x, T))
          BY <1>0
        <5>2. Cardinality(On(x, T) \ {t}) = Cardinality(On(x, T)) - 1
          BY <4>2, <5>1, FS_RemoveElement
        <5> QED
          BY <4>2, <5>2
      <4>5. Cardinality(On(x, D)) \in Nat /\ Cardinality(On(x, T)) \in Nat
        BY <1>0, <2>2
      <4> QED
        BY <3>1, <4>3, <4>4, <4>5
    <3>3. CASE x # y
      <4>1. On(x, D \ {d}) = On(x, D)
        BY <3>3 DEF On, y
      <4>2. On(x, T \ {t}) = On(x, T)
        BY <2>7, <3>3 DEF On
      <4> QED
        BY <3>1, <4>1, <4>2
    <3> QED
      BY <3>2, <3>3
  <2>11. Cardinality(T \ {t}) < Cardinality(D \ {d})
    BY <2>3, <2>4, <2>9
  <2>12. D \ {d} \in F
    BY <2>8, <2>10, <2>11
  <2>13. D \ {d} \in SUBSET D /\ D \ {d} # D
    BY <2>5
  <2> HIDE DEF F
  <2> QED
    BY <2>1, <2>12, <2>13
<1> QED
  BY <1>1

\* Exchange: for an intent of S that the loop left out there is a better one
\* that it kept and that S lacks, and S stays within the caps if it trades them.
LEMMA ExchangeFor ==
    ASSUME NEW B, Batch(B), NEW A, Greedy(A, B),
           NEW S \in SUBSET B, WithinCaps(S), NEW i \in S \ A
    PROVE  \E j \in A \ S : Better(j, i) /\ WithinCaps((S \ {i}) \union {j})
<1>1. /\ A \in SUBSET B /\ i \in B /\ i.instrument \in Instruments
      /\ \A j \in B : j.instrument \in Instruments
  BY DEF Greedy, Batch, Intent
<1>2. ASSUME NEW T \in SUBSET B, NEW x
      PROVE  /\ IsFiniteSet(T) /\ Cardinality(T) \in Nat
             /\ IsFiniteSet(On(x, T)) /\ Cardinality(On(x, T)) \in Nat
  <2>1. IsFiniteSet(T)
    BY FS_Subset DEF Batch
  <2>2. IsFiniteSet(On(x, T))
    BY <2>1, FS_Subset DEF On
  <2> QED
    BY <2>1, <2>2, FS_CardinalityType
<1>3. /\ Cardinality(S) <= TopN
      /\ \A x \in Instruments : Cardinality(On(x, S)) <= MaxPerInstrument
  BY DEF WithinCaps, On
<1>4. ASSUME NEW j \in B \ S
      PROVE  /\ Cardinality((S \ {i}) \union {j}) = Cardinality(S)
             /\ \A x \in Instruments :
                   Cardinality(On(x, (S \ {i}) \union {j})) = Cardinality(On(x, S))
                      + (IF x = j.instrument THEN 1 ELSE 0) - (IF x = i.instrument THEN 1 ELSE 0)
  <2>1. Cardinality((S \ {i}) \union {j}) = Cardinality(S)
    <3>1. IsFiniteSet(S) /\ Cardinality(S) \in Nat
      BY <1>2
    <3>2. IsFiniteSet(S \ {i}) /\ Cardinality(S \ {i}) = Cardinality(S) - 1
      BY <3>1, FS_RemoveElement
    <3>3. j \notin S \ {i}
      OBVIOUS
    <3>4. Cardinality((S \ {i}) \union {j}) = Cardinality(S \ {i}) + 1
      BY <3>2, <3>3, FS_AddElement
    <3> QED
      BY <3>1, <3>2, <3>4
  <2>2. ASSUME NEW x \in Instruments
        PROVE  Cardinality(On(x, (S \ {i}) \union {j})) = Cardinality(On(x, S))
                  + (IF x = j.instrument THEN 1 ELSE 0) - (IF x = i.instrument THEN 1 ELSE 0)
    <3> DEFINE C == On(x, S)
               D == On(x, S \ {i})
               E == On(x, (S \ {i}) \union {j})
    <3>1. IsFiniteSet(C) /\ Cardinality(C) \in Nat
      BY <1>2
    <3>2. D = C \ {i} /\ (i \in C <=> x = i.instrument)
      BY DEF On
    <3>3. E = (IF x = j.instrument THEN D \union {j} ELSE D) /\ j \notin D
      BY DEF On
    <3> HIDE DEF C, D, E
    <3>4. IsFiniteSet(D) /\ Cardinality(D) = Cardinality(C) - (IF x = i.instrument THEN 1 ELSE 0)
      BY <3>1, <3>2, FS_RemoveElement
    <3>5. Cardinality(E) = Cardinality(D) + (IF x = j.instrument THEN 1 ELSE 0)
      <4>1. CASE x = j.instrument
        <5>1. Cardinality(D \union {j}) = Cardinality(D) + 1
          BY <3>3, <3>4, FS_AddElement
        <5> QED
          BY <3>3, <4>1, <5>1
      <4>2. CASE x # j.instrument
        <5>1. E = D
          BY <3>3, <4>2
        <5> QED
          BY <3>1, <3>4, <4>2, <5>1
      <4> QED
        BY <4>1, <4>2
    <3>6. Cardinality(E) = Cardinality(C) + (IF x = j.instrument THEN 1 ELSE 0)
                              - (IF x = i.instrument THEN 1 ELSE 0)
      BY <3>1, <3>4, <3>5
    <3> QED
      BY <3>6 DEF C, E
  <2> QED
    BY <2>1, <2>2
<1>5. ASSUME NEW j \in A \ S, Better(j, i),
             j.instrument = i.instrument \/ Cardinality(On(j.instrument, S)) < MaxPerInstrument
      PROVE  \E l \in A \ S : Better(l, i) /\ WithinCaps((S \ {i}) \union {l})
  <2> DEFINE R == (S \ {i}) \union {j}
  <2>1. Cardinality(R) <= TopN
    BY <1>1, <1>3, <1>4
  <2>2. ASSUME NEW x \in Instruments
        PROVE  Cardinality(On(x, R)) <= MaxPerInstrument
    <3>1. Cardinality(On(x, R)) = Cardinality(On(x, S))
             + (IF x = j.instrument THEN 1 ELSE 0) - (IF x = i.instrument THEN 1 ELSE 0)
      BY <1>1, <1>4
    <3>2. Cardinality(On(x, S)) \in Nat /\ Cardinality(On(x, S)) <= MaxPerInstrument
      BY <1>2, <1>3
    <3> HIDE DEF R
    <3> QED
      BY <1>5, <3>1, <3>2, PolicyAssumption
  <2>3. WithinCaps(R)
    BY <2>1, <2>2 DEF WithinCaps, On
  <2> QED
    BY <1>5, <2>3
<1>6. ~ /\ Cardinality(Ahead(A, i)) < TopN
        /\ Cardinality(On(i.instrument, Ahead(A, i))) < MaxPerInstrument
  BY <1>1, StrategyCapNeverBinds DEF Greedy
<1>7. Ahead(A, i) \in SUBSET A /\ \A j \in Ahead(A, i) : Better(j, i)
  BY DEF Ahead
<1>8. CASE ~(Cardinality(On(i.instrument, Ahead(A, i))) < MaxPerInstrument)
  <2> DEFINE x == i.instrument
             D == On(x, Ahead(A, i))
             C == On(x, S)
  <2>1. i \in C /\ i \notin D /\ IsFiniteSet(C) /\ Cardinality(C) \in Nat
    BY <1>2 DEF On, Ahead
  <2>2. Cardinality(C) <= MaxPerInstrument /\ ~(Cardinality(D) < MaxPerInstrument)
    BY <1>1, <1>3, <1>8
  <2>3. Cardinality(D) \in Nat
    BY <1>1, <1>2, <1>7
  <2>4. PICK j \in D : j \notin C
    <3> HIDE DEF D, C
    <3>1. ASSUME D \subseteq C PROVE FALSE
      <4>1. IsFiniteSet(C \ {i}) /\ Cardinality(C \ {i}) = Cardinality(C) - 1
        BY <2>1, FS_RemoveElement
      <4>2. D \in SUBSET (C \ {i})
        BY <2>1, <3>1
      <4>3. Cardinality(D) <= Cardinality(C \ {i})
        BY <4>1, <4>2, FS_Subset
      <4> QED
        BY <2>1, <2>2, <2>3, <4>1, <4>3, PolicyAssumption
    <3> QED
      BY <3>1
  <2>5. j \in A \ S /\ Better(j, i) /\ j.instrument = i.instrument
    BY <1>7, <2>4 DEF On
  <2> QED
    BY <1>5, <2>5
<1>9. CASE ~(Cardinality(Ahead(A, i)) < TopN)
  <2> DEFINE D == Ahead(A, i)
             T == S \ {i}
  <2>1. D \in SUBSET B /\ T \in SUBSET B
    BY <1>1, <1>7
  <2>2. Cardinality(T) = Cardinality(S) - 1 /\ Cardinality(S) \in Nat
    BY <1>2, FS_RemoveElement
  <2>3. Cardinality(D) \in Nat /\ ~(Cardinality(D) < TopN)
    BY <1>2, <1>9, <2>1
  <2> HIDE DEF D, T
  <2>4. Cardinality(T) < Cardinality(D)
    BY <1>3, <2>2, <2>3, PolicyAssumption
  <2>5. PICK x \in Instruments : Cardinality(On(x, T)) < Cardinality(On(x, D))
    BY <2>1, <2>4, LargerOnSome
  <2>6. /\ IsFiniteSet(On(x, T)) /\ Cardinality(On(x, T)) \in Nat
        /\ Cardinality(On(x, D)) \in Nat /\ IsFiniteSet(On(x, A)) /\ Cardinality(On(x, A)) \in Nat
    BY <1>1, <1>2, <2>1
  <2>7. PICK j \in On(x, D) : j \notin On(x, T)
    <3>1. ASSUME On(x, D) \in SUBSET On(x, T) PROVE FALSE
      <4>1. Cardinality(On(x, D)) <= Cardinality(On(x, T))
        BY <2>6, <3>1, FS_Subset
      <4> QED
        BY <2>5, <2>6, <4>1
    <3> QED
      BY <3>1
  <2>8. j \in A /\ Better(j, i) /\ j.instrument = x /\ j # i /\ j \notin T
    BY <1>7, <2>7 DEF On, D
  <2>9. j \in A \ S
    BY <2>8 DEF T
  <2>10. Cardinality(On(x, A)) <= MaxPerInstrument
    <3>1. WithinCaps(A)
      BY GreedyWithinCaps
    <3> QED
      BY <3>1 DEF WithinCaps, On
  <2>11. Cardinality(On(x, D)) <= Cardinality(On(x, A))
    <3>1. On(x, D) \in SUBSET On(x, A)
      BY <1>7 DEF On, D
    <3> QED
      BY <2>6, <3>1, FS_Subset
  <2>12. Cardinality(On(x, T)) < MaxPerInstrument
    BY <2>5, <2>6, <2>10, <2>11, PolicyAssumption
  <2>13. j.instrument = i.instrument \/ Cardinality(On(j.instrument, S)) < MaxPerInstrument
    <3>1. ASSUME x # i.instrument PROVE On(x, S) = On(x, T)
      BY <3>1 DEF On, T
    <3> QED
      BY <2>8, <2>12, <3>1
  <2> QED
    BY <1>5, <2>8, <2>9, <2>13
<1> QED
  BY <1>6, <1>8, <1>9

\* Trading leads from any S within the caps to a part of what was kept, never
\* to a smaller sum.
LEMMA GreedyIsOptimal ==
    ASSUME NEW B, Batch(B), NEW A, Greedy(A, B)
    PROVE  \A S \in SUBSET B : WithinCaps(S) =>
              \/ Cardinality(S) < Cardinality(A)
              \/ Cardinality(S) = Cardinality(A) /\ EdgeSum(S) <= EdgeSum(A)
<1> DEFINE Bad(S) == /\ WithinCaps(S)
                     /\ ~(Cardinality(S) < Cardinality(A))
                     /\ ~(Cardinality(S) = Cardinality(A) /\ EdgeSum(S) <= EdgeSum(A))
           F == {E \in SUBSET B : \E S \in SUBSET B : Bad(S) /\ E = S \ A}
<1>1. A \in SUBSET B /\ Edged(B)
  BY EdgesAssumption DEF Greedy, Batch, Edged, Intent
<1>2. ASSUME NEW S \in SUBSET B
      PROVE  IsFiniteSet(S) /\ Cardinality(S) \in Nat /\ EdgeSum(S) \in Int
  <2>1. IsFiniteSet(S)
    BY FS_Subset DEF Batch
  <2> QED
    BY <1>1, <2>1, FS_CardinalityType, EdgeSumInt
<1>3. ASSUME F # {} PROVE FALSE
  <2>1. PICK E \in F : \A U \in SUBSET E : U # E => U \notin F
    <3>1. F \in SUBSET (SUBSET B)
      OBVIOUS
    <3> HIDE DEF F
    <3> QED
      BY <1>3, <3>1, MinimalMember DEF Batch
  <2>2. PICK S \in SUBSET B : Bad(S) /\ E = S \ A
    BY <2>1
  <2>3. CASE E = {}
    <3>1. S \in SUBSET A
      BY <2>2, <2>3
    <3>2. Cardinality(S) <= Cardinality(A) /\ (Cardinality(A) = Cardinality(S) => A = S)
      BY <1>1, <1>2, <3>1, FS_Subset
    <3>3. Cardinality(S) = Cardinality(A) /\ A = S
      BY <1>1, <1>2, <2>2, <3>2
    <3>4. EdgeSum(S) <= EdgeSum(A)
      <4>1. EdgeSum(S) = EdgeSum(A)
        BY <3>3
      <4> QED
        BY <1>1, <1>2, <4>1
    <3> QED
      BY <2>2, <3>3, <3>4
  <2>4. CASE E # {}
    <3>1. PICK i \in S \ A : TRUE
      BY <2>2, <2>4
    <3>2. PICK j \in A \ S : Better(j, i) /\ WithinCaps((S \ {i}) \union {j})
      BY <2>2, ExchangeFor
    <3> DEFINE R == (S \ {i}) \union {j}
    <3>3. R \in SUBSET B /\ R \ A \in SUBSET E /\ R \ A # E
      BY <1>1, <2>2
    <3>4. EdgeSum(R) = EdgeSum(S) - i.edge + j.edge
      BY <1>1, EdgeSumExchange
    <3>5. Cardinality(R) = Cardinality(S)
      <4>1. IsFiniteSet(S) /\ Cardinality(S) \in Nat
        BY <1>2
      <4>2. IsFiniteSet(S \ {i}) /\ Cardinality(S \ {i}) = Cardinality(S) - 1
        BY <4>1, FS_RemoveElement
      <4>3. Cardinality(R) = Cardinality(S \ {i}) + 1
        BY <4>2, FS_AddElement
      <4> QED
        BY <4>1, <4>2, <4>3
    <3>6. i.edge \in Int /\ j.edge \in Int /\ i.edge <= j.edge
      <4>1. i.edge \in Int /\ j.edge \in Int
        BY <1>1 DEF Edged
      <4> QED
        BY <3>2, <4>1 DEF Better
    <3>7. ~Bad(R)
      <4>1. R \ A \notin F
        BY <2>1, <3>3
      <4> QED
        BY <1>1, <3>3, <4>1
    <3>8. EdgeSum(S) \in Int /\ EdgeSum(R) \in Int /\ EdgeSum(A) \in Int
      BY <1>1, <1>2, <3>3
    <3>9. WithinCaps(R)
      BY <3>2
    <3> HIDE DEF R
    <3>10. EdgeSum(S) <= EdgeSum(R)
      BY <3>4, <3>6, <3>8
    <3>11. Bad(R)
      <4>1. ~(Cardinality(R) < Cardinality(A))
        BY <2>2, <3>5
      <4>2. ~(Cardinality(R) = Cardinality(A) /\ EdgeSum(R) <= EdgeSum(A))
        BY <2>2, <3>5, <3>8, <3>10
      <4> QED
        BY <3>9, <4>1, <4>2
    <3> QED
      BY <3>7, <3>11
  <2> QED
    BY <2>3, <2>4
<1>4. ASSUME NEW S \in SUBSET B, Bad(S) PROVE FALSE
  BY <1>3, <1>4
<1> QED
  BY <1>4

\* The intents under way are those of different strategies, so the buffer is a
\* batch.
LEMMA BufferIsBatch == SelectorInv => Batch(buffer)
<1> SUFFICES ASSUME SelectorInv PROVE Batch(buffer)
  OBVIOUS
<1> USE DEF SelectorInv
<1> DEFINE P == {pending[s] : s \in Strategies}
<1>1. NoIntent \notin buffer
  BY NoIntentAssumption DEF TypeOK
<1>2. buffer \in SUBSET P
  BY <1>1 DEF NothingStranded
<1>3. IsFiniteSet(P)
  <2>1. pending \in Surjection(Strategies, P)
    BY DEF TypeOK, Surjection
  <2> QED
    BY <2>1, StrategiesAssumption, FS_Surjection
<1>4. IsFiniteSet(buffer)
  BY <1>2, <1>3, FS_Subset
<1>5. ASSUME NEW i \in buffer, NEW j \in buffer, i # j
      PROVE  i.id # j.id /\ i.strategy # j.strategy
  <2>1. PICK s \in Strategies : pending[s] = i
    BY <1>2
  <2>2. PICK t \in Strategies : pending[t] = j
    BY <1>2
  <2> QED
    BY <1>1, <1>5, <2>1, <2>2 DEF Apart
<1> QED
  BY <1>4, <1>5 DEF Batch, TypeOK

\* Whatever the strategies propose and in whatever order, what select_intents
\* approves is within the caps, no larger part of the batch is, and none as large
\* has a greater total edge.
THEOREM ApprovedIsOptimal == Spec => []BatchOptimal
<1>1. SelectorInv => BatchOptimal
  <2> SUFFICES ASSUME SelectorInv PROVE BatchOptimal
    OBVIOUS
  <2>1. Batch(buffer)
    BY BufferIsBatch
  <2>2. Greedy(Approved(buffer), buffer)
    BY <2>1, ApprovedIsGreedy
  <2> QED
    BY <2>1, <2>2, GreedyWithinCaps, GreedyIsOptimal DEF BatchOptimal
<1> QED
  BY <1>1, SelectorInvariant, PTL

-----------------------------------------------------------------------------
(***************************************************************************)
(* The refinement: every step of the selector, its strategies and its      *)
(* clock is a step of ApprovalProtocol or leaves its variables alone.      *)
(***************************************************************************)
Forsaken == {s \in Strategies : pending[s] \in lost}

LEMMA ProposeAsks ==
    ASSUME SelectorInv, NEW i \in Intent, Propose(i.strategy, i)
    PROVE  i.strategy \in Strategies /\ Approval!Ask(i.strategy)
<1> DEFINE s == i.strategy
<1> USE DEF SelectorInv
<1>1. s \in Strategies
  BY DEF Intent
<1> HIDE DEF s
<1>2. /\ port[s] = "free" /\ pending[s] = NoIntent
      /\ port' = [port EXCEPT ![s] = "waiting"]
      /\ pending' = [pending EXCEPT ![s] = i] /\ lost' = lost
  BY <1>1 DEF Propose, NothingStranded, s
<1>3. i \notin lost /\ NoIntent \notin lost
  <2>1. \A t \in Strategies : pending[t] # i
    BY NoIntentAssumption DEF Propose
  <2> QED
    BY <2>1, NoIntentAssumption DEF NothingStranded, TypeOK
<1>4. \A t \in Strategies : pending'[t] = IF t = s THEN i ELSE pending[t]
  BY <1>2 DEF TypeOK
<1>5. Forsaken' = Forsaken
  BY <1>1, <1>2, <1>3, <1>4 DEF Forsaken
<1> QED
  BY <1>1, <1>2, <1>5 DEF Approval!Ask, Forsaken, s

\* Closing a batch settles all that is open: what the buffer holds.
LEMMA OpenIsBuffered ==
    ASSUME SelectorInv
    PROVE  Approval!Open = {s \in Strategies : pending[s] \in buffer}
<1>1. ASSUME NEW s \in Strategies
      PROVE  port[s] = "waiting" /\ pending[s] \notin lost <=> pending[s] \in buffer
  <2>1. NoIntent \notin buffer
    BY NoIntentAssumption DEF SelectorInv, TypeOK
  <2> QED
    BY <2>1 DEF SelectorInv, NothingStranded
<1> QED
  BY <1>1 DEF Approval!Open

LEMMA FinalizeDecides ==
    ASSUME SelectorInv, Finalize
    PROVE  \E answered, leave \in SUBSET Approval!Open :
              Approval!Decide(answered, leave)
<1> USE DEF SelectorInv
<1>1. PICK verdicts \in Published(buffer, Approved(buffer)) :
         /\ buffer' = {} /\ Heard(verdicts, Approved(buffer))
         /\ lost' = lost \union (buffer \ verdicts)
  BY DEF Finalize
<1>2. PICK entered \in SUBSET (verdicts \intersect Approved(buffer)) :
         port' = [s \in Strategies |->
                     IF ~(pending[s] \in verdicts) THEN port[s]
                     ELSE IF pending[s] \in entered THEN "trading" ELSE "free"]
  BY <1>1 DEF Heard
<1>3. pending' = [s \in Strategies |->
                     IF pending[s] \in verdicts THEN NoIntent ELSE pending[s]]
  BY <1>1 DEF Heard
<1>. PICK answered, leave :
        /\ answered = {s \in Strategies : pending[s] \in verdicts}
        /\ leave = {s \in Strategies : pending[s] \in entered}
  OBVIOUS
<1>4. verdicts \subseteq buffer
  BY <1>1, PublishedIsBatch
<1>5. /\ answered \in SUBSET Approval!Open /\ leave \in SUBSET Approval!Open
      /\ leave \subseteq answered
  BY <1>2, <1>4, OpenIsBuffered
<1>6. port' = [p \in Strategies |->
                  IF p \notin answered THEN port[p]
                  ELSE IF p \in leave THEN "trading" ELSE "free"]
  BY <1>2
<1>7. NoIntent \notin lost'
  BY <1>1, NoIntentAssumption DEF TypeOK
<1>8. ASSUME NEW s \in Strategies
      PROVE  pending'[s] \in lost' <=>
                pending[s] \in lost \/ (pending[s] \in buffer /\ s \notin answered)
  BY <1>1, <1>3, <1>4, <1>7 DEF NothingStranded
<1>9. Forsaken' = Forsaken \union (Approval!Open \ answered)
  BY <1>8, OpenIsBuffered DEF Forsaken
<1>10. Approval!Decide(answered, leave)
  BY <1>5, <1>6, <1>9 DEF Approval!Decide, Forsaken
<1> QED
  BY <1>5, <1>10

\* A shutdown whose verdicts nobody hears forsakes all that is open.
LEMMA SilentStopDecides ==
    ASSUME SelectorInv, buffer' = {}, lost' = lost \union buffer,
           UNCHANGED <<port, pending>>
    PROVE  \E answered, leave \in SUBSET Approval!Open :
              Approval!Decide(answered, leave)
<1>1. port' = [p \in Strategies |-> port[p]]
  BY DEF SelectorInv, TypeOK
<1>2. Forsaken' = Forsaken \union (Approval!Open \ {})
  BY OpenIsBuffered DEF Forsaken
<1>3. Approval!Decide({}, {})
  BY <1>1, <1>2 DEF Approval!Decide, Forsaken
<1> QED
  BY <1>3

\* The selector keeps the promise of ApprovalProtocol (actors/selector.py and
\* the verdict handlers of strategies/base.py): for any number of strategies,
\* any policy and any exception, a batch is settled as a whole and every
\* verdict goes to the one strategy that asked for it.
THEOREM SelectorImplementsApproval == Spec => ImplementsApproval
<1>1. Init => Approval!Init
  BY DEF Init, Approval!Init
<1>2. SelectorInv /\ [Next]_vars => [Approval!Next]_(Approval!vars)
  <2> SUFFICES ASSUME SelectorInv, [Next]_vars
               PROVE  Approval!Next \/ UNCHANGED Approval!vars
    OBVIOUS
  <2>1. ASSUME NEW i \in Intent, Propose(i.strategy, i) PROVE Approval!Next
    BY <2>1, ProposeAsks DEF Approval!Next
  <2>2. ASSUME NEW s \in Strategies, TradeEnds(s) PROVE Approval!Next
    <3>1. Approval!EndTrade(s)
      BY <2>2 DEF TradeEnds, Approval!EndTrade
    <3> QED
      BY <3>1 DEF Approval!Next
  <2>3. CASE OnFinalizeAlert
    BY <2>3, FinalizeDecides DEF OnFinalizeAlert, Approval!Next
  <2>4. CASE OnStop
    BY <2>4, FinalizeDecides, SilentStopDecides DEF OnStop, Approval!Next
  <2>5. CASE Tick \/ UNCHANGED vars
    BY <2>5 DEF Tick, vars, Approval!vars
  <2> QED
    BY <2>1, <2>2, <2>3, <2>4, <2>5 DEF Next
<1> QED
  BY <1>1, <1>2, SelectorInvariant, PTL DEF Spec, Approval!Spec, ImplementsApproval

=============================================================================
