-------------------------- MODULE RegimeFeedProofs --------------------------
(***************************************************************************)
(* Proofs about RegimeFeed, for any number of strategies, any prices and   *)
(* thresholds, any window and any number of journal writes that raise.     *)
(***************************************************************************)
EXTENDS RegimeFeed, TLAPS

SkeletonType ==
    [session : {"none", "open", "closed"}, tag : Tags \union {"none"}, tick : BOOLEAN,
     verdict : {"none", "PASSED", "REGIME", "SESSION", "OPERATIONAL", "LOST"}]

\* Between quotes nothing is known of mid; open and the window start together.
IInv ==
    /\ SubscribersCurrent
    /\ awaiting # {} => mid \in Prices
    /\ (open = NoPrice) <=> (recent = <<>>)

\* The window is never empty after a price, ends with it, and keeps its size.
LEMMA AppendedEndsWithIt ==
    ASSUME NEW prices \in Seq(Prices), Len(prices) <= Window, NEW p \in Prices
    PROVE  /\ Appended(prices, p) \in Seq(Prices)
           /\ Len(Appended(prices, p)) <= Window
           /\ Appended(prices, p) # <<>>
           /\ Appended(prices, p)[Len(Appended(prices, p))] = p
<1>1. Window \in Nat \ {0}
  BY ParametersAssumption
<1>2. CASE Len(prices) < Window
  BY <1>1, <1>2 DEF Appended
<1>3. CASE ~(Len(prices) < Window)
  <2>1. Len(prices) = Window /\ prices # <<>>
    BY <1>1, <1>3
  <2>2. Tail(prices) \in Seq(Prices) /\ Len(Tail(prices)) = Len(prices) - 1
    BY <2>1
  <2>3. Appended(prices, p) = Append(Tail(prices), p)
    BY <1>3 DEF Appended
  <2> QED  BY <1>1, <2>1, <2>2, <2>3
<1> QED  BY <1>2, <1>3

\* A tag is one of the four.
LEMMA TagIsATag ==
    ASSUME NEW p, NEW first, NEW prices
    PROVE  RegimeTag(p, first, prices) \in Tags /\ "none" \notin Tags
BY DEF RegimeTag, Tags

\* Hearing something never changes a verdict, and evaluating keeps the type.
LEMMA EvaluationKeeps ==
    ASSUME NEW k \in SkeletonType
    PROVE  /\ MaybeEvaluate(k) \in SkeletonType /\ Unrecorded(k) \in SkeletonType
           /\ MaybeEvaluate(k).tag = k.tag /\ Unrecorded(k).tag = k.tag
           /\ k.verdict # "none" => MaybeEvaluate(k).verdict = k.verdict
<1>1. Verdict(k) \in {"PASSED", "REGIME", "SESSION", "OPERATIONAL"}
  BY DEF Verdict
<1>2. \A v \in {"PASSED", "REGIME", "SESSION", "OPERATIONAL", "LOST"} :
          [k EXCEPT !.verdict = v] \in SkeletonType /\ [k EXCEPT !.verdict = v].tag = k.tag
  BY DEF SkeletonType
<1>3. k.verdict # "none" => MaybeEvaluate(k) = k
  BY DEF MaybeEvaluate, Evaluates
<1> QED  BY <1>1, <1>2, <1>3 DEF MaybeEvaluate, Unrecorded

\* What a strategy is told changes what it has heard and nothing else.
LEMMA TellingKeeps ==
    ASSUME IInv, NEW s \in Skeletons, NEW t \in Tags, NEW phase \in {"open", "closed"}
    PROVE  /\ ToldTag(t)[s] \in SkeletonType /\ ToldTag(t)[s].tag = t
           /\ ToldTag(t)[s].verdict = skeleton[s].verdict
           /\ ToldSession(phase)[s] \in SkeletonType
           /\ ToldSession(phase)[s].tag = skeleton[s].tag
           /\ ToldSession(phase)[s].verdict = skeleton[s].verdict
<1>1. skeleton[s] \in SkeletonType
  BY DEF IInv, SubscribersCurrent, TypeOK, SkeletonType
<1> QED  BY <1>1 DEF ToldTag, ToldSession, SkeletonType

\* What the regime actor has after a quote.
LEMMA TakingKeeps ==
    ASSUME IInv, RegimeTakes(mid)
    PROVE  /\ mid \in Prices /\ open' \in Prices /\ open' # NoPrice
           /\ recent' \in Seq(Prices) /\ Len(recent') <= Window
           /\ recent' # <<>> /\ recent'[Len(recent')] = mid
           /\ RegimeTag(mid, open', recent') \in Tags
<1>1. mid \in Prices /\ mid' = mid
  BY DEF IInv, RegimeTakes
<1>2. open' \in Prices /\ open' # NoPrice
  BY <1>1, ParametersAssumption DEF IInv, SubscribersCurrent, TypeOK, RegimeTakes
<1>3. /\ recent \in Seq(Prices) /\ Len(recent) <= Window /\ recent' = Appended(recent, mid)
  BY DEF IInv, SubscribersCurrent, TypeOK, RegimeTakes
<1> QED  BY <1>1, <1>2, <1>3, AppendedEndsWithIt, TagIsATag

\* A quote that leaves the tag alone leaves everybody current.
LEMMA UnchangedKeeps ==
    ASSUME IInv, RegimeUnchanged
    PROVE  IInv'
<1>1. /\ mid \in Prices /\ open' \in Prices /\ open' # NoPrice
      /\ recent' \in Seq(Prices) /\ Len(recent') <= Window
      /\ recent' # <<>> /\ recent'[Len(recent')] = mid
      /\ RegimeTag(mid, open', recent') \in Tags
  BY TakingKeeps DEF RegimeUnchanged
<1>2. /\ lastTag = RegimeTag(mid, open', recent') /\ mid' = mid
      /\ UNCHANGED <<lastTag, skeleton, missed, faults>>
      /\ awaiting' \subseteq awaiting
  BY DEF RegimeUnchanged, RegimeTakes
<1>3. TypeOK'
  BY <1>1, <1>2 DEF IInv, SubscribersCurrent, TypeOK
<1>4. lastTag' = RegimeTag(recent'[Len(recent')], open', recent') /\ lastTag' # "none"
  BY <1>1, <1>2, TagIsATag
<1>5. \A s \in Skeletons \ missed' : skeleton'[s].tag = lastTag'
  BY <1>2 DEF IInv, SubscribersCurrent
<1> QED  BY <1>1, <1>2, <1>3, <1>4, <1>5 DEF IInv, SubscribersCurrent

\* Who is told a new tag is current; who is not is missed.
LEMMA ChangesKeep ==
    ASSUME IInv, RegimeChanges
    PROVE  IInv'
<1> DEFINE tag == RegimeTag(mid, open', recent')
<1>1. /\ mid \in Prices /\ open' \in Prices /\ open' # NoPrice
      /\ recent' \in Seq(Prices) /\ Len(recent') <= Window
      /\ recent' # <<>> /\ recent'[Len(recent')] = mid
      /\ tag \in Tags
  BY TakingKeeps DEF RegimeChanges
<1>2. lastTag' = tag /\ mid' = mid /\ tag # "none"
  BY <1>1, TagIsATag DEF RegimeChanges, RegimeTakes
<1> DEFINE Told == /\ skeleton' \in [Skeletons -> SkeletonType]
                   /\ missed' \subseteq Skeletons /\ faults' \in 0..MaxFaults
                   /\ awaiting' \subseteq awaiting
                   /\ \A s \in Skeletons \ missed' : skeleton'[s].tag = tag
<1>3. Told
  <2>1. \A s \in Skeletons : /\ ToldTag(tag)[s] \in SkeletonType /\ ToldTag(tag)[s].tag = tag
                             /\ skeleton[s] \in SkeletonType
    BY <1>1, TellingKeeps DEF IInv, SubscribersCurrent, TypeOK, SkeletonType
  <2>2. \A s \in Skeletons :
            /\ MaybeEvaluate(ToldTag(tag)[s]) \in SkeletonType
            /\ MaybeEvaluate(ToldTag(tag)[s]).tag = tag
            /\ Unrecorded(ToldTag(tag)[s]) \in SkeletonType
            /\ Unrecorded(ToldTag(tag)[s]).tag = tag
    BY <2>1, EvaluationKeeps
  <2> HIDE DEF tag
  <2>3. CASE /\ Delivered(ToldTag(tag)) /\ missed' = {}
             /\ awaiting' = awaiting \ {Regime} /\ UNCHANGED faults
    BY <2>2, <2>3 DEF Delivered, IInv, SubscribersCurrent, TypeOK
  <2>4. ASSUME NEW r \in Skeletons, NEW reached \in SUBSET (Skeletons \ {r}),
               RaisedAt(ToldTag(tag), r, reached),
               missed' = Skeletons \ (reached \union {r}), awaiting' = {}
        PROVE  Told
    <3>1. faults' \in 0..MaxFaults
      BY <2>4, ParametersAssumption DEF RaisedAt, IInv, SubscribersCurrent, TypeOK
    <3>2. skeleton' = [s \in Skeletons |->
              IF s = r THEN Unrecorded(ToldTag(tag)[s])
              ELSE IF s \in reached THEN MaybeEvaluate(ToldTag(tag)[s]) ELSE skeleton[s]]
      BY <2>4 DEF RaisedAt
    <3>3. skeleton' \in [Skeletons -> SkeletonType]
      BY <2>1, <2>2, <3>2
    <3>4. \A s \in Skeletons \ missed' : skeleton'[s].tag = tag
      BY <2>2, <2>4, <3>2
    <3> QED  BY <2>4, <3>1, <3>3, <3>4
  <2> QED  BY <1>2, <2>3, <2>4 DEF RegimeChanges
<1>4. TypeOK'
  BY <1>1, <1>2, <1>3 DEF IInv, SubscribersCurrent, TypeOK, SkeletonType
<1> QED  BY <1>1, <1>2, <1>3, <1>4 DEF IInv, SubscribersCurrent

\* A tick or a session phase leaves every tag where it is.
LEMMA HearingKeeps ==
    ASSUME IInv, NEW s \in Skeletons, SkeletonHears(s)
    PROVE  IInv'
<1> DEFINE told == [skeleton[s] EXCEPT !.tick = TRUE]
<1>1. skeleton[s] \in SkeletonType
  BY DEF IInv, SubscribersCurrent, TypeOK, SkeletonType
<1>2. told \in SkeletonType /\ told.tag = skeleton[s].tag
  BY <1>1 DEF SkeletonType
<1>3. /\ MaybeEvaluate(told) \in SkeletonType /\ MaybeEvaluate(told).tag = skeleton[s].tag
      /\ Unrecorded(told) \in SkeletonType /\ Unrecorded(told).tag = skeleton[s].tag
  BY <1>2, EvaluationKeeps
<1>4. /\ \E k \in {MaybeEvaluate(told), Unrecorded(told)} :
              skeleton' = [skeleton EXCEPT ![s] = k]
      /\ awaiting' \subseteq awaiting
      /\ UNCHANGED <<mid, open, recent, lastTag, missed>>
  BY DEF SkeletonHears, regimeVars
<1>5. faults' \in 0..MaxFaults
  BY ParametersAssumption DEF SkeletonHears, IInv, SubscribersCurrent, TypeOK
<1>6. skeleton \in [Skeletons -> SkeletonType]
  BY DEF IInv, SubscribersCurrent, TypeOK, SkeletonType
<1> HIDE DEF told
<1>7. /\ skeleton' \in [Skeletons -> SkeletonType]
      /\ \A x \in Skeletons : skeleton'[x].tag = skeleton[x].tag
  BY <1>3, <1>4, <1>6
<1>8. TypeOK'
  BY <1>4, <1>5, <1>7 DEF IInv, SubscribersCurrent, TypeOK, SkeletonType
<1> QED  BY <1>4, <1>7, <1>8 DEF IInv, SubscribersCurrent

\* So does a session phase.
LEMMA SessionKeeps ==
    ASSUME IInv, NEW phase \in {"open", "closed"}, SessionSpeaks(phase)
    PROVE  IInv'
<1>1. \A s \in Skeletons :
          /\ ToldSession(phase)[s] \in SkeletonType
          /\ ToldSession(phase)[s].tag = skeleton[s].tag
          /\ skeleton[s] \in SkeletonType
  <2>1. "TREND" \in Tags
    BY DEF Tags
  <2> SUFFICES ASSUME NEW s \in Skeletons
               PROVE  /\ ToldSession(phase)[s] \in SkeletonType
                      /\ ToldSession(phase)[s].tag = skeleton[s].tag
                      /\ skeleton[s] \in SkeletonType
    OBVIOUS
  <2>2. skeleton[s] \in SkeletonType
    BY DEF IInv, SubscribersCurrent, TypeOK, SkeletonType
  <2>3. /\ ToldSession(phase)[s] \in SkeletonType
        /\ ToldSession(phase)[s].tag = skeleton[s].tag
    BY <2>1, TellingKeeps
  <2> QED  BY <2>2, <2>3
<1>2. \A s \in Skeletons :
          /\ MaybeEvaluate(ToldSession(phase)[s]) \in SkeletonType
          /\ MaybeEvaluate(ToldSession(phase)[s]).tag = skeleton[s].tag
          /\ Unrecorded(ToldSession(phase)[s]) \in SkeletonType
          /\ Unrecorded(ToldSession(phase)[s]).tag = skeleton[s].tag
  BY <1>1, EvaluationKeeps
<1>3. UNCHANGED <<mid, awaiting, open, recent, lastTag, missed>>
  BY DEF SessionSpeaks, regimeVars
<1> DEFINE Told == /\ skeleton' \in [Skeletons -> SkeletonType] /\ faults' \in 0..MaxFaults
                   /\ \A s \in Skeletons : skeleton'[s].tag = skeleton[s].tag
<1>4. Told
  <2>1. CASE Delivered(ToldSession(phase)) /\ UNCHANGED faults
    BY <1>2, <2>1 DEF Delivered, IInv, SubscribersCurrent, TypeOK
  <2>2. ASSUME NEW r \in Skeletons, NEW reached \in SUBSET (Skeletons \ {r}),
               RaisedAt(ToldSession(phase), r, reached)
        PROVE  Told
    <3>1. faults' \in 0..MaxFaults
      BY <2>2, ParametersAssumption DEF RaisedAt, IInv, SubscribersCurrent, TypeOK
    <3>2. skeleton' = [s \in Skeletons |->
              IF s = r THEN Unrecorded(ToldSession(phase)[s])
              ELSE IF s \in reached THEN MaybeEvaluate(ToldSession(phase)[s])
              ELSE skeleton[s]]
      BY <2>2 DEF RaisedAt
    <3> QED  BY <1>1, <1>2, <3>1, <3>2
  <2> QED  BY <2>1, <2>2 DEF SessionSpeaks
<1>5. TypeOK'
  BY <1>3, <1>4 DEF IInv, SubscribersCurrent, TypeOK, SkeletonType
<1> QED  BY <1>3, <1>4, <1>5 DEF IInv, SubscribersCurrent

\* The invariant holds at first and every step preserves it.
LEMMA Inductive == Spec => []IInv
<1>1. Init => IInv
  <2> SUFFICES ASSUME Init PROVE IInv
    OBVIOUS
  <2>1. Unheard \in SkeletonType
    BY DEF Unheard, SkeletonType
  <2>2. TypeOK
    BY <2>1, ParametersAssumption DEF Init, TypeOK, SkeletonType
  <2>3. \A s \in Skeletons : skeleton[s].tag = lastTag
    BY DEF Init, Unheard
  <2> QED  BY <2>2, <2>3 DEF Init, IInv, SubscribersCurrent
<1>2. IInv /\ [Next]_vars => IInv'
  <2> SUFFICES ASSUME IInv, [Next]_vars PROVE IInv'
    OBVIOUS
  <2>1. ASSUME NEW p \in Prices, Quote(p) PROVE IInv'
    BY <2>1 DEF Quote, regimeVars, IInv, SubscribersCurrent, TypeOK
  <2>2. CASE UNCHANGED vars
    BY <2>2 DEF vars, IInv, SubscribersCurrent, TypeOK
  <2> QED
    BY <2>1, <2>2, UnchangedKeeps, ChangesKeep, HearingKeeps, SessionKeeps DEF Next
<1> QED  BY <1>1, <1>2, PTL DEF Spec

-----------------------------------------------------------------------------
(***************************************************************************)
(* The theorems.                                                           *)
(***************************************************************************)

\* Nobody goes by an old tag unless a raise kept the last one from it.
THEOREM NobodyIsLeftBehind == Spec => []SubscribersCurrent
<1>1. IInv => SubscribersCurrent
  BY DEF IInv
<1> QED  BY <1>1, Inductive, PTL

\* Where half a unit is within Pin of the price, UNKNOWN does not exist.
THEOREM PinMasksUnknown == Spec => []UnknownIsCheap
<1>1. IInv => UnknownIsCheap
  <2> SUFFICES ASSUME IInv, lastTag = "UNKNOWN"
               PROVE  2 * Pin * recent[Len(recent)] < Unit * Per
    BY DEF UnknownIsCheap
  <2> DEFINE p == recent[Len(recent)]
  <2>1. recent # <<>> /\ recent \in Seq(Prices) /\ p \in Nat
    <3>1. recent # <<>> /\ recent \in Seq(Prices)
      BY DEF IInv, SubscribersCurrent, TypeOK
    <3>2. p \in Prices
      BY <3>1
    <3> QED  BY <3>1, <3>2, ParametersAssumption
  <2>2. ~NearRound(p)
    BY <2>1 DEF IInv, SubscribersCurrent, RegimeTag
  <2>3. Unit \in Nat \ {0} /\ Per \in Nat \ {0} /\ Pin \in Nat
    BY ParametersAssumption
  <2> DEFINE d == ToRound(p)
  <2>4. d \in Nat /\ 2 * d <= Unit
    <3>1. p % Unit \in 0..(Unit - 1)
      BY <2>1, <2>3
    <3> QED  BY <2>3, <3>1 DEF ToRound
  <2>5. d * Per > Pin * p
    BY <2>1, <2>2, <2>3, <2>4 DEF NearRound
  <2> HIDE DEF d, p
  <2>6. (2 * d) * Per <= Unit * Per
    BY <2>3, <2>4
  <2> QED  BY <2>1, <2>3, <2>4, <2>5, <2>6 DEF p
<1> QED  BY <1>1, Inductive, PTL

\* The first tag published is PIN_RISK or UNKNOWN.
THEOREM FirstTagIsCoarse == Spec => FirstTagCoarse
<1>1. IInv /\ [Next]_vars =>
          (lastTag = "none" /\ lastTag' # "none" => lastTag' \in {"PIN_RISK", "UNKNOWN"})
  <2> SUFFICES ASSUME IInv, [Next]_vars, lastTag = "none", lastTag' # "none"
               PROVE  lastTag' \in {"PIN_RISK", "UNKNOWN"}
    OBVIOUS
  <2>1. RegimeChanges
    BY DEF Next, vars, regimeVars, Quote, RegimeUnchanged, SkeletonHears, SessionSpeaks
  <2>2. /\ recent = <<>> /\ open = NoPrice /\ mid \in Prices
        /\ open' = mid /\ recent' = Appended(<<>>, mid)
        /\ lastTag' = RegimeTag(mid, open', recent')
    BY <2>1 DEF IInv, SubscribersCurrent, RegimeChanges, RegimeTakes
  <2>3. mid \in Nat \ {0} /\ Trend \in Nat \ {0} /\ Per \in Nat \ {0} /\ Window \in Nat \ {0}
        /\ MinSample \in Nat /\ MinSample > 1
    BY <2>2, ParametersAssumption
  <2>4. recent' = <<mid>>
    BY <2>2, <2>3 DEF Appended
  <2>5. ~Choppy(mid, recent')
    BY <2>3, <2>4 DEF Choppy
  <2>6. ~FarFromOpen(mid, open')
    <3>1. Distance(mid, open') = 0
      BY <2>2, <2>3 DEF Distance
    <3>2. Trend * mid > 0
      BY <2>3
    <3> QED  BY <2>2, <2>3, <3>1, <3>2 DEF FarFromOpen
  <2> QED  BY <2>2, <2>5, <2>6 DEF RegimeTag
<1> QED  BY <1>1, Inductive, PTL DEF Spec, FirstTagCoarse

\* A verdict once passed stands.
THEOREM OneVerdictEach == Spec => OneVerdict
<1>1. IInv /\ [Next]_vars =>
          (\A s \in Skeletons : skeleton[s].verdict # "none" =>
               skeleton'[s].verdict = skeleton[s].verdict)
  <2> SUFFICES ASSUME IInv, [Next]_vars, NEW s \in Skeletons, skeleton[s].verdict # "none"
               PROVE  skeleton'[s].verdict = skeleton[s].verdict
    OBVIOUS
  <2>1. skeleton \in [Skeletons -> SkeletonType]
    BY DEF IInv, SubscribersCurrent, TypeOK, SkeletonType
  <2>2. ASSUME NEW told, told[s] \in SkeletonType, told[s].verdict = skeleton[s].verdict,
               \/ Delivered(told)
               \/ \E r \in Skeletons : \E reached \in SUBSET (Skeletons \ {r}) :
                      RaisedAt(told, r, reached)
        PROVE  skeleton'[s].verdict = skeleton[s].verdict
    <3>1. MaybeEvaluate(told[s]).verdict = skeleton[s].verdict /\ ~Evaluates(told[s])
      BY <2>2, EvaluationKeeps DEF Evaluates
    <3>2. CASE Delivered(told)
      BY <3>1, <3>2 DEF Delivered
    <3>3. ASSUME NEW r \in Skeletons, NEW reached \in SUBSET (Skeletons \ {r}),
                 RaisedAt(told, r, reached)
          PROVE  skeleton'[s].verdict = skeleton[s].verdict
      <4>1. s # r
        BY <3>1, <3>3 DEF RaisedAt
      <4> QED  BY <3>1, <3>3, <4>1 DEF RaisedAt
    <3> QED  BY <2>2, <3>2, <3>3
  <2>3. CASE RegimeChanges
    <3>1. lastTag' \in Tags
      BY <2>3, TakingKeeps DEF RegimeChanges
    <3>2. PICK t : t = lastTag' OBVIOUS
    <3>3. ToldTag(t)[s] \in SkeletonType /\ ToldTag(t)[s].verdict = skeleton[s].verdict
      BY <3>1, <3>2, TellingKeeps
    <3>4. PICK told : told = ToldTag(t) OBVIOUS
    <3> QED  BY <2>2, <2>3, <3>2, <3>3, <3>4 DEF RegimeChanges
  <2>4. ASSUME NEW phase \in {"open", "closed"}, SessionSpeaks(phase)
        PROVE  skeleton'[s].verdict = skeleton[s].verdict
    <3>1. PICK told : told = ToldSession(phase) OBVIOUS
    <3>2. PICK t \in Tags : TRUE
      BY DEF Tags
    <3> QED  BY <2>2, <2>4, <3>1, <3>2, TellingKeeps DEF SessionSpeaks
  <2>5. ASSUME NEW x \in Skeletons, SkeletonHears(x)
        PROVE  skeleton'[s].verdict = skeleton[s].verdict
    <3> DEFINE told == [skeleton[x] EXCEPT !.tick = TRUE]
    <3>1. told \in SkeletonType /\ told.verdict = skeleton[x].verdict
      BY <2>1 DEF SkeletonType
    <3>2. CASE x = s
      <4>1. MaybeEvaluate(told).verdict = skeleton[s].verdict /\ ~Evaluates(told)
        BY <3>1, <3>2, EvaluationKeeps DEF Evaluates
      <4> QED  BY <2>1, <2>5, <3>2, <4>1 DEF SkeletonHears
    <3>3. CASE x # s
      BY <2>1, <2>5, <3>3 DEF SkeletonHears
    <3> QED  BY <3>2, <3>3
  <2> QED
    BY <2>3, <2>4, <2>5 DEF Next, vars, Quote, RegimeUnchanged
<1> QED  BY <1>1, Inductive, PTL DEF Spec, OneVerdict

=============================================================================
