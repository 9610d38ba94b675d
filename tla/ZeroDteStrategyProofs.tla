----------------------- MODULE ZeroDteStrategyProofs -----------------------
(***************************************************************************)
(* Theorems about ZeroDteStrategy, for every set of configurations, every  *)
(* set of faults and every number of intents.                              *)
(***************************************************************************)
EXTENDS ZeroDteStrategy, TLAPS

-----------------------------------------------------------------------------
(***************************************************************************)
(* What the operators on orders do, point by point.                        *)
(***************************************************************************)

\* Submit adds one to the count of that order, makes all its lots work, and
\* touches no other order.
LEMMA SubmitEffect ==
    ASSUME TypeOK, NEW kind \in Submitted, NEW i \in Intents,
           Submit(kind, i)
    PROVE  /\ sent' \in [Submitted -> [Intents -> Nat]]
           /\ left' \in [OrderKinds -> [Intents -> Nat]]
           /\ \A k \in Submitted, j \in Intents :
                 sent'[k][j] = IF k = kind /\ j = i THEN sent[k][j] + 1
                                                    ELSE sent[k][j]
           /\ \A k \in OrderKinds, j \in Intents :
                 left'[k][j] = IF k = kind /\ j = i THEN cfg.order_qty
                                                    ELSE left[k][j]
           /\ raised' = raised
  BY DEF TypeOK, Submit, Submitted, Config

\* An attempt that was not made was neither sent nor broken off.
LEMMA NoAttempt ==
    ASSUME TypeOK, NEW kind \in {"entry", "exit"}, NEW i \in Intents
    PROVE  /\ Attempts(kind, i) \in Nat
           /\ Attempts(kind, i) = 0 => sent[kind][i] = 0 /\ <<kind, i>> \notin raised
<1>1. sent[kind][i] \in Nat
  BY DEF TypeOK, Submitted, OrderKinds
<1> QED
  BY <1>1 DEF Attempts

\* The first attempt at an entry or exit, whether the order is sent or the
\* submission breaks off, counts one and touches nothing of any other order.
LEMMA FirstAttempt ==
    ASSUME TypeOK, NEW kind \in {"entry", "exit"}, NEW i \in Intents,
           Attempts(kind, i) = 0,
           Submit(kind, i) \/ BreaksOff(kind, i)
    PROVE  /\ sent' \in [Submitted -> [Intents -> Nat]]
           /\ left' \in [OrderKinds -> [Intents -> Nat]]
           /\ raised' \subseteq {"entry", "exit"} \X Intents
           /\ \A k \in {"entry", "exit"}, j \in Intents :
                 Attempts(k, j)' = IF k = kind /\ j = i THEN 1 ELSE Attempts(k, j)
           /\ \A k \in Submitted, j \in Intents :
                 k # kind \/ j # i => sent'[k][j] = sent[k][j]
           /\ \A k \in Submitted, j \in Intents :
                 j # i => (<<k, j>> \in raised' <=> <<k, j>> \in raised)
<1>1. kind \in Submitted /\ {"entry", "exit"} \subseteq Submitted
  BY DEF Submitted, OrderKinds
<1>2. sent[kind][i] = 0 /\ <<kind, i>> \notin raised
  BY NoAttempt
<1>3. CASE Submit(kind, i)
  <2>1. /\ sent' \in [Submitted -> [Intents -> Nat]]
        /\ left' \in [OrderKinds -> [Intents -> Nat]]
        /\ raised' = raised
        /\ \A k \in Submitted, j \in Intents :
              sent'[k][j] = IF k = kind /\ j = i THEN sent[k][j] + 1 ELSE sent[k][j]
    BY <1>1, <1>3, SubmitEffect
  <2>2. sent'[kind][i] = 1
    BY <1>1, <1>2, <2>1
  <2>3. \A k \in {"entry", "exit"}, j \in Intents :
           Attempts(k, j)' = IF k = kind /\ j = i THEN 1 ELSE Attempts(k, j)
    BY <1>1, <1>2, <2>1, <2>2 DEF Attempts
  <2> QED
    BY <2>1, <2>3 DEF TypeOK
<1>4. CASE BreaksOff(kind, i)
  <2>1. sent' = sent /\ left' = left /\ raised' = raised \union {<<kind, i>>}
    BY <1>4 DEF BreaksOff
  <2>2. \A k \in {"entry", "exit"}, j \in Intents :
           Attempts(k, j)' = IF k = kind /\ j = i THEN 1 ELSE Attempts(k, j)
    BY <1>2, <2>1 DEF Attempts
  <2>3. raised' \subseteq {"entry", "exit"} \X Intents
    BY <2>1 DEF TypeOK
  <2> QED
    BY <2>1, <2>2, <2>3 DEF TypeOK
<1> QED
  BY <1>3, <1>4

\* A fill leaves a non-negative number of lots of every order.
LEMMA FillType ==
    ASSUME TypeOK, NEW kind \in OrderKinds, NEW i \in Intents,
           NEW lots \in 1..left[kind][i]
    PROVE  /\ LeftAfterFill(kind, i, lots) \in [OrderKinds -> [Intents -> Nat]]
           /\ Signed(kind, lots) \in Int
<1>1. left[kind][i] \in Nat /\ lots \in Nat /\ left[kind][i] - lots \in Nat
  BY DEF TypeOK
<1>2. left["bracket"][i] + lots \in Nat
  BY <1>1 DEF TypeOK, OrderKinds
<1>3. LeftAfterFill(kind, i, lots) \in [OrderKinds -> [Intents -> Nat]]
  BY <1>1, <1>2 DEF LeftAfterFill, TypeOK, OrderKinds
<1>4. Signed(kind, lots) \in Int
  BY <1>1 DEF Signed, OrderKinds
<1> QED
  BY <1>3, <1>4

-----------------------------------------------------------------------------
(***************************************************************************)
(* StrategyInv is inductive.                                               *)
(***************************************************************************)
Books == IntentBookkeeping /\ SubmissionsOrdered /\ Records /\ DryRunSendsNothing

bookVars == <<cfg, state, active, pending, entryPriced, spread, hedgeSubmitted,
              issued, sent, raised, verdicts>>

MarketType == /\ session \in {"none", "NORMAL", "BLACKOUT"}
              /\ regime \in {"none", "open", "blocked"}
              /\ quoteFresh \in BOOLEAN

\* Everything in the invariant but the types depends on the book variables
\* alone: a step that leaves them only has to keep the types.
LEMMA BooksUnchanged ==
    ASSUME Books, UNCHANGED bookVars
    PROVE  Books'
  BY DEF Books, bookVars, IntentBookkeeping, SubmissionsOrdered, Records,
         DryRunSendsNothing, Attempts

\* An intent whose entry was not begun was neither exited nor hedged.
LEMMA NeverEntered ==
    ASSUME TypeOK, SubmissionsOrdered, NEW i \in Intents, Attempts("entry", i) = 0
    PROVE  Attempts("exit", i) = 0 /\ sent["hedge"][i] = 0
<1>1. Attempts("exit", i) \in Nat
  BY NoAttempt
<1>2. sent["hedge"][i] \in Nat
  BY DEF TypeOK, Submitted, OrderKinds
<1> QED
  BY <1>1, <1>2 DEF SubmissionsOrdered

LEMMA InitInv == Init => StrategyInv
<1> SUFFICES ASSUME Init PROVE StrategyInv
  OBVIOUS
<1> USE DEF Init
<1>a. cfg \in Config
  BY ConfigsAssumption
<1>b. /\ state \in States /\ session \in {"none", "NORMAL", "BLACKOUT"}
      /\ regime \in {"none", "open", "blocked"} /\ issued \in 0..MaxIntents
  BY BoundAssumption DEF States
<1>d. /\ quoteFresh \in BOOLEAN /\ entryPriced \in BOOLEAN
      /\ exitSubmitted \in BOOLEAN /\ hedgeSubmitted \in BOOLEAN
  BY Zenon
<1>c. /\ left \in [OrderKinds -> [Intents -> Nat]]
      /\ position \in [Intents -> Int]
      /\ sent \in [Submitted -> [Intents -> Nat]]
      /\ raised \subseteq {"entry", "exit"} \X Intents
      /\ verdicts \in [Intents -> SUBSET Verdicts]
  OBVIOUS
<1>1. TypeOK
  BY <1>a, <1>b, <1>c, <1>d DEF TypeOK
<1>2. /\ state = "FLAT" /\ active = NoIntent /\ pending = NoIntent /\ issued = 0
      /\ \A k \in Submitted, i \in Intents : sent[k][i] = 0
      /\ \A k \in {"entry", "exit"}, i \in Intents : Attempts(k, i) = 0
      /\ raised = {}
      /\ \A i \in Intents : verdicts[i] = {}
  BY DEF Init, Attempts, Submitted, OrderKinds
<1>3. IntentBookkeeping
  BY <1>2 DEF IntentBookkeeping, OrderStates
<1>4. SubmissionsOrdered
  BY <1>2 DEF SubmissionsOrdered, Submitted, OrderKinds
<1>5. Records /\ DryRunSendsNothing
  BY <1>2 DEF Records, DryRunSendsNothing, OrderStates, NoIntent
<1> QED
  BY <1>1, <1>3, <1>4, <1>5 DEF StrategyInv

\* An intent whose entry was not begun may be submitted: directly, or on approval.
LEMMA SubmitApprovedInv ==
    ASSUME StrategyInv, NEW i \in Intents, SubmitApprovedIntent(i),
           ~cfg.dry_run, cfg' = cfg, MarketType',
           Attempts("entry", i) = 0, state \in {"FLAT", "PENDING_APPROVAL"},
           pending' = NoIntent,
           issued' \in 0..MaxIntents, issued <= issued', i = issued',
           verdicts' \in [Intents -> SUBSET Verdicts],
           \A j \in Intents : j > issued' => verdicts'[j] = verdicts[j]
    PROVE  StrategyInv'
<1> USE DEF StrategyInv, Intents, NoIntent
<1>0. UNCHANGED <<entryPriced, exitSubmitted, hedgeSubmitted, position>> /\ active' = i
  BY DEF SubmitApprovedIntent, latchVars
<1>a. sent["entry"][i] = 0
  BY NoAttempt
<1>1. CASE /\ state' = "PENDING_ENTRY"
           /\ Submit("entry", i) \/ BreaksOff("entry", i)
           /\ children' \subseteq Intents /\ spread' \in Intents \union {NoIntent}
           /\ (sent'["entry"][i] = 1 /\ ~cfg.backtest_plumbing) => spread' = i
           /\ raised' # raised => "submission_raises" \in Faults
  <2>1. /\ sent' \in [Submitted -> [Intents -> Nat]]
        /\ left' \in [OrderKinds -> [Intents -> Nat]]
        /\ raised' \subseteq {"entry", "exit"} \X Intents
        /\ \A k \in {"entry", "exit"}, j \in Intents :
              Attempts(k, j)' = IF k = "entry" /\ j = i THEN 1 ELSE Attempts(k, j)
        /\ \A k \in Submitted, j \in Intents :
              k # "entry" \/ j # i => sent'[k][j] = sent[k][j]
        /\ \A k \in Submitted, j \in Intents :
              j # i => (<<k, j>> \in raised' <=> <<k, j>> \in raised)
    BY <1>1, FirstAttempt
  <2>2. TypeOK'
    BY <1>0, <1>1, <2>1 DEF TypeOK, MarketType, States
  <2>3. \A j \in Intents : sent'["hedge"][j] = sent["hedge"][j]
    BY <2>1 DEF Submitted, OrderKinds
  <2>4. Attempts("exit", i) = 0 /\ sent["hedge"][i] = 0
    BY NeverEntered
  <2>5. SubmissionsOrdered'
    <3>1. ASSUME NEW j \in Intents
          PROVE  /\ Attempts("entry", j)' <= 1
                 /\ Attempts("exit", j)' <= Attempts("entry", j)'
                 /\ sent'["hedge"][j] <= Attempts("entry", j)'
      <4>1. Attempts("exit", j)' = Attempts("exit", j)
        BY <2>1
      <4>2. CASE j = i
        BY <2>1, <2>3, <2>4, <4>1, <4>2
      <4>3. CASE j # i
        <5>1. Attempts("entry", j)' = Attempts("entry", j)
          BY <2>1, <4>3
        <5> QED
          BY <2>3, <4>1, <5>1 DEF SubmissionsOrdered
      <4> QED
        BY <4>2, <4>3
    <3> QED
      BY <3>1 DEF SubmissionsOrdered
  <2>6. IntentBookkeeping'
    BY <1>0, <1>1, <2>1, <2>4 DEF IntentBookkeeping, OrderStates
  <2>7. ASSUME NEW j \in Intents, j > issued'
        PROVE  /\ verdicts'[j] = {}
               /\ \A k \in Submitted : sent'[k][j] = 0 /\ <<k, j>> \notin raised'
    <3>1. j > issued /\ j # i
      BY <2>7 DEF TypeOK
    <3>2. /\ verdicts[j] = {}
          /\ \A k \in Submitted : sent[k][j] = 0 /\ <<k, j>> \notin raised
      BY <3>1 DEF Records
    <3> QED
      BY <2>1, <2>7, <3>1, <3>2
  <2>8. Records'
    <3>1. pending' <= issued' /\ active' <= issued' /\ pending' = NoIntent
      BY <1>0
    <3>2. state' = "PENDING_ENTRY" /\ ~cfg'.dry_run /\ sent'["hedge"][active'] = 0
      BY <1>0, <1>1, <2>3, <2>4
    <3>3. active' = issued'
      BY <1>0
    <3>4. raised' # {} => "submission_raises" \in Faults
      BY <1>1 DEF Records
    <3> QED
      BY <2>7, <3>1, <3>2, <3>3, <3>4 DEF Records
  <2> QED
    BY <2>2, <2>5, <2>6, <2>8 DEF DryRunSendsNothing
<1>2. CASE state' = "FLAT" /\ UNCHANGED <<orderVars, children, spread>>
  <2> USE <1>2 DEF orderVars
  <2>1. TypeOK'
    BY <1>0 DEF TypeOK, MarketType, States
  <2>2. IntentBookkeeping' /\ SubmissionsOrdered'
    BY <1>0 DEF IntentBookkeeping, SubmissionsOrdered, OrderStates, Attempts
  <2>3. \A j \in Intents : j > issued' => j > issued
    BY DEF TypeOK
  <2>4. Records'
    BY <1>0, <2>3 DEF Records, TypeOK, OrderStates
  <2> QED
    BY <2>1, <2>2, <2>4 DEF DryRunSendsNothing
<1>3. CASE /\ state' = "PENDING_ENTRY" /\ Submit("entry", i)
           /\ \/ cfg.backtest_plumbing /\ UNCHANGED <<children, spread>>
              \/ ~cfg.backtest_plumbing /\ children' = children \union {i} /\ spread' = i
  <2>1. children' \subseteq Intents /\ spread' \in Intents \union {NoIntent}
    BY <1>3 DEF TypeOK
  <2>2. raised' = raised
    BY <1>3 DEF Submit
  <2> QED
    BY <1>1, <1>3, <2>1, <2>2
<1>4. CASE /\ "submission_raises" \in Faults
           /\ state' = "PENDING_ENTRY" /\ BreaksOff("entry", i)
           /\ UNCHANGED <<children, spread>>
  <2>1. children' \subseteq Intents /\ spread' \in Intents \union {NoIntent}
    BY <1>4 DEF TypeOK
  <2>2. sent'["entry"][i] = 0
    BY <1>a, <1>4 DEF BreaksOff
  <2> QED
    BY <1>1, <1>4, <2>1, <2>2
<1> QED
  BY <1>2, <1>3, <1>4 DEF SubmitApprovedIntent, SubmitEntry

\* Leaving a position begins the one exit of its intent.
LEMMA ExitInv ==
    ASSUME StrategyInv, state = "IN_POSITION", Exit(active),
           UNCHANGED <<cfg, intentVars, hedgeSubmitted, issued, verdicts,
                       children, position>>,
           exitSubmitted' \in BOOLEAN, MarketType'
    PROVE  StrategyInv'
<1> USE DEF StrategyInv, intentVars
<1>1. /\ active \in Intents /\ active # NoIntent /\ entryPriced /\ pending = NoIntent
      /\ Attempts("entry", active) = 1 /\ Attempts("exit", active) = 0
      /\ active <= issued /\ ~cfg.dry_run
  BY DEF IntentBookkeeping, Records, OrderStates, TypeOK
<1>2. Submit("exit", active) \/ BreaksOff("exit", active)
  BY DEF Exit
<1>3. /\ sent' \in [Submitted -> [Intents -> Nat]]
      /\ left' \in [OrderKinds -> [Intents -> Nat]]
      /\ raised' \subseteq {"entry", "exit"} \X Intents
      /\ \A k \in {"entry", "exit"}, j \in Intents :
            Attempts(k, j)' = IF k = "exit" /\ j = active THEN 1 ELSE Attempts(k, j)
      /\ \A k \in Submitted, j \in Intents :
            k # "exit" \/ j # active => sent'[k][j] = sent[k][j]
      /\ \A k \in Submitted, j \in Intents :
            j # active => (<<k, j>> \in raised' <=> <<k, j>> \in raised)
  BY <1>1, <1>2, FirstAttempt
<1>4. \A j \in Intents : /\ sent'["hedge"][j] = sent["hedge"][j]
                         /\ sent'["entry"][j] = sent["entry"][j]
  BY <1>3 DEF Submitted, OrderKinds
<1>a. state' \in {"EXITING", "FLAT"}
  BY DEF Exit
<1>5. TypeOK'
  BY <1>3, <1>a DEF TypeOK, MarketType, States
<1>6. IntentBookkeeping' /\ DryRunSendsNothing'
  BY <1>1, <1>3, <1>4, <1>a DEF IntentBookkeeping, DryRunSendsNothing, OrderStates
<1>7. SubmissionsOrdered'
  BY <1>1, <1>3, <1>4 DEF SubmissionsOrdered
<1>8. ASSUME NEW j \in Intents, j > issued'
      PROVE  /\ verdicts'[j] = {}
             /\ \A k \in Submitted : sent'[k][j] = 0 /\ <<k, j>> \notin raised'
  <2>1. j > issued /\ j # active
    BY <1>1, <1>8 DEF Intents, TypeOK
  <2>2. /\ verdicts[j] = {}
        /\ \A k \in Submitted : sent[k][j] = 0 /\ <<k, j>> \notin raised
    BY <2>1 DEF Records
  <2> QED
    BY <1>3, <2>1, <2>2
\* Only an entry that broke off leaves an intent in a position without a spread.
<1>9. raised' # {} => "submission_raises" \in Faults
  <2>1. CASE Submit("exit", active) \/ "submission_raises" \in Faults
    BY <2>1 DEF Submit, Records
  <2>2. CASE sent["entry"][active] = 0
    <3>1. <<"entry", active>> \in raised
      BY <1>1, <2>2 DEF Attempts
    <3> QED
      BY <3>1 DEF Records
  <2> QED
    BY <2>1, <2>2 DEF Exit
<1>10. Records'
  BY <1>1, <1>8, <1>9, <1>a DEF Records, OrderStates
<1> QED
  BY <1>5, <1>6, <1>7, <1>10

\* The pipeline run in FLAT: a rejection, an exception, or an admission.
LEMMA EvaluationInv ==
    ASSUME StrategyInv, state = "FLAT", NEW fresh, BeginEvaluation(fresh),
           UNCHANGED <<cfg, verdicts>>, MarketType'
    PROVE  StrategyInv'
<1> USE DEF StrategyInv
<1>0. pending = NoIntent
  BY DEF IntentBookkeeping
<1>1. CASE UNCHANGED <<strategyVars, issued, sent, raised, venueVars>>
  <2>1. UNCHANGED bookVars
    BY <1>1 DEF bookVars, strategyVars, intentVars, latchVars
  <2>2. TypeOK'
    BY <1>1 DEF TypeOK, MarketType, strategyVars, intentVars, latchVars, venueVars
  <2> QED
    BY <2>1, <2>2, BooksUnchanged DEF Books
<1>2. CASE /\ state' = "EVALUATING"
           /\ UNCHANGED <<intentVars, latchVars, issued, sent, raised, venueVars>>
  <2>1. TypeOK'
    BY <1>2 DEF TypeOK, MarketType, intentVars, latchVars, venueVars, States
  <2>2. IntentBookkeeping' /\ SubmissionsOrdered' /\ DryRunSendsNothing'
    BY <1>0, <1>2 DEF IntentBookkeeping, SubmissionsOrdered, DryRunSendsNothing,
                      OrderStates, intentVars, Attempts
  <2>3. Records'
    BY <1>2 DEF Records, OrderStates, intentVars, latchVars
  <2> QED
    BY <2>1, <2>2, <2>3
<1>3. CASE issued < MaxIntents /\ issued' = issued + 1 /\ Admit(issued + 1)
  <2> DEFINE i == issued + 1
  <2>1. i \in Intents /\ i > issued /\ issued' \in 0..MaxIntents /\ i # NoIntent
    BY <1>3, BoundAssumption DEF TypeOK, Intents, NoIntent
  <2>2. /\ verdicts[i] = {}
        /\ \A k \in Submitted : sent[k][i] = 0 /\ <<k, i>> \notin raised
    BY <2>1 DEF Records
  <2>3. \A j \in Intents : j > issued' => j > issued
    BY <1>3 DEF TypeOK, Intents
  <2>4. \A j \in Intents \union {NoIntent} : j <= issued => j <= issued'
    BY <1>3 DEF TypeOK, Intents, NoIntent
  <2>a. Attempts("entry", i) = 0
    BY <2>2 DEF Attempts, Submitted, OrderKinds
  <2> HIDE DEF i
  <2>5. CASE cfg.dry_run /\ UNCHANGED <<strategyVars, sent, raised, venueVars>>
    <3>1. TypeOK'
      BY <2>1, <2>5 DEF TypeOK, MarketType, strategyVars, intentVars, latchVars, venueVars
    <3>2. IntentBookkeeping' /\ SubmissionsOrdered' /\ DryRunSendsNothing'
      BY <2>5 DEF IntentBookkeeping, SubmissionsOrdered, DryRunSendsNothing,
                  strategyVars, intentVars, Attempts
    <3>3. Records'
      BY <2>3, <2>4, <2>5 DEF Records, TypeOK, strategyVars, intentVars, latchVars
    <3> QED
      BY <3>1, <3>2, <3>3
  <2>6. CASE ~cfg.dry_run /\ cfg.selector_enabled /\ QueueForSelector(i)
    <3> USE <2>6 DEF QueueForSelector, latchVars, venueVars
    <3>1. TypeOK'
      BY <2>1 DEF TypeOK, MarketType, States
    <3>2. IntentBookkeeping' /\ SubmissionsOrdered' /\ DryRunSendsNothing'
      BY <2>1, <2>a DEF IntentBookkeeping, SubmissionsOrdered, DryRunSendsNothing, OrderStates,
                        Attempts
    <3>3. i = issued' /\ i <= issued'
      BY <1>3 DEF i, TypeOK
    <3>4. Records'
      BY <2>2, <2>3, <2>4, <3>3 DEF Records, TypeOK, OrderStates
    <3> QED
      BY <3>1, <3>2, <3>4
  <2>7. CASE ~cfg.dry_run /\ SubmitApprovedIntent(i) /\ UNCHANGED pending
    <3>1. i = issued' /\ issued <= issued'
      BY <1>3 DEF i, TypeOK
    <3>2. verdicts' \in [Intents -> SUBSET Verdicts]
      BY DEF TypeOK
    <3> QED
      BY <1>0, <2>1, <2>a, <2>7, <3>1, <3>2, SubmitApprovedInv
  <2> QED
    BY <1>3, <2>5, <2>6, <2>7 DEF Admit, i
<1> QED
  BY <1>1, <1>2, <1>3 DEF BeginEvaluation

\* An exit, a flatten that does nothing, or a trigger that does not fire.
LEMMA ManageInv ==
    ASSUME StrategyInv, ManagePosition, UNCHANGED <<cfg, verdicts>>, MarketType'
    PROVE  StrategyInv'
<1> USE DEF ManagePosition, intentVars
<1>0. exitSubmitted' \in BOOLEAN
  BY Zenon DEF StrategyInv, TypeOK, CheckExitTriggers
<1>1. CASE Exit(active)
  BY <1>0, <1>1, ExitInv
<1>2. CASE UNCHANGED <<state, orderVars>>
  <2>1. UNCHANGED bookVars
    BY <1>2 DEF bookVars, orderVars
  <2>2. TypeOK'
    BY <1>0, <1>2 DEF StrategyInv, TypeOK, MarketType, orderVars
  <2> QED
    BY <2>1, <2>2, BooksUnchanged DEF Books, StrategyInv
<1> QED
  BY <1>1, <1>2 DEF FlattenPositions, CheckExitTriggers

\* A fill moves PENDING_ENTRY to IN_POSITION and EXITING to FLAT.
LEMMA FilledInv ==
    ASSUME StrategyInv, NEW kind \in OrderKinds, NEW i \in Intents, Filled(kind, i)
    PROVE  StrategyInv'
<1> USE DEF StrategyInv, observerVars, marketVars, latchVars
<1>1. PICK lots \in 1..left[kind][i] :
         /\ left' = LeftAfterFill(kind, i, lots)
         /\ position' = [position EXCEPT ![i] = @ + Signed(kind, lots)]
  BY DEF Filled
<1>2. left' \in [OrderKinds -> [Intents -> Nat]] /\ position' \in [Intents -> Int]
  BY <1>1, FillType DEF TypeOK
<1>3. UNCHANGED <<cfg, pending, exitSubmitted, hedgeSubmitted, session, regime,
                  quoteFresh, spread, children, issued, sent, raised, verdicts>>
      /\ OnOrderFilled
  BY DEF Filled
<1>4. CASE state = "PENDING_ENTRY" /\ state' = "IN_POSITION" /\ entryPriced' = TRUE
           /\ UNCHANGED active
  <2>1. TypeOK'
    BY <1>2, <1>3, <1>4 DEF TypeOK, States
  <2>2. IntentBookkeeping' /\ SubmissionsOrdered' /\ DryRunSendsNothing'
    BY <1>3, <1>4 DEF IntentBookkeeping, SubmissionsOrdered, DryRunSendsNothing,
                      OrderStates, Attempts
  <2>3. Records'
    BY <1>3, <1>4 DEF Records, OrderStates
  <2> QED
    BY <2>1, <2>2, <2>3
<1>5. CASE state = "EXITING" /\ state' = "FLAT" /\ entryPriced' = FALSE
           /\ active' = NoIntent
  <2>1. TypeOK'
    BY <1>2, <1>3, <1>5 DEF TypeOK, States
  <2>2. IntentBookkeeping' /\ SubmissionsOrdered' /\ DryRunSendsNothing'
    BY <1>3, <1>5 DEF IntentBookkeeping, SubmissionsOrdered, DryRunSendsNothing,
                      OrderStates, Attempts
  <2>3. Records'
    BY <1>3, <1>5 DEF Records, OrderStates, TypeOK, NoIntent
  <2> QED
    BY <2>1, <2>2, <2>3
<1>6. CASE UNCHANGED <<state, entryPriced, active>>
  <2>1. TypeOK' /\ UNCHANGED bookVars
    BY <1>2, <1>3, <1>6 DEF TypeOK, bookVars
  <2> QED
    BY <2>1, BooksUnchanged DEF Books
<1> QED
  BY <1>3, <1>4, <1>5, <1>6 DEF OnOrderFilled

\* A refusal of any order moves PENDING_ENTRY to FLAT and nothing else.
LEMMA RefusalInv ==
    ASSUME StrategyInv, OnOrderRefused,
           UNCHANGED <<cfg, pending, entryPriced, spread, latchVars, marketVars,
                       position, observerVars>>,
           left' \in [OrderKinds -> [Intents -> Nat]], children' \subseteq Intents
    PROVE  StrategyInv'
<1> USE DEF StrategyInv, observerVars, marketVars, latchVars
<1>1. CASE state = "PENDING_ENTRY" /\ state' = "FLAT" /\ active' = NoIntent
  <2>1. TypeOK'
    BY <1>1 DEF TypeOK, States
  <2>2. IntentBookkeeping' /\ SubmissionsOrdered' /\ DryRunSendsNothing'
    BY <1>1 DEF IntentBookkeeping, SubmissionsOrdered, DryRunSendsNothing,
                OrderStates, Attempts
  <2>3. Records'
    BY <1>1 DEF Records, OrderStates, TypeOK, NoIntent
  <2> QED
    BY <2>1, <2>2, <2>3
<1>2. CASE UNCHANGED <<state, active>>
  <2>1. TypeOK' /\ UNCHANGED bookVars
    BY <1>2 DEF TypeOK, bookVars
  <2> QED
    BY <2>1, BooksUnchanged DEF Books
<1> QED
  BY <1>1, <1>2 DEF OnOrderRefused

\* Every step of the environment's answers keeps the invariant.
LEMMA VenueInv == ASSUME StrategyInv, VenueStep PROVE StrategyInv'
<1> USE DEF StrategyInv
<1>1. ASSUME NEW i \in Intents, NEW kind \in OrderKinds, Filled(kind, i)
      PROVE  StrategyInv'
  BY <1>1, FilledInv
<1>2. ASSUME NEW i \in Intents, NEW kind \in OrderKinds, Refused(kind, i)
      PROVE  StrategyInv'
  <2>1. left' \in [OrderKinds -> [Intents -> Nat]] /\ children' \subseteq Intents
    BY <1>2 DEF Refused, TypeOK
  <2> QED
    BY <1>2, <2>1, RefusalInv DEF Refused
<1>3. ASSUME NEW i \in Intents, NEW kind \in OrderKinds, Cancelled(kind, i)
      PROVE  StrategyInv'
  <2>1. TypeOK' /\ UNCHANGED bookVars
    BY <1>3 DEF Cancelled, TypeOK, bookVars, strategyVars, intentVars, latchVars,
                marketVars, observerVars
  <2> QED
    BY <2>1, BooksUnchanged DEF Books
<1>4. ASSUME NEW i \in Intents, ChildRefused(i)
      PROVE  StrategyInv'
  <2>1. left' \in [OrderKinds -> [Intents -> Nat]] /\ children' \subseteq Intents
    BY <1>4 DEF ChildRefused, TypeOK
  <2> QED
    BY <1>4, <2>1, RefusalInv DEF ChildRefused
<1> QED
  BY <1>1, <1>2, <1>3, <1>4 DEF VenueStep

\* Every message of the actors keeps the invariant.
LEMMA MessageInv == ASSUME StrategyInv, MessageStep PROVE StrategyInv'
<1> USE DEF StrategyInv
<1>1. ASSUME NEW phase \in {"NORMAL", "BLACKOUT"}, OnSessionPhase(phase)
      PROVE  StrategyInv'
  <2> USE <1>1 DEF OnSessionPhase
  <2>1. MarketType' /\ exitSubmitted' \in BOOLEAN
    BY DEF MarketType, TypeOK, latchVars
  <2>2. CASE state = "IN_POSITION" /\ Exit(active)
    BY <2>1, <2>2, ExitInv DEF latchVars
  <2>3. CASE UNCHANGED <<state, orderVars>>
    <3>1. UNCHANGED bookVars
      BY <2>3 DEF bookVars, intentVars, latchVars, orderVars
    <3>2. TypeOK'
      BY <2>1, <2>3 DEF TypeOK, MarketType, intentVars, latchVars, orderVars
    <3> QED
      BY <3>1, <3>2, BooksUnchanged DEF Books
  <2> QED
    BY <2>2, <2>3 DEF FlattenPositions
<1>2. ASSUME NEW tag \in {"open", "blocked"}, OnRegimeTag(tag)
      PROVE  StrategyInv'
  <2>1. TypeOK' /\ UNCHANGED bookVars
    BY <1>2 DEF OnRegimeTag, TypeOK, bookVars, strategyVars, intentVars, latchVars,
                venueVars, observerVars
  <2> QED
    BY <2>1, BooksUnchanged DEF Books
<1>3. ASSUME NEW i \in Intents, NEW v \in Verdicts, Publish(i, v), i <= issued,
             issued' = issued
      PROVE  /\ verdicts' \in [Intents -> SUBSET Verdicts]
             /\ \A j \in Intents : j # i => verdicts'[j] = verdicts[j]
             /\ \A j \in Intents : j > issued' => verdicts'[j] = verdicts[j]
  BY <1>3 DEF Publish, TypeOK, Intents
<1>4. ASSUME NEW i \in Intents, OnIntentApproved(i)
      PROVE  StrategyInv'
  <2> USE <1>4 DEF OnIntentApproved, marketVars
  <2>1. /\ verdicts' \in [Intents -> SUBSET Verdicts]
        /\ \A j \in Intents : j # i => verdicts'[j] = verdicts[j]
        /\ \A j \in Intents : j > issued' => verdicts'[j] = verdicts[j]
    BY <1>3 DEF Verdicts
  <2>2. MarketType' /\ issued' \in 0..MaxIntents /\ issued <= issued' /\ i <= issued'
    BY DEF MarketType, TypeOK
  <2>3. CASE Awaited(i) /\ pending' = NoIntent /\ SubmitApprovedIntent(i)
    <3>1. /\ i # NoIntent /\ Attempts("entry", i) = 0 /\ ~cfg.dry_run
          /\ state = "PENDING_APPROVAL" /\ i = issued'
      BY <2>3, BoundAssumption DEF Awaited, IntentBookkeeping, Records, Intents, NoIntent
    <3> QED
      BY <2>1, <2>2, <2>3, <3>1, SubmitApprovedInv
  <2>4. CASE ~Awaited(i) /\ UNCHANGED <<strategyVars, sent, raised, venueVars>>
    <3> USE <2>4 DEF strategyVars, intentVars, latchVars, venueVars
    <3>1. TypeOK'
      BY <2>1 DEF TypeOK
    <3>2. IntentBookkeeping' /\ SubmissionsOrdered' /\ DryRunSendsNothing'
      BY DEF IntentBookkeeping, SubmissionsOrdered, DryRunSendsNothing, Attempts
    <3>3. pending # NoIntent => pending # i
      BY DEF Awaited, IntentBookkeeping
    <3>4. Records'
      BY <2>1, <3>3 DEF Records, TypeOK
    <3> QED
      BY <3>1, <3>2, <3>4
  <2> QED
    BY <2>3, <2>4
<1>5. ASSUME NEW i \in Intents, OnIntentRejected(i)
      PROVE  StrategyInv'
  <2> USE <1>5 DEF OnIntentRejected, marketVars, latchVars, venueVars
  <2>1. /\ verdicts' \in [Intents -> SUBSET Verdicts]
        /\ \A j \in Intents : j # i => verdicts'[j] = verdicts[j]
        /\ \A j \in Intents : j > issued' => verdicts'[j] = verdicts[j]
    BY <1>3 DEF Verdicts
  <2>2. CASE Awaited(i) /\ pending' = NoIntent /\ state' = "FLAT"
    <3>1. TypeOK'
      BY <2>1, <2>2 DEF TypeOK, States
    <3>2. IntentBookkeeping' /\ SubmissionsOrdered' /\ DryRunSendsNothing'
      BY <2>2 DEF IntentBookkeeping, SubmissionsOrdered, DryRunSendsNothing, OrderStates,
                  Attempts
    <3>3. Records'
      BY <2>1, <2>2 DEF Records, TypeOK, OrderStates, NoIntent
    <3> QED
      BY <3>1, <3>2, <3>3
  <2>3. CASE ~Awaited(i) /\ UNCHANGED <<state, pending>>
    <3> USE <2>3
    <3>1. TypeOK'
      BY <2>1 DEF TypeOK
    <3>2. IntentBookkeeping' /\ SubmissionsOrdered' /\ DryRunSendsNothing'
      BY DEF IntentBookkeeping, SubmissionsOrdered, DryRunSendsNothing, Attempts
    <3>3. pending # NoIntent => pending # i
      BY DEF Awaited, IntentBookkeeping
    <3>4. Records'
      BY <2>1, <3>3 DEF Records, TypeOK
    <3> QED
      BY <3>1, <3>2, <3>4
  <2> QED
    BY <2>2, <2>3
<1> QED
  BY <1>1, <1>2, <1>4, <1>5 DEF MessageStep

\* Callbacks of market data, the passing of time, and a restart.
LEMMA CallbackInv ==
    ASSUME StrategyInv, OnOptionChain \/ OnQuoteTick \/ OnOptionGreeks \/ QuoteAges \/ Restart
    PROVE  StrategyInv'
<1> USE DEF StrategyInv
<1>1. CASE OnOptionChain
  <2>1. MarketType' /\ BeginEvaluation(quoteFresh)
    BY <1>1 DEF OnOptionChain, MarketType, marketVars, TypeOK
  <2> QED
    BY <1>1, <2>1, EvaluationInv DEF OnOptionChain
<1>2. CASE OnQuoteTick
  <2>1. MarketType'
    <3>1. quoteFresh' \in BOOLEAN
      BY <1>2, Zenon DEF OnQuoteTick
    <3> QED
      BY <1>2, <3>1 DEF OnQuoteTick, MarketType, TypeOK
  <2>2. CASE ManagePosition
    BY <1>2, <2>1, <2>2, ManageInv DEF OnQuoteTick
  <2>3. CASE state = "FLAT" /\ BeginEvaluation(TRUE)
    BY <1>2, <2>1, <2>3, EvaluationInv DEF OnQuoteTick
  <2>4. CASE UNCHANGED <<strategyVars, issued, sent, raised, venueVars>>
    <3>1. TypeOK' /\ UNCHANGED bookVars
      BY <1>2, <2>1, <2>4 DEF OnQuoteTick, TypeOK, MarketType, bookVars, strategyVars,
                              intentVars, latchVars, venueVars
    <3> QED
      BY <3>1, BooksUnchanged DEF Books
  <2> QED
    BY <1>2, <2>2, <2>3, <2>4 DEF OnQuoteTick
<1>3. CASE OnOptionGreeks
  <2> USE <1>3 DEF OnOptionGreeks, intentVars, marketVars
  <2>1. /\ active \in Intents /\ active # NoIntent /\ active <= issued
        /\ Attempts("entry", active) = 1 /\ sent["hedge"][active] = 0 /\ ~cfg.dry_run
    BY DEF IntentBookkeeping, Records, OrderStates, TypeOK
  <2>2. hedgeSubmitted' \in BOOLEAN
    BY Zenon
  <2>3. CASE Submit("hedge", active)
    <3>1. /\ sent' \in [Submitted -> [Intents -> Nat]]
          /\ left' \in [OrderKinds -> [Intents -> Nat]]
          /\ raised' = raised
          /\ \A k \in Submitted, j \in Intents :
                sent'[k][j] = IF k = "hedge" /\ j = active THEN sent[k][j] + 1
                                                          ELSE sent[k][j]
      BY <2>1, <2>3, SubmitEffect DEF Submitted, OrderKinds
    <3>2. {"entry", "exit", "hedge"} \subseteq Submitted
      BY DEF Submitted, OrderKinds
    <3>3. \A j \in Intents : /\ Attempts("entry", j)' = Attempts("entry", j)
                             /\ Attempts("exit", j)' = Attempts("exit", j)
                             /\ sent'["entry"][j] = sent["entry"][j]
                             /\ sent'["hedge"][j] = IF j = active THEN 1 ELSE sent["hedge"][j]
      BY <2>1, <3>1, <3>2 DEF Attempts
    <3>4. TypeOK'
      BY <2>2, <3>1 DEF TypeOK
    <3>5. IntentBookkeeping' /\ DryRunSendsNothing'
      BY <2>1, <3>3 DEF IntentBookkeeping, DryRunSendsNothing, OrderStates, TypeOK
    <3>6. SubmissionsOrdered'
      BY <2>1, <3>3 DEF SubmissionsOrdered
    <3>7. ASSUME NEW j \in Intents, j > issued'
          PROVE  /\ verdicts'[j] = {}
                 /\ \A k \in Submitted : sent'[k][j] = 0 /\ <<k, j>> \notin raised'
      <4>1. j > issued /\ j # active
        BY <2>1, <3>7 DEF Intents, TypeOK
      <4>2. /\ verdicts[j] = {}
            /\ \A k \in Submitted : sent[k][j] = 0 /\ <<k, j>> \notin raised
        BY <4>1 DEF Records
      <4> QED
        BY <3>1, <4>1, <4>2
    <3>8. Records'
      BY <2>1, <3>1, <3>7 DEF Records
    <3> QED
      BY <3>4, <3>5, <3>6, <3>8
  <2>4. CASE UNCHANGED orderVars
    <3> USE <2>4 DEF orderVars
    <3>1. TypeOK'
      BY <2>2 DEF TypeOK
    <3>2. IntentBookkeeping' /\ SubmissionsOrdered' /\ DryRunSendsNothing'
      BY DEF IntentBookkeeping, SubmissionsOrdered, DryRunSendsNothing, Attempts
    <3>3. Records'
      BY DEF Records
    <3> QED
      BY <3>1, <3>2, <3>3
  <2> QED
    BY <2>3, <2>4
<1>4. CASE QuoteAges
  <2>0. quoteFresh' \in BOOLEAN
    BY <1>4, Zenon DEF QuoteAges
  <2>1. TypeOK' /\ UNCHANGED bookVars
    BY <1>4, <2>0 DEF QuoteAges, TypeOK, bookVars, strategyVars, intentVars, latchVars,
                venueVars, observerVars
  <2> QED
    BY <2>1, BooksUnchanged DEF Books
<1>5. CASE Restart
  <2> USE <1>5 DEF Restart, venueVars, observerVars
  <2>1. /\ quoteFresh' \in BOOLEAN /\ entryPriced' \in BOOLEAN
        /\ exitSubmitted' \in BOOLEAN /\ hedgeSubmitted' \in BOOLEAN
    BY Zenon
  <2>2. TypeOK'
    BY <2>1 DEF TypeOK, States
  <2>3. IntentBookkeeping' /\ SubmissionsOrdered' /\ DryRunSendsNothing'
    BY DEF IntentBookkeeping, SubmissionsOrdered, DryRunSendsNothing, OrderStates, Attempts
  <2>4. Records'
    BY DEF Records, OrderStates, TypeOK, NoIntent
  <2> QED
    BY <2>2, <2>3, <2>4
<1> QED
  BY <1>1, <1>2, <1>3, <1>4, <1>5

\* The bookkeeping of the strategy never comes apart, whatever the order of
\* callbacks, whatever the venue, the bus or the process manager do, and wherever
\* an entry or exit breaks off between the transition and its order.
THEOREM StrategyInvariant == Spec => []StrategyInv
<1>1. Init => StrategyInv
  BY InitInv
<1>2. StrategyInv /\ [Next]_vars => StrategyInv'
  <2> SUFFICES ASSUME StrategyInv, [Next]_vars PROVE StrategyInv'
    OBVIOUS
  <2>1. CASE Next
    BY <2>1, VenueInv, MessageInv, CallbackInv DEF Next
  <2>2. CASE UNCHANGED vars
    <3>1. TypeOK' /\ UNCHANGED bookVars
      BY <2>2 DEF vars, StrategyInv, TypeOK, bookVars, strategyVars, intentVars, latchVars,
                  marketVars, venueVars, observerVars
    <3> QED
      BY <3>1, BooksUnchanged DEF Books, StrategyInv
  <2> QED
    BY <2>1, <2>2
<1> QED
  BY <1>1, <1>2, PTL DEF Spec

\* Every variable keeps its type.
THEOREM TypeCorrect == Spec => []TypeOK
<1>1. StrategyInv => TypeOK
  BY DEF StrategyInv
<1> QED
  BY <1>1, StrategyInvariant, PTL

\* State, pending and active intent, and the entries and exits that were begun
\* agree.  Begun, not sent: a bracket that cannot be built leaves PENDING_ENTRY
\* without an order, and the theorem does not deny it.
THEOREM BookkeepingHolds == Spec => []IntentBookkeeping
<1>1. StrategyInv => IntentBookkeeping
  BY DEF StrategyInv
<1> QED
  BY <1>1, StrategyInvariant, PTL

\* No entry is begun twice, and no exit or hedge unless the entry was begun.
THEOREM AtMostOnce == Spec => []SubmissionsOrdered
<1>1. StrategyInv => SubmissionsOrdered
  BY DEF StrategyInv
<1> QED
  BY <1>1, StrategyInvariant, PTL

\* A dry run submits nothing.
THEOREM DryRunIsDry == Spec => []DryRunSendsNothing
<1>1. StrategyInv => DryRunSendsNothing
  BY DEF StrategyInv
<1> QED
  BY <1>1, StrategyInvariant, PTL

-----------------------------------------------------------------------------
(***************************************************************************)
(* Which steps enter a position.                                           *)
(***************************************************************************)

\* Submitting an exit or a hedge submits no entry.
LEMMA OtherSubmit ==
    ASSUME TypeOK, NEW kind \in {"exit", "hedge"}, NEW j \in Intents, Submit(kind, j),
           NEW i \in Intents
    PROVE  ~EntrySent(i)
<1>1. kind \in Submitted /\ "entry" \in Submitted
  BY DEF Submitted, OrderKinds
<1>2. sent'["entry"][i] = sent["entry"][i] /\ sent["entry"][i] \in Nat
  BY <1>1, SubmitEffect DEF TypeOK
<1> QED
  BY <1>2 DEF EntrySent

\* A step that leaves the submissions alone enters nothing.
LEMMA NothingSent ==
    ASSUME TypeOK, sent' = sent, NEW i \in Intents
    PROVE  ~EntrySent(i)
<1>1. sent["entry"][i] \in Nat
  BY DEF TypeOK, Submitted, OrderKinds
<1> QED
  BY <1>1 DEF EntrySent

\* Managing or flattening a position enters nothing.
LEMMA ManagementEntersNothing ==
    ASSUME StrategyInv, state = "IN_POSITION", NEW i \in Intents,
           \/ FlattenPositions
           \/ CheckExitTriggers
    PROVE  ~EntrySent(i)
<1>1. active \in Intents /\ TypeOK
  BY DEF StrategyInv, IntentBookkeeping, TypeOK, OrderStates
<1>2. CASE sent' = sent
  BY <1>1, <1>2, NothingSent
<1>3. CASE Submit("exit", active)
  BY <1>1, <1>3, OtherSubmit
<1> QED
  BY <1>2, <1>3 DEF FlattenPositions, CheckExitTriggers, Exit, BreaksOff, orderVars

\* An evaluation enters a position only past the gates and without a selector.
LEMMA EvaluationEnters ==
    ASSUME StrategyInv, NEW fresh, BeginEvaluation(fresh),
           NEW i \in Intents, EntrySent(i)
    PROVE  ~cfg.selector_enabled /\ GatesPass(fresh)
<1>1. CASE sent' = sent
  BY <1>1, NothingSent DEF StrategyInv
<1>2. CASE GatesPass(fresh) /\ Admit(issued + 1)
  BY <1>1, <1>2 DEF Admit, QueueForSelector
<1> QED
  BY <1>1, <1>2 DEF BeginEvaluation

EntersDirectly == /\ ~cfg.selector_enabled
                  /\ session = "NORMAL" /\ regime = "open" /\ quoteFresh'

EntersOnVerdict(i) == cfg.selector_enabled /\ Awaited(i) /\ Publish(i, "approved")

\* Every entry is one of these two.
LEMMA EntryStep ==
    ASSUME StrategyInv, Next, NEW i \in Intents, EntrySent(i)
    PROVE  EntersDirectly \/ EntersOnVerdict(i)
<1>0. TypeOK
  BY DEF StrategyInv
<1>1. sent' # sent
  BY <1>0, NothingSent
<1>2. CASE OnOptionChain
  BY <1>2, EvaluationEnters DEF OnOptionChain, GatesPass, EntersDirectly, marketVars
<1>3. CASE OnQuoteTick
  <2>1. CASE ManagePosition
    BY <2>1, ManagementEntersNothing DEF ManagePosition
  <2>2. CASE BeginEvaluation(TRUE)
    BY <1>3, <2>2, EvaluationEnters DEF OnQuoteTick, GatesPass, EntersDirectly
  <2> QED
    BY <1>1, <1>3, <2>1, <2>2 DEF OnQuoteTick
<1>4. CASE OnOptionGreeks
  <2>1. active \in Intents /\ Submit("hedge", active)
    BY <1>1, <1>4 DEF OnOptionGreeks, StrategyInv, IntentBookkeeping, OrderStates, TypeOK,
                      orderVars
  <2> QED
    BY <1>0, <2>1, OtherSubmit
<1>5. CASE MessageStep
  <2>1. ASSUME NEW phase \in {"NORMAL", "BLACKOUT"}, OnSessionPhase(phase)
        PROVE  FALSE
    <3>1. state = "IN_POSITION" /\ FlattenPositions
      BY <1>1, <2>1 DEF OnSessionPhase, FlattenPositions, orderVars
    <3> QED
      BY <3>1, ManagementEntersNothing
  <2>2. ASSUME NEW tag \in {"open", "blocked"}, OnRegimeTag(tag)
        PROVE  FALSE
    BY <1>1, <2>2 DEF OnRegimeTag, observerVars
  <2>3. ASSUME NEW j \in Intents, OnIntentRejected(j)
        PROVE  FALSE
    BY <1>1, <2>3 DEF OnIntentRejected
  <2>4. ASSUME NEW j \in Intents, OnIntentApproved(j)
        PROVE  EntersOnVerdict(i)
    <3>1. Awaited(j) /\ SubmitApprovedIntent(j) /\ Publish(j, "approved")
          /\ cfg.selector_enabled
      BY <1>1, <2>4 DEF OnIntentApproved
    <3>2. Submit("entry", j)
      BY <1>1, <3>1 DEF SubmitApprovedIntent, SubmitEntry, BreaksOff, orderVars
    <3>3. ASSUME i # j PROVE FALSE
      <4>1. "entry" \in Submitted
        BY DEF Submitted, OrderKinds
      <4>2. sent'["entry"][i] = sent["entry"][i] /\ sent["entry"][i] \in Nat
        BY <1>0, <3>2, <3>3, <4>1, SubmitEffect DEF TypeOK
      <4> QED
        BY <4>2 DEF EntrySent
    <3> QED
      BY <3>1, <3>3 DEF EntersOnVerdict
  <2> QED
    BY <1>5, <2>1, <2>2, <2>3, <2>4 DEF MessageStep
<1>6. CASE VenueStep \/ QuoteAges \/ Restart
  BY <1>1, <1>6 DEF VenueStep, Filled, Refused, Cancelled, ChildRefused, QuoteAges,
                    Restart, observerVars
<1> QED
  BY <1>2, <1>3, <1>4, <1>5, <1>6 DEF Next

\* Only the first verdict on an intent, and only an approval, enters it.
THEOREM OnlyFirstVerdictEnters == Spec => FirstVerdictWins
<1>1. ASSUME StrategyInv, Next, NEW i \in Intents, cfg.selector_enabled, EntrySent(i)
      PROVE  verdicts[i] = {} /\ verdicts'[i] = {"approved"}
  <2>1. Awaited(i) /\ Publish(i, "approved")
    BY <1>1, EntryStep DEF EntersDirectly, EntersOnVerdict
  <2>2. i # NoIntent
    BY DEF Intents, NoIntent
  <2>3. verdicts[i] = {}
    BY <1>1, <2>1, <2>2 DEF Awaited, StrategyInv, Records
  <2>4. verdicts'[i] = {"approved"}
    BY <1>1, <2>1, <2>3 DEF Publish, StrategyInv, TypeOK
  <2> QED
    BY <2>3, <2>4
<1>2. StrategyInv /\ [Next]_vars =>
        [\A i \in Intents : cfg.selector_enabled /\ EntrySent(i) =>
            verdicts[i] = {} /\ verdicts'[i] = {"approved"}]_vars
  BY <1>1
<1> QED
  BY <1>2, StrategyInvariant, PTL DEF Spec, FirstVerdictWins

\* Without a selector every entry has the gates behind it.
THEOREM DirectEntriesGated == Spec => DirectEntryInSession
<1>1. StrategyInv /\ [Next]_vars =>
        [\A i \in Intents : ~cfg.selector_enabled /\ EntrySent(i) =>
            /\ session = "NORMAL" /\ regime = "open"
            /\ quoteFresh']_vars
  BY EntryStep DEF EntersDirectly, EntersOnVerdict
<1> QED
  BY <1>1, StrategyInvariant, PTL DEF Spec, DirectEntryInSession

-----------------------------------------------------------------------------
(***************************************************************************)
(* The refinement: every callback begins one intent, moves the latest one  *)
(* or leaves the life of every intent alone.                               *)
(***************************************************************************)
Mode == IF cfg.dry_run THEN "dry"
        ELSE IF cfg.selector_enabled THEN "gated" ELSE "direct"

\* The stage of an intent depends on the pending intent and what was begun.
LEMMA StageStays ==
    ASSUME UNCHANGED <<issued, pending>>, NEW i \in Intents,
           Attempts("entry", i)' = Attempts("entry", i),
           Attempts("exit", i)' = Attempts("exit", i)
    PROVE  Stage(i)' = Stage(i)
  BY DEF Stage

LEMMA AttemptsStay ==
    ASSUME UNCHANGED <<sent, raised>>
    PROVE  \A k \in {"entry", "exit"}, i \in Intents : Attempts(k, i)' = Attempts(k, i)
  BY DEF Attempts

LEMMA LifeStays ==
    ASSUME UNCHANGED <<cfg, issued>>, \A i \in Intents : Stage(i)' = Stage(i)
    PROVE  UNCHANGED Life!vars
  BY DEF Life!vars

LEMMA LifeMoves ==
    ASSUME UNCHANGED <<cfg, issued>>, issued \in Intents,
           NEW from, NEW to, Stage(issued) = from, Stage(issued)' = to,
           \A i \in Intents \ {issued} : Stage(i)' = Stage(i)
    PROVE  Life!Move(issued, from, to)
  BY DEF Life!Move

LEMMA LifeBegins ==
    ASSUME StrategyInv, cfg' = cfg, pending = NoIntent,
           NEW i \in Intents, i = issued + 1, issued' = i,
           Stage(i)' \in IF Mode = "dry" THEN {"dropped"}
                         ELSE IF Mode = "gated" THEN {"asked"}
                         ELSE {"entered", "dropped"},
           \A j \in Intents \ {i} : Stage(j)' = Stage(j)
    PROVE  Life!Begin(i)
<1>1. \A j \in Intents : Stage(j) # "asked"
  BY DEF Stage, Intents, NoIntent
<1>2. PICK stage : stage = Stage(i)'
  OBVIOUS
<1>3. stage \in Life!FirstStages
  BY <1>2, Zenon DEF Life!FirstStages, Mode
<1>4. [j \in Intents |-> Stage(j)]' = [[j \in Intents |-> Stage(j)] EXCEPT ![i] = stage]
  BY <1>2
<1>5. UNCHANGED Mode
  BY DEF Mode
<1> QED
  BY <1>1, <1>3, <1>4, <1>5 DEF Life!Begin, Mode

\* An entry that is begun, or fails for want of the instrument.
LEMMA EntryStages ==
    ASSUME StrategyInv, NEW i \in Intents, SubmitApprovedIntent(i),
           pending' = NoIntent, i = issued', Attempts("entry", i) = 0
    PROVE  /\ Stage(i)' \in {"entered", "dropped"}
           /\ \A j \in Intents \ {i} : /\ Attempts("entry", j)' = Attempts("entry", j)
                                       /\ Attempts("exit", j)' = Attempts("exit", j)
<1> USE DEF StrategyInv
<1>2. Attempts("exit", i) = 0
  BY NeverEntered
<1>3. i # NoIntent /\ ~(i > issued')
  BY DEF Intents, NoIntent
<1>4. CASE Submit("entry", i) \/ BreaksOff("entry", i)
  <2>1. \A j \in Intents :
           /\ Attempts("entry", j)' = IF j = i THEN 1 ELSE Attempts("entry", j)
           /\ Attempts("exit", j)' = Attempts("exit", j)
    BY <1>4, FirstAttempt
  <2> QED
    BY <1>2, <1>3, <2>1 DEF Stage
<1>5. CASE UNCHANGED <<sent, raised>>
  BY <1>2, <1>3, <1>5, AttemptsStay DEF Stage
<1> QED
  BY <1>4, <1>5 DEF SubmitApprovedIntent, SubmitEntry, orderVars

LEMMA EvaluationLife ==
    ASSUME StrategyInv, state = "FLAT", NEW fresh, BeginEvaluation(fresh), cfg' = cfg
    PROVE  Life!Next \/ UNCHANGED Life!vars
<1> USE DEF StrategyInv
<1>0. pending = NoIntent
  BY DEF IntentBookkeeping
<1>1. CASE UNCHANGED <<issued, pending, sent, raised>>
  BY <1>1, AttemptsStay, StageStays, LifeStays
<1>2. CASE issued < MaxIntents /\ issued' = issued + 1 /\ Admit(issued + 1)
  <2>1. PICK i \in Intents : i = issued + 1
    BY <1>2, BoundAssumption DEF TypeOK, Intents
  <2>2. /\ i > issued /\ i # NoIntent /\ issued' = i /\ ~(i > issued')
        /\ \A j \in Intents : j # NoIntent /\ (j # i => (j > issued' <=> j > issued))
    BY <1>2, <2>1 DEF TypeOK, Intents, NoIntent
  <2>3. Attempts("entry", i) = 0 /\ Attempts("exit", i) = 0
    BY <2>2 DEF Records, Submitted, OrderKinds, Attempts
  <2>4. /\ Stage(i)' \in IF Mode = "dry" THEN {"dropped"}
                         ELSE IF Mode = "gated" THEN {"asked"}
                         ELSE {"entered", "dropped"}
        /\ \A j \in Intents \ {i} : Stage(j)' = Stage(j)
    <3>1. CASE cfg.dry_run /\ UNCHANGED <<pending, sent, raised>>
      BY <1>0, <2>2, <2>3, <3>1, AttemptsStay DEF Stage, Mode
    <3>2. CASE ~cfg.dry_run /\ cfg.selector_enabled /\ QueueForSelector(i)
      <4>1. pending' = i /\ UNCHANGED <<sent, raised>>
        BY <3>2 DEF QueueForSelector
      <4>2. Stage(i)' = "asked" /\ Mode = "gated"
        BY <2>2, <3>2, <4>1 DEF Stage, Mode
      <4>3. \A j \in Intents \ {i} : Stage(j)' = Stage(j)
        BY <1>0, <2>2, <4>1, AttemptsStay DEF Stage
      <4> QED
        BY <4>2, <4>3
    <3>3. CASE ~cfg.dry_run /\ ~cfg.selector_enabled
               /\ SubmitApprovedIntent(i) /\ UNCHANGED pending
      <4>1. /\ Stage(i)' \in {"entered", "dropped"}
            /\ \A j \in Intents \ {i} : /\ Attempts("entry", j)' = Attempts("entry", j)
                                        /\ Attempts("exit", j)' = Attempts("exit", j)
        BY <1>0, <2>2, <2>3, <3>3, EntryStages
      <4>2. \A j \in Intents \ {i} : Stage(j)' = Stage(j)
        BY <1>0, <2>2, <3>3, <4>1 DEF Stage
      <4> QED
        BY <3>3, <4>1, <4>2 DEF Mode
    <3> QED
      BY <1>2, <2>1, <3>1, <3>2, <3>3 DEF Admit, strategyVars, intentVars
  <2>5. Life!Begin(i)
    BY <1>0, <2>1, <2>2, <2>4, LifeBegins
  <2> QED
    BY <2>5 DEF Life!Next
<1> QED
  BY <1>1, <1>2 DEF BeginEvaluation, strategyVars, intentVars

LEMMA ExitLife ==
    ASSUME StrategyInv, state = "IN_POSITION", UNCHANGED <<cfg, issued, pending>>,
           FlattenPositions \/ CheckExitTriggers
    PROVE  Life!Next \/ UNCHANGED Life!vars
<1> USE DEF StrategyInv
<1>1. CASE UNCHANGED <<sent, raised>>
  BY <1>1, AttemptsStay, StageStays, LifeStays
<1>2. CASE Submit("exit", active) \/ BreaksOff("exit", active)
  <2>1. /\ active = issued /\ issued \in Intents /\ pending = NoIntent
        /\ Attempts("entry", issued) = 1 /\ Attempts("exit", issued) = 0
    BY DEF IntentBookkeeping, Records, OrderStates, TypeOK
  <2>2. \A j \in Intents :
           /\ Attempts("entry", j)' = Attempts("entry", j)
           /\ Attempts("exit", j)' = IF j = issued THEN 1 ELSE Attempts("exit", j)
    BY <1>2, <2>1, FirstAttempt
  <2>3. issued # NoIntent /\ ~(issued > issued)
    BY <2>1 DEF Intents, NoIntent
  <2>4. Stage(issued) = "entered"
    BY <2>1, <2>3 DEF Stage
  <2>5. Stage(issued)' = "exited"
    BY <2>1, <2>2, <2>3 DEF Stage
  <2>6. \A j \in Intents \ {issued} : Stage(j)' = Stage(j)
    BY <2>2 DEF Stage
  <2>7. Life!Move(issued, "entered", "exited")
    BY <2>1, <2>4, <2>5, <2>6, LifeMoves
  <2>8. PICK i \in Intents : i = issued
    BY <2>1
  <2> QED
    BY <2>7, <2>8 DEF Life!Next
<1> QED
  BY <1>1, <1>2 DEF FlattenPositions, CheckExitTriggers, Exit, orderVars

\* An answer, or a restart, that ends the wait of the pending intent.
LEMMA AnswerLife ==
    ASSUME StrategyInv, pending # NoIntent, pending' = NoIntent,
           UNCHANGED <<cfg, issued>>,
           UNCHANGED <<sent, raised>> \/ SubmitApprovedIntent(pending)
    PROVE  Life!Next
<1> USE DEF StrategyInv
<1>1. PICK i \in Intents : i = pending
  BY DEF TypeOK
<1>2. i = issued /\ i = issued' /\ Attempts("entry", i) = 0 /\ ~(i > issued) /\ i # NoIntent
  BY <1>1 DEF Records, IntentBookkeeping, Intents
<1>3. Stage(i) = "asked"
  BY <1>1, <1>2 DEF Stage
<1>4. /\ Stage(i)' \in {"entered", "dropped"}
      /\ \A j \in Intents \ {i} : /\ Attempts("entry", j)' = Attempts("entry", j)
                                  /\ Attempts("exit", j)' = Attempts("exit", j)
  <2>1. CASE UNCHANGED <<sent, raised>>
    <3>1. Attempts("exit", i) = 0
      BY <1>2, NeverEntered
    <3> QED
      BY <1>2, <2>1, <3>1, AttemptsStay DEF Stage
  <2>2. CASE SubmitApprovedIntent(i)
    BY <1>2, <2>2, EntryStages
  <2> QED
    BY <1>1, <2>1, <2>2
<1>5. \A j \in Intents \ {i} : Stage(j)' = Stage(j)
  <2>1. \A j \in Intents : j # NoIntent
    BY DEF Intents, NoIntent
  <2> QED
    BY <1>1, <1>4, <2>1 DEF Stage
<1>6. Life!Move(issued, "asked", "entered") \/ Life!Move(issued, "asked", "dropped")
  BY <1>2, <1>3, <1>4, <1>5, LifeMoves
<1> QED
  BY <1>2, <1>6 DEF Life!Next

LEMMA LifeStep ==
    ASSUME StrategyInv, [Next]_vars PROVE Life!Next \/ UNCHANGED Life!vars
<1>0. TypeOK
  BY DEF StrategyInv
<1>1. CASE UNCHANGED <<cfg, issued, pending, sent, raised>>
  BY <1>1, AttemptsStay, StageStays, LifeStays
<1>2. CASE OnOptionChain
  BY <1>2, EvaluationLife DEF OnOptionChain
<1>3. CASE OnQuoteTick
  <2>1. CASE ManagePosition
    BY <1>1, <1>3, <2>1, ExitLife DEF OnQuoteTick, ManagePosition, intentVars
  <2>2. CASE state = "FLAT" /\ BeginEvaluation(TRUE)
    BY <1>3, <2>2, EvaluationLife DEF OnQuoteTick
  <2> QED
    BY <1>1, <1>3, <2>1, <2>2 DEF OnQuoteTick, strategyVars, intentVars
<1>4. CASE OnOptionGreeks
  <2>1. CASE Submit("hedge", active)
    <3>1. active \in Intents
      BY <1>4 DEF OnOptionGreeks, StrategyInv, IntentBookkeeping, OrderStates, TypeOK
    <3>2. \A j \in Intents : /\ Attempts("entry", j)' = Attempts("entry", j)
                             /\ Attempts("exit", j)' = Attempts("exit", j)
      BY <1>0, <2>1, <3>1, SubmitEffect DEF Submitted, OrderKinds, Attempts
    <3> QED
      BY <1>4, <3>2, StageStays, LifeStays DEF OnOptionGreeks, intentVars
  <2> QED
    BY <1>1, <1>4, <2>1 DEF OnOptionGreeks, intentVars, orderVars
<1>5. CASE MessageStep
  <2>1. ASSUME NEW phase \in {"NORMAL", "BLACKOUT"}, OnSessionPhase(phase)
        PROVE  Life!Next \/ UNCHANGED Life!vars
    <3>1. CASE UNCHANGED <<sent, raised>>
      BY <1>1, <2>1, <3>1 DEF OnSessionPhase, intentVars
    <3>2. CASE state = "IN_POSITION" /\ FlattenPositions
      BY <2>1, <3>2, ExitLife DEF OnSessionPhase, intentVars
    <3> QED
      BY <2>1, <3>1, <3>2 DEF OnSessionPhase, FlattenPositions, orderVars
  <2>2. ASSUME NEW tag \in {"open", "blocked"}, OnRegimeTag(tag)
        PROVE  Life!Next \/ UNCHANGED Life!vars
    BY <1>1, <2>2 DEF OnRegimeTag, observerVars, strategyVars, intentVars
  <2>3. ASSUME NEW i \in Intents, OnIntentApproved(i) \/ OnIntentRejected(i)
        PROVE  Life!Next \/ UNCHANGED Life!vars
    <3>1. CASE ~Awaited(i)
      BY <1>1, <2>3, <3>1 DEF OnIntentApproved, OnIntentRejected, strategyVars, intentVars
    <3>2. CASE Awaited(i)
      <4>1. pending = i /\ pending # NoIntent
        BY <3>2 DEF Awaited, Intents, NoIntent
      <4> QED
        BY <2>3, <3>2, <4>1, AnswerLife DEF OnIntentApproved, OnIntentRejected
    <3> QED
      BY <3>1, <3>2
  <2> QED
    BY <1>5, <2>1, <2>2, <2>3 DEF MessageStep
<1>6. CASE Restart
  <2>1. UNCHANGED <<cfg, issued, sent, raised>> /\ pending' = NoIntent
    BY <1>6 DEF Restart, observerVars
  <2> QED
    BY <1>1, <2>1, AnswerLife
<1>7. CASE VenueStep \/ QuoteAges \/ UNCHANGED vars
  BY <1>1, <1>7 DEF VenueStep, Filled, Refused, Cancelled, ChildRefused, QuoteAges,
                    vars, observerVars, strategyVars, intentVars
<1> QED
  BY <1>2, <1>3, <1>4, <1>5, <1>6, <1>7 DEF Next

\* The handlers of strategies/base.py and strategies/reference.py give every
\* intent the life IntentLife describes, for every configuration, every fault
\* and any number of intents: orders are only ever sent for the latest intent,
\* and nothing that was dropped or abandoned is taken up again.
THEOREM StrategyImplementsIntentLife == Spec => ImplementsIntentLife
<1>1. Init => Life!Init
  <2> SUFFICES ASSUME Init PROVE Life!Init
    OBVIOUS
  <2>1. \A i \in Intents : Stage(i) = "new"
    BY DEF Init, Stage, Intents
  <2> QED
    BY <2>1, Zenon DEF Life!Init, Init
<1>2. StrategyInv /\ [Next]_vars => [Life!Next]_(Life!vars)
  BY LifeStep
<1> QED
  BY <1>1, <1>2, StrategyInvariant, PTL DEF Spec, Life!Spec, ImplementsIntentLife

-----------------------------------------------------------------------------
(***************************************************************************)
(* In plumbing mode on a friendly venue the FSM state mirrors the venue.   *)
(* PositionMirrored is inductive once it is known that no bracket children *)
(* exist, and that the bookkeeping is sound.                               *)
(***************************************************************************)
Childless == PlumbingVenue => children = {}

MirrorInv == StrategyInv /\ PositionMirrored /\ Childless

\* The mirror looks at these variables alone.
LEMMA MirrorUnchanged ==
    ASSUME PositionMirrored, UNCHANGED <<cfg, state, active, left, position>>
    PROVE  PositionMirrored'
  BY DEF PositionMirrored, PlumbingVenue, NothingHeldBut, NothingWorkingBut

\* Moving between states without orders keeps the mirror.
LEMMA MirrorIdle ==
    ASSUME PositionMirrored, UNCHANGED <<cfg, left, position>>,
           state \notin OrderStates, state' \notin OrderStates
    PROVE  PositionMirrored'
  BY DEF PositionMirrored, PlumbingVenue, NothingHeldBut, NothingWorkingBut, OrderStates

\* Entering from a state without orders leaves one working entry order.
LEMMA MirrorEnter ==
    ASSUME StrategyInv, PositionMirrored, NEW i \in Intents, Submit("entry", i),
           UNCHANGED <<cfg, position>>, active' = i,
           state \notin OrderStates, state' = "PENDING_ENTRY"
    PROVE  PositionMirrored'
<1> SUFFICES ASSUME PlumbingVenue
             PROVE  PositionMirrored'
  BY DEF PositionMirrored, PlumbingVenue
<1>1. \A k \in OrderKinds, j \in Intents :
         left'[k][j] = IF k = "entry" /\ j = i THEN cfg.order_qty ELSE left[k][j]
  <2>1. TypeOK /\ "entry" \in Submitted
    BY DEF StrategyInv, Submitted, OrderKinds
  <2> QED
    BY <2>1, SubmitEffect
<1>2. /\ \A j \in Intents : position[j] = 0
      /\ \A k \in OrderKinds, j \in Intents : left[k][j] = 0
  BY DEF PositionMirrored, NothingHeldBut, NothingWorkingBut, Intents, NoIntent
<1>3. NothingHeldBut(NoIntent)' /\ NothingWorkingBut("entry", active)'
  BY <1>1, <1>2 DEF NothingHeldBut, NothingWorkingBut
<1>4. left'["entry"][active'] = cfg'.order_qty
  BY <1>1 DEF OrderKinds
<1> QED
  BY <1>3, <1>4 DEF PositionMirrored, OrderStates

\* Exiting leaves one working exit order beside the position.
LEMMA MirrorExit ==
    ASSUME StrategyInv, PositionMirrored, Submit("exit", active),
           UNCHANGED <<cfg, active, position>>,
           state = "IN_POSITION", state' = "EXITING"
    PROVE  PositionMirrored'
<1> SUFFICES ASSUME PlumbingVenue
             PROVE  PositionMirrored'
  BY DEF PositionMirrored, PlumbingVenue
<1>0. active \in Intents
  BY DEF StrategyInv, IntentBookkeeping, OrderStates, TypeOK
<1>1. \A k \in OrderKinds, j \in Intents :
         left'[k][j] = IF k = "exit" /\ j = active THEN cfg.order_qty ELSE left[k][j]
  <2>1. TypeOK /\ "exit" \in Submitted
    BY DEF StrategyInv, Submitted, OrderKinds
  <2> QED
    BY <1>0, <2>1, SubmitEffect
<1>2. /\ NothingHeldBut(active) /\ position[active] = cfg.order_qty
      /\ \A k \in OrderKinds, j \in Intents : left[k][j] = 0
  BY DEF PositionMirrored, NothingWorkingBut, Intents, NoIntent
<1>3. NothingHeldBut(active)' /\ NothingWorkingBut("exit", active)'
  BY <1>1, <1>2 DEF NothingHeldBut, NothingWorkingBut
<1>4. left'["exit"][active'] = cfg'.order_qty
  BY <1>0, <1>1 DEF OrderKinds
<1> QED
  BY <1>2, <1>3, <1>4 DEF PositionMirrored, OrderStates

\* A fill is the fill of the one order that works, in full.
LEMMA MirrorFilled ==
    ASSUME MirrorInv, NEW kind \in OrderKinds, NEW i \in Intents, Filled(kind, i)
    PROVE  PositionMirrored'
<1> USE DEF MirrorInv, StrategyInv
<1> SUFFICES ASSUME PlumbingVenue
             PROVE  PositionMirrored'
  BY DEF PositionMirrored, PlumbingVenue, Filled
<1> DEFINE qty == cfg.order_qty
<1>1. qty \in Nat \ {0}
  BY DEF TypeOK, Config
<1>2. left[kind][i] \in Nat /\ left[kind][i] # 0
  BY DEF Filled, TypeOK
<1>a. left[kind][i] # 0 => ~NothingWorkingBut("entry", NoIntent)
  BY DEF NothingWorkingBut, Intents, NoIntent
<1>3. \/ state = "PENDING_ENTRY" /\ kind = "entry" /\ i = active
      \/ state = "EXITING" /\ kind = "exit" /\ i = active
  <2>1. state \in {"PENDING_ENTRY", "EXITING"}
    BY <1>2, <1>a DEF PositionMirrored, OrderStates
  <2>2. state = "PENDING_ENTRY" => NothingWorkingBut("entry", active)
    BY DEF PositionMirrored
  <2>3. state = "EXITING" => NothingWorkingBut("exit", active)
    BY DEF PositionMirrored
  <2>4. \A k \in OrderKinds, j \in Intents :
           left[kind][i] # 0 /\ NothingWorkingBut(k, j) => kind = k /\ i = j
    BY DEF NothingWorkingBut
  <2>5. active \in Intents /\ {"entry", "exit"} \subseteq OrderKinds
    BY <2>1 DEF IntentBookkeeping, TypeOK, OrderStates, OrderKinds
  <2> QED
    BY <1>2, <2>1, <2>2, <2>3, <2>4, <2>5
<1>4. i = active /\ left[kind][i] = qty
  BY <1>3 DEF PositionMirrored
<1>5. /\ left' = [left EXCEPT ![kind][i] = 0]
      /\ position' = [position EXCEPT ![i] = @ + Signed(kind, qty)]
  <2>1. PICK lots \in 1..left[kind][i] :
           /\ "partial_fill" \notin Faults => lots = left[kind][i]
           /\ left' = LeftAfterFill(kind, i, lots)
           /\ position' = [position EXCEPT ![i] = @ + Signed(kind, lots)]
    BY DEF Filled
  <2>2. lots = qty /\ i \notin children /\ left[kind][i] - lots = 0
    BY <1>2, <1>4, <2>1 DEF PlumbingVenue, Childless
  <2>3. LeftAfterFill(kind, i, lots) = [left EXCEPT ![kind][i] = 0]
    BY <2>2 DEF LeftAfterFill
  <2> QED
    BY <2>1, <2>2, <2>3
<1>6. /\ left' \in [OrderKinds -> [Intents -> Nat]]
      /\ \A k \in OrderKinds, j \in Intents :
            left'[k][j] = IF k = kind /\ j = i THEN 0 ELSE left[k][j]
      /\ \A j \in Intents :
            position'[j] = IF j = i THEN position[i] + Signed(kind, qty) ELSE position[j]
  BY <1>5 DEF TypeOK
<1>7. \A k \in OrderKinds, j \in Intents : left'[k][j] = 0
  BY <1>3, <1>4, <1>6 DEF PositionMirrored, NothingWorkingBut
<1>8. \A j \in Intents \ {i} : position'[j] = 0
  BY <1>3, <1>4, <1>6 DEF PositionMirrored, NothingHeldBut, Intents, NoIntent
<1>9. cfg' = cfg /\ OnOrderFilled
  BY DEF Filled
<1>10. CASE state = "PENDING_ENTRY" /\ kind = "entry"
  <2>1. state' = "IN_POSITION" /\ active' = active
    BY <1>9, <1>10 DEF OnOrderFilled
  <2>2. position[i] = 0 /\ Signed(kind, qty) = qty
    BY <1>10 DEF PositionMirrored, NothingHeldBut, Signed, Intents, NoIntent
  <2>3. position'[i] = qty
    BY <1>1, <1>6, <2>2
  <2>4. NothingHeldBut(active)' /\ NothingWorkingBut("entry", NoIntent)'
    BY <1>4, <1>7, <1>8, <2>1 DEF NothingHeldBut, NothingWorkingBut
  <2> QED
    BY <1>4, <1>9, <2>1, <2>3, <2>4 DEF PositionMirrored, OrderStates
<1>11. CASE state = "EXITING" /\ kind = "exit"
  <2>1. state' = "FLAT"
    BY <1>9, <1>11 DEF OnOrderFilled
  <2>2. position[i] = qty /\ Signed(kind, qty) = -qty
    BY <1>4, <1>11 DEF PositionMirrored, Signed
  <2>3. position'[i] = 0
    BY <1>1, <1>6, <2>2
  <2>4. NothingHeldBut(NoIntent)' /\ NothingWorkingBut("entry", NoIntent)'
    BY <1>7, <1>8, <2>3 DEF NothingHeldBut, NothingWorkingBut
  <2> QED
    BY <2>1, <2>4 DEF PositionMirrored, OrderStates
<1> QED
  BY <1>3, <1>10, <1>11

\* A refusal is the refusal of the entry that works.
LEMMA MirrorRefused ==
    ASSUME MirrorInv, NEW kind \in OrderKinds, NEW i \in Intents, Refused(kind, i)
    PROVE  PositionMirrored'
<1> USE DEF MirrorInv, StrategyInv
<1> SUFFICES ASSUME PlumbingVenue
             PROVE  PositionMirrored'
  BY DEF PositionMirrored, PlumbingVenue, Refused
<1>1. kind = "entry" /\ left["entry"][i] # 0
  BY DEF Refused, PlumbingVenue, TypeOK, Config
<1>2. state = "PENDING_ENTRY" /\ i = active
  BY <1>1 DEF PositionMirrored, NothingWorkingBut, OrderStates, TypeOK, States, Intents,
             NoIntent, OrderKinds
<1>3. state' = "FLAT" /\ UNCHANGED <<cfg, position>>
      /\ left' = [left EXCEPT !["entry"][i] = 0]
  BY <1>1, <1>2 DEF Refused, OnOrderRefused
<1>4. \A k \in OrderKinds, j \in Intents : left'[k][j] = 0
  BY <1>2, <1>3 DEF PositionMirrored, NothingWorkingBut, TypeOK, OrderKinds
<1>5. NothingHeldBut(NoIntent)' /\ NothingWorkingBut("entry", NoIntent)'
  BY <1>2, <1>3, <1>4 DEF PositionMirrored, NothingHeldBut, NothingWorkingBut
<1> QED
  BY <1>3, <1>5 DEF PositionMirrored, OrderStates

\* Submitting an approved intent: an entry, or the return to FLAT.
LEMMA MirrorSubmitApproved ==
    ASSUME MirrorInv, NEW i \in Intents, SubmitApprovedIntent(i), cfg' = cfg,
           state \in {"FLAT", "PENDING_APPROVAL"}
    PROVE  PositionMirrored'
<1>1. active' = i /\ position' = position
  BY DEF SubmitApprovedIntent
<1>2. CASE state' = "PENDING_ENTRY" /\ Submit("entry", i)
  BY <1>1, <1>2, MirrorEnter DEF MirrorInv, OrderStates
<1>3. CASE state' = "FLAT" /\ UNCHANGED left
  BY <1>1, <1>3, MirrorIdle DEF MirrorInv, OrderStates
<1>4. CASE "submission_raises" \in Faults
  BY <1>4 DEF PositionMirrored, PlumbingVenue
<1> QED
  BY <1>2, <1>3, <1>4 DEF SubmitApprovedIntent, SubmitEntry, orderVars

\* The pipeline run in FLAT.
LEMMA MirrorEvaluation ==
    ASSUME MirrorInv, state = "FLAT", NEW fresh, BeginEvaluation(fresh), cfg' = cfg
    PROVE  PositionMirrored'
<1>1. CASE UNCHANGED <<strategyVars, sent, raised, venueVars>>
  BY <1>1, MirrorUnchanged DEF MirrorInv, strategyVars, intentVars, venueVars
<1>2. CASE state' = "EVALUATING" /\ UNCHANGED venueVars
  BY <1>2, MirrorIdle DEF MirrorInv, venueVars, OrderStates
<1>3. CASE issued < MaxIntents /\ Admit(issued + 1)
  <2>1. issued + 1 \in Intents
    BY <1>3, BoundAssumption DEF MirrorInv, StrategyInv, TypeOK, Intents
  <2>2. CASE QueueForSelector(issued + 1)
    BY <2>2, MirrorIdle DEF QueueForSelector, MirrorInv, venueVars, OrderStates
  <2>3. CASE SubmitApprovedIntent(issued + 1)
    BY <2>1, <2>3, MirrorSubmitApproved
  <2> QED
    BY <1>1, <1>3, <2>2, <2>3 DEF Admit
<1> QED
  BY <1>1, <1>2, <1>3 DEF BeginEvaluation

\* Managing or flattening a position.
LEMMA MirrorManagement ==
    ASSUME MirrorInv, FlattenPositions \/ CheckExitTriggers,
           state = "IN_POSITION" \/ FlattenPositions,
           UNCHANGED <<cfg, active, position>>
    PROVE  PositionMirrored'
<1>1. CASE UNCHANGED <<state, left>>
  BY <1>1, MirrorUnchanged DEF MirrorInv
<1>2. CASE state = "IN_POSITION" /\ state' = "EXITING" /\ Submit("exit", active)
  BY <1>2, MirrorExit DEF MirrorInv
<1>3. CASE "submission_raises" \in Faults
  BY <1>3 DEF PositionMirrored, PlumbingVenue
<1>4. CASE state = "IN_POSITION" /\ sent["entry"][active] = 0
  <2>1. Attempts("entry", active) = 1
    BY <1>4 DEF MirrorInv, StrategyInv, IntentBookkeeping, OrderStates
  <2>2. <<"entry", active>> \in raised
    BY <1>4, <2>1 DEF Attempts
  <2> QED
    BY <1>3, <2>2 DEF MirrorInv, StrategyInv, Records
<1> QED
  BY <1>1, <1>2, <1>3, <1>4 DEF FlattenPositions, CheckExitTriggers, Exit, orderVars

\* No step of plumbing mode creates bracket children.
LEMMA ChildlessStep == ASSUME MirrorInv, Next PROVE Childless'
<1> SUFFICES ASSUME cfg.backtest_plumbing, children = {}, cfg' = cfg
             PROVE  children' = {}
  <2>1. cfg' = cfg
    BY DEF Next, OnOptionChain, OnQuoteTick, OnOptionGreeks, MessageStep, OnSessionPhase,
           OnRegimeTag, OnIntentApproved, OnIntentRejected, VenueStep, Filled, Refused,
           ChildRefused, Cancelled, QuoteAges, Restart
  <2> QED
    BY <2>1 DEF MirrorInv, Childless, PlumbingVenue
<1>1. ASSUME NEW i, SubmitApprovedIntent(i) PROVE children' = {}
  BY <1>1 DEF SubmitApprovedIntent, SubmitEntry
<1>2. ASSUME NEW fresh, BeginEvaluation(fresh) PROVE children' = {}
  BY <1>1, <1>2 DEF BeginEvaluation, Admit, QueueForSelector, venueVars
<1>3. CASE OnOptionChain \/ OnQuoteTick \/ OnOptionGreeks
  BY <1>2, <1>3 DEF OnOptionChain, OnQuoteTick, OnOptionGreeks, ManagePosition, venueVars
<1>4. CASE MessageStep
  BY <1>1, <1>4 DEF MessageStep, OnSessionPhase, OnRegimeTag, OnIntentApproved,
                    OnIntentRejected, venueVars
<1>5. CASE VenueStep \/ QuoteAges \/ Restart
  BY <1>5 DEF VenueStep, Filled, Refused, ChildRefused, Cancelled, QuoteAges, Restart,
              venueVars
<1> QED
  BY <1>3, <1>4, <1>5 DEF Next

\* Every step keeps the mirror.
LEMMA MirrorStep == ASSUME MirrorInv, Next PROVE PositionMirrored'
<1>1. CASE OnOptionChain
  BY <1>1, MirrorEvaluation DEF OnOptionChain
<1>2. CASE OnQuoteTick
  <2>1. cfg' = cfg
    BY <1>2 DEF OnQuoteTick
  <2>2. CASE ManagePosition
    BY <2>1, <2>2, MirrorManagement DEF ManagePosition, intentVars
  <2>3. CASE state = "FLAT" /\ BeginEvaluation(TRUE)
    BY <2>1, <2>3, MirrorEvaluation
  <2>4. CASE UNCHANGED <<strategyVars, issued, sent, raised, venueVars>>
    BY <2>1, <2>4, MirrorUnchanged DEF MirrorInv, strategyVars, intentVars, venueVars
  <2> QED
    BY <1>2, <2>2, <2>3, <2>4 DEF OnQuoteTick
<1>3. CASE OnOptionGreeks
  <2>1. ~cfg.backtest_plumbing /\ cfg' = cfg
    BY <1>3 DEF OnOptionGreeks
  <2> QED
    BY <2>1 DEF PositionMirrored, PlumbingVenue
<1>4. CASE MessageStep
  <2>1. ASSUME NEW phase \in {"NORMAL", "BLACKOUT"}, OnSessionPhase(phase)
        PROVE  PositionMirrored'
    <3>1. UNCHANGED <<cfg, active, position>>
      BY <2>1 DEF OnSessionPhase, intentVars
    <3>2. CASE FlattenPositions
      BY <3>1, <3>2, MirrorManagement
    <3>3. CASE UNCHANGED <<state, left>>
      BY <3>1, <3>3, MirrorUnchanged DEF MirrorInv
    <3> QED
      BY <2>1, <3>2, <3>3 DEF OnSessionPhase, orderVars
  <2>2. ASSUME NEW tag \in {"open", "blocked"}, OnRegimeTag(tag)
        PROVE  PositionMirrored'
    BY <2>2, MirrorUnchanged DEF OnRegimeTag, MirrorInv, strategyVars, intentVars, venueVars
  <2>3. ASSUME NEW i \in Intents, OnIntentApproved(i)
        PROVE  PositionMirrored'
    <3>1. CASE Awaited(i) /\ SubmitApprovedIntent(i)
      BY <2>3, <3>1, MirrorSubmitApproved DEF OnIntentApproved, Awaited
    <3>2. CASE UNCHANGED <<strategyVars, sent, raised, venueVars>>
      BY <2>3, <3>2, MirrorUnchanged
         DEF OnIntentApproved, MirrorInv, strategyVars, intentVars, venueVars
    <3> QED
      BY <2>3, <3>1, <3>2 DEF OnIntentApproved
  <2>4. ASSUME NEW i \in Intents, OnIntentRejected(i)
        PROVE  PositionMirrored'
    <3>1. UNCHANGED <<cfg, active, left, position>>
      BY <2>4 DEF OnIntentRejected, venueVars
    <3>2. CASE state = "PENDING_APPROVAL" /\ state' = "FLAT"
      BY <3>1, <3>2, MirrorIdle DEF MirrorInv, OrderStates
    <3>3. CASE UNCHANGED state
      BY <3>1, <3>3, MirrorUnchanged DEF MirrorInv
    <3> QED
      BY <2>4, <3>2, <3>3 DEF OnIntentRejected, Awaited
  <2> QED
    BY <1>4, <2>1, <2>2, <2>3, <2>4 DEF MessageStep
<1>5. CASE VenueStep
  <2>1. ASSUME NEW i \in Intents, NEW kind \in OrderKinds, Cancelled(kind, i)
        PROVE  PositionMirrored'
    BY <2>1 DEF Cancelled, PositionMirrored, PlumbingVenue
  <2>2. ASSUME NEW i \in Intents, ChildRefused(i)
        PROVE  PositionMirrored'
    BY <2>2 DEF ChildRefused, PositionMirrored, PlumbingVenue
  <2> QED
    BY <1>5, <2>1, <2>2, MirrorFilled, MirrorRefused DEF VenueStep
<1>6. CASE QuoteAges
  BY <1>6, MirrorUnchanged DEF QuoteAges, MirrorInv, strategyVars, intentVars, venueVars
<1>7. CASE Restart
  BY <1>7 DEF Restart, PositionMirrored, PlumbingVenue
<1> QED
  BY <1>1, <1>2, <1>3, <1>4, <1>5, <1>6, <1>7 DEF Next

\* In plumbing mode, on a venue that fills in full, refuses entries only and
\* never cancels, FLAT means that nothing is held and nothing works, and every
\* order state means exactly the position and the order it is named after.
THEOREM PlumbingMirrorsVenue == Spec => []PositionMirrored
<1>1. Init => MirrorInv
  <2>1. ASSUME Init PROVE PositionMirrored /\ Childless
    <3>1. /\ state = "FLAT" /\ children = {}
          /\ \A i \in Intents : position[i] = 0
          /\ \A k \in OrderKinds, i \in Intents : left[k][i] = 0
      BY <2>1 DEF Init
    <3> QED
      BY <3>1 DEF PositionMirrored, Childless, NothingHeldBut, NothingWorkingBut, OrderStates
  <2> QED
    BY <2>1, InitInv DEF MirrorInv
<1>2. MirrorInv /\ StrategyInv' /\ [Next]_vars => MirrorInv'
  <2>1. ASSUME MirrorInv, UNCHANGED vars PROVE PositionMirrored' /\ Childless'
    BY <2>1, MirrorUnchanged DEF vars, MirrorInv, Childless, PlumbingVenue, strategyVars,
                                 intentVars, venueVars
  <2> QED
    BY <2>1, MirrorStep, ChildlessStep DEF MirrorInv
<1>3. MirrorInv => PositionMirrored
  BY DEF MirrorInv
<1> QED
  BY <1>1, <1>2, <1>3, StrategyInvariant, PTL DEF Spec

=============================================================================
