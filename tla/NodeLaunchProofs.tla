-------------------------- MODULE NodeLaunchProofs --------------------------
(***************************************************************************)
(* Proofs about NodeLaunch, for any configuration files, profiles,         *)
(* environments and catalogs.  First what the layers of a configuration    *)
(* pass on, then an invariant that ties everything a node is built of to   *)
(* the command that started it; the properties follow from it.             *)
(***************************************************************************)
EXTENDS NodeLaunch, TLAPS

\* A merge has the keys of both layers.
LEMMA MergeDomain ==
    ASSUME NEW base, NEW overlay, NEW k
    PROVE  k \in DOMAIN DeepMerge(base, overlay) <=> k \in DOMAIN base \/ k \in DOMAIN overlay
BY DEF DeepMerge

\* In a merge the overlay is found whole.
LEMMA MergeOver ==
    ASSUME NEW base, NEW overlay, NEW k \in DOMAIN overlay
    PROVE  DeepMerge(base, overlay)[k] = overlay[k]
BY DEF DeepMerge

\* Where the overlay has nothing to say, the base stands.
LEMMA MergeUnder ==
    ASSUME NEW base, NEW overlay, NEW k \in DOMAIN base, k \notin DOMAIN overlay
    PROVE  DeepMerge(base, overlay)[k] = base[k]
BY DEF DeepMerge

\* The overrides touch no key but testnet and dry_run.
LEMMA OverridesTouch ==
    ASSUME NEW merged, NEW env
    PROVE  /\ DOMAIN merged \subseteq DOMAIN ApplyEnvOverrides(merged, env)
           /\ DOMAIN ApplyEnvOverrides(merged, env) \subseteq
                  DOMAIN merged \union {"testnet", "dry_run"}
           /\ \A k \in DOMAIN merged :
                  \/ ApplyEnvOverrides(merged, env)[k] = merged[k]
                  \/ k \in DOMAIN Overrides /\ env[Overrides[k]] \notin {Unset, Empty}
<1> DEFINE overridden == {k \in DOMAIN Overrides : env[Overrides[k]] \notin {Unset, Empty}}
           overlay == [k \in overridden |-> env[Overrides[k]] \in Truthy]
<1>1. ApplyEnvOverrides(merged, env) = DeepMerge(merged, overlay)
  BY DEF ApplyEnvOverrides
<1>2. DOMAIN overlay = overridden /\ overridden \subseteq {"testnet", "dry_run"}
  BY DEF Overrides
<1> HIDE DEF overlay
<1> QED  BY <1>1, <1>2, MergeDomain, MergeUnder

\* Loading keeps every key of the profile, and its value unless overridden.
LEMMA ProfileLoaded ==
    ASSUME NEW profile, NEW env, NEW k \in DOMAIN profile
    PROVE  /\ k \in DOMAIN LoadConfig(profile, env)
           /\ \/ LoadConfig(profile, env)[k] = profile[k]
              \/ k \in DOMAIN Overrides /\ env[Overrides[k]] \notin {Unset, Empty}
<1>1. k \in DOMAIN Merged(profile) /\ Merged(profile)[k] = profile[k]
  BY MergeDomain, MergeOver DEF Merged
<1> QED  BY <1>1, OverridesTouch, MergeDomain, MergeOver DEF LoadConfig

\* A loaded configuration has the switch for dry runs.
LEMMA LoadedHasSwitch ==
    ASSUME NEW profile, NEW env
    PROVE  "dry_run" \in DOMAIN LoadConfig(profile, env)
BY MergeDomain, DefaultsAssumption DEF LoadConfig

\* Whatever overlay a name finds, it says nothing that is left to profiles.
LEMMA OverlaysSayNothing ==
    ASSUME NEW name, NEW key \in ProfileOnly
    PROVE  /\ key \notin DOMAIN Overlay(Files.fees, name)
           /\ key \notin DOMAIN Overlay(Files.session, name)
BY FilesAssumption DEF Overlay, Nothing, Layers

\* Without a word of the profile the default stands.
LEMMA LeftToTheProfile ==
    ASSUME NEW profile, NEW env, NEW key \in ProfileOnly, key \notin DOMAIN profile
    PROVE  LoadConfig(profile, env)[key] = Defaults[key]
<1>0. key \notin {"testnet", "dry_run"} /\ key \in DOMAIN Defaults
  BY DefaultsAssumption DEF ProfileOnly
<1>1. \A layer \in Layers : key \notin DOMAIN layer
  BY FilesAssumption
<1>2. /\ key \notin DOMAIN Files.base /\ key \notin DOMAIN Files.risk
      /\ key \notin DOMAIN Files.strategy
      /\ key \notin DOMAIN Files.diversification
      /\ key \notin DOMAIN Files.streaming
  BY <1>1 DEF Layers
<1>3. key \notin DOMAIN BeforeOverlays(profile)
  BY <1>2, MergeDomain DEF BeforeOverlays
<1>4. ASSUME NEW merged, key \notin DOMAIN merged
      PROVE  /\ key \notin DOMAIN WithFees(merged)
             /\ key \notin DOMAIN WithDiversification(merged)
             /\ key \notin DOMAIN WithSession(merged)
  <2>1. key \notin DOMAIN WithFees(merged)
    BY <1>4, OverlaysSayNothing, MergeDomain DEF WithFees
  <2>2. key \notin DOMAIN WithDiversification(merged)
    BY <1>2, <1>4, MergeDomain DEF WithDiversification
  <2>3. key \notin DOMAIN WithSession(merged)
    BY <1>4, OverlaysSayNothing, MergeDomain DEF WithSession
  <2> QED  BY <2>1, <2>2, <2>3
<1>5. key \notin DOMAIN WithOverlays(profile)
  BY <1>2, <1>3, <1>4, MergeDomain DEF WithOverlays
<1>6. key \notin DOMAIN Merged(profile)
  BY <1>5, MergeDomain DEF Merged
<1>7. key \notin DOMAIN ApplyEnvOverrides(Merged(profile), env)
  BY <1>0, <1>6, OverridesTouch
<1> QED  BY <1>0, <1>7, MergeDomain, MergeUnder DEF LoadConfig

-----------------------------------------------------------------------------
(***************************************************************************)
(* Where everything in a node comes from.                                  *)
(***************************************************************************)
Loaded == LoadConfig(node.launch.profile, node.launch.env)

\* The invariant on a node that runs.
Provenance ==
    Running =>
        /\ node.mode \in Modes
        /\ node.ordered \in BOOLEAN
        /\ DOMAIN node.cfg = DOMAIN Loaded
        /\ \A k \in DOMAIN Loaded : k # "dry_run" => node.cfg[k] = Loaded[k]
        /\ node.strategies = StrategyConfigs(node.cfg)
        /\ node.actors = ActorConfigs(node.cfg)
        /\ node.mode = "BACKTEST" =>
               /\ node.clients = NoClients /\ ~node.ordered
               /\ node.fees = BacktestFeeModel(node.cfg)
               /\ \E catalog : node.data = BacktestData(node.cfg, catalog)
        /\ node.mode # "BACKTEST" =>
               /\ node.cfg["dry_run"] = (node.mode # "LIVE")
               /\ node.clients = VenueClients(node.cfg, node.launch.env)
               /\ ~WiringRaises(node.cfg, node.launch.env)
               /\ node.launch.live => node.mode = "LIVE"
        /\ node.mode = "LIVE" =>
               MissingOptIns(Loaded, node.launch.env, node.launch.live) = {}
        /\ node.ordered => node.mode = "LIVE"

IInv == LaunchInv /\ Provenance

\* What the flags change of a configuration is dry_run alone.
LEMMA Flagged ==
    ASSUME NEW profile, NEW env, NEW dry
    PROVE  /\ DOMAIN WithDryRun(LoadConfig(profile, env), dry) = DOMAIN LoadConfig(profile, env)
           /\ WithDryRun(LoadConfig(profile, env), dry)["dry_run"] = dry
           /\ \A k \in DOMAIN LoadConfig(profile, env) : k # "dry_run" =>
                  WithDryRun(LoadConfig(profile, env), dry)[k] = LoadConfig(profile, env)[k]
BY LoadedHasSwitch DEF WithDryRun

\* A start that fails is one more start without a stop, and one more node lost.
LEMMA RaisedProvenance ==
    ASSUME IInv, node = NoNode, BuildRaises
    PROVE  IInv'
<1>1. LaunchInv'
  BY MaxLostAssumption DEF BuildRaises, IInv, LaunchInv, TypeOK, Running
<1>2. Provenance'
  BY DEF BuildRaises, Provenance, Running
<1> QED  BY <1>1, <1>2 DEF IInv

\* A start that succeeds is one more start without a stop, and a node that runs.
LEMMA StartedBracket ==
    ASSUME IInv, node = NoNode, node' # NoNode, unclosed' = unclosed + 1, lost' = lost,
           node'.mode \in Modes, node'.ordered \in BOOLEAN
    PROVE  LaunchInv'
<1>1. unclosed = lost /\ lost \in 0..MaxLost /\ unclosed \in Nat
  BY DEF IInv, LaunchInv, TypeOK, Running
<1>2. TypeOK'
  BY <1>1 DEF TypeOK, Running
<1> QED  BY <1>1, <1>2 DEF LaunchInv, Running

\* A node starts with its provenance established.
LEMMA PaperProvenance ==
    ASSUME IInv, NEW profile, NEW env, NEW dry \in BOOLEAN, NEW live \in BOOLEAN,
           Paper(profile, env, dry, live)
    PROVE  IInv'
<1> DEFINE loaded == LoadConfig(profile, env)
           missing == MissingOptIns(loaded, env, live)
           cfg == WithDryRun(loaded, dry \/ missing # {})
           mode == IF dry THEN "BUILD ONLY" ELSE IF missing = {} THEN "LIVE" ELSE "OBSERVE"
           launch == [profile |-> profile, env |-> env, live |-> live]
           built == Built(launch, mode, cfg, VenueClients(cfg, env), {}, "none")
<1>1. CASE BuildRaises
  BY <1>1, RaisedProvenance DEF Paper
<1>2. CASE Runs(built) /\ ~WiringRaises(cfg, env)
  <2>1. /\ node = NoNode /\ ~(dry /\ live) /\ (live => missing = {})
        /\ node' = built /\ unclosed' = unclosed + 1 /\ lost' = lost
    BY <1>2 DEF Paper, Runs
  <2>2. /\ DOMAIN cfg = DOMAIN loaded
        /\ cfg["dry_run"] = (dry \/ missing # {})
        /\ \A k \in DOMAIN loaded : k # "dry_run" => cfg[k] = loaded[k]
    BY Flagged
  <2>3. /\ built.mode = mode /\ built.launch = launch /\ built.cfg = cfg
        /\ built.clients = VenueClients(cfg, env)
        /\ built.ordered = FALSE /\ built.ordered \in BOOLEAN
        /\ built.strategies = StrategyConfigs(cfg) /\ built.actors = ActorConfigs(cfg)
        /\ built # NoNode
    <3>1. built.mode # NoNode.mode
      BY DEF Built, NoNode
    <3> QED  BY <3>1 DEF Built
  <2>4. launch.profile = profile /\ launch.env = env /\ launch.live = live
    OBVIOUS
  <2>5. mode \in Modes \ {"BACKTEST"} /\ (mode = "LIVE" <=> ~dry /\ missing = {})
    BY DEF Modes
  <2> HIDE DEF built, launch, cfg, loaded, missing, mode
  <2>6. LaunchInv'
    BY <2>1, <2>3, <2>5, StartedBracket
  <2>7. Loaded' = loaded
    BY <2>1, <2>3, <2>4 DEF Loaded, loaded
  <2>8. Provenance'
    <3>1. (cfg["dry_run"]) = (mode # "LIVE")
      BY <2>2, <2>5
    <3>2. live => mode = "LIVE"
      BY <2>1, <2>5
    <3>3. mode = "LIVE" => MissingOptIns(loaded, env, live) = {}
      BY <2>5 DEF missing
    <3> QED  BY <1>2, <2>1, <2>2, <2>3, <2>4, <2>5, <2>7, <3>1, <3>2, <3>3 DEF Provenance
  <2> QED  BY <2>6, <2>8 DEF IInv
<1> QED  BY <1>1, <1>2 DEF Paper

\* A backtest starts with its provenance established.
LEMMA BacktestProvenance ==
    ASSUME IInv, NEW profile, NEW env, NEW dry \in BOOLEAN, NEW catalog,
           Backtest(profile, env, dry, catalog)
    PROVE  IInv'
<1> DEFINE loaded == LoadConfig(profile, env)
           cfg == WithDryRun(loaded, dry \/ loaded.dry_run)
           launch == [profile |-> profile, env |-> env, live |-> FALSE]
           built == Built(launch, "BACKTEST", cfg, NoClients,
                          BacktestData(cfg, catalog), BacktestFeeModel(cfg))
<1>1. CASE BuildRaises
  BY <1>1, RaisedProvenance DEF Backtest
<1>2. CASE Runs(built)
  <2>1. node = NoNode /\ node' = built /\ unclosed' = unclosed + 1 /\ lost' = lost
    BY <1>2 DEF Backtest, Runs
  <2>2. /\ DOMAIN cfg = DOMAIN loaded
        /\ \A k \in DOMAIN loaded : k # "dry_run" => cfg[k] = loaded[k]
    BY Flagged
  <2>3. /\ built.mode = "BACKTEST" /\ built.launch = launch /\ built.cfg = cfg
        /\ built.clients = NoClients /\ built.ordered = FALSE /\ built.ordered \in BOOLEAN
        /\ built.strategies = StrategyConfigs(cfg) /\ built.actors = ActorConfigs(cfg)
        /\ built.fees = BacktestFeeModel(cfg)
        /\ built.data = BacktestData(cfg, catalog)
        /\ built # NoNode
    <3>1. built.mode # NoNode.mode
      BY DEF Built, NoNode
    <3> QED  BY <3>1 DEF Built
  <2>4. launch.profile = profile /\ launch.env = env
    OBVIOUS
  <2> HIDE DEF built, launch, cfg, loaded
  <2>5. LaunchInv'
    BY <2>1, <2>3, StartedBracket DEF Modes
  <2>6. Loaded' = loaded
    BY <2>1, <2>3, <2>4 DEF Loaded, loaded
  <2>7. Provenance'
    BY <2>1, <2>2, <2>3, <2>6 DEF Provenance, Modes
  <2> QED  BY <2>5, <2>7 DEF IInv
<1> QED  BY <1>1, <1>2 DEF Backtest

\* Only a strategy that is not in a dry run submits.
LEMMA SubmittersAreLive ==
    ASSUME NEW cfg, NEW strategy \in StrategyConfigs(cfg)
    PROVE  /\ strategy.submits <=> strategy.class = "reference" /\ ~cfg["dry_run"]
           /\ strategy.asks => SelectorEnabled(cfg)
<1>1. PICK runtime : strategy = StrategyConfig(cfg, runtime)
  BY DEF StrategyConfigs
<1> QED  BY <1>1 DEF StrategyConfig

\* An order can only leave a node that runs LIVE.
LEMMA OrderProvenance ==
    ASSUME IInv, SubmitOrder
    PROVE  IInv'
<1>1. /\ Running /\ node' = [node EXCEPT !.ordered = TRUE]
      /\ node.mode \in {"OBSERVE", "LIVE"} /\ UNCHANGED <<unclosed, lost>>
  BY DEF SubmitOrder, Running
<1>2. node.mode = "LIVE"
  <2>1. PICK strategy \in node.strategies : strategy.submits
    BY DEF SubmitOrder
  <2>2. ~node.cfg["dry_run"]
    BY <1>1, <2>1, SubmittersAreLive DEF IInv, Provenance
  <2> QED  BY <1>1, <2>2 DEF IInv, Provenance
<1>3. /\ node'.mode = node.mode /\ node'.launch = node.launch /\ node'.cfg = node.cfg
      /\ node'.strategies = node.strategies /\ node'.actors = node.actors
      /\ node'.clients = node.clients /\ node'.fees = node.fees /\ node'.data = node.data
  BY <1>1
<1>4. node'.ordered \in BOOLEAN
  BY <1>1 DEF IInv, Provenance
<1>5. node' # NoNode
  <2>1. node'.mode # NoNode.mode
    BY <1>2, <1>3 DEF NoNode
  <2> QED  BY <2>1
<1>6. LaunchInv'
  BY <1>1, <1>2, <1>3, <1>4, <1>5 DEF IInv, LaunchInv, TypeOK, Running, Modes
<1>7. Loaded' = Loaded
  BY <1>3 DEF Loaded
<1>8. Provenance'
  BY <1>1, <1>2, <1>3, <1>4, <1>7 DEF IInv, Provenance
<1> QED  BY <1>6, <1>8 DEF IInv

\* The invariant holds at first and every command and step preserves it.
LEMMA Inductive == Spec => []IInv
<1>1. Init => IInv
  BY MaxLostAssumption DEF Init, IInv, LaunchInv, TypeOK, Provenance, Running
<1>2. IInv /\ [Next]_vars => IInv'
  <2> SUFFICES ASSUME IInv, [Next]_vars PROVE IInv'
    OBVIOUS
  <2>1. ASSUME NEW profile \in Profiles, NEW env \in Shells, NEW dry \in BOOLEAN,
               NEW live \in BOOLEAN, Paper(profile, env, dry, live)
        PROVE  IInv'
    BY <2>1, PaperProvenance
  <2>2. ASSUME NEW profile \in Profiles, NEW env \in Shells, NEW dry \in BOOLEAN,
               NEW catalog \in Catalogs, Backtest(profile, env, dry, catalog)
        PROVE  IInv'
    BY <2>2, BacktestProvenance
  <2>3. CASE BuildFails
    BY <2>3, RaisedProvenance DEF BuildFails
  <2>4. CASE SubmitOrder
    BY <2>4, OrderProvenance
  <2>5. CASE StopNode
    BY <2>5 DEF StopNode, IInv, LaunchInv, TypeOK, Provenance, Running
  <2>6. CASE KillNode
    BY <2>6, MaxLostAssumption DEF KillNode, IInv, LaunchInv, TypeOK, Provenance, Running
  <2>7. CASE UNCHANGED vars
    BY <2>7 DEF vars, IInv, LaunchInv, TypeOK, Provenance, Running, Loaded
  <2> QED  BY <2>1, <2>2, <2>3, <2>4, <2>5, <2>6, <2>7 DEF Next
<1> QED  BY <1>1, <1>2, PTL DEF Spec

-----------------------------------------------------------------------------
(***************************************************************************)
(* The theorems.                                                           *)
(***************************************************************************)

\* The starts without a stop in the journal count the running and lost nodes.
THEOREM LaunchesAreBracketed == Spec => []LaunchInv
<1>1. IInv => LaunchInv
  BY DEF IInv
<1> QED  BY <1>1, Inductive, PTL

\* No files, profiles or environments let an order out without three opt-ins.
THEOREM LiveNeedsThreeOptIns == Spec => []OrdersNeedThreeOptIns
<1>1. IInv => OrdersNeedThreeOptIns
  <2> SUFFICES ASSUME IInv, Running, node.ordered
               PROVE  /\ node.mode = "LIVE"
                      /\ node.launch.live
                      /\ "allow_live" \in DOMAIN node.launch.profile
                      /\ node.launch.profile["allow_live"]
                      /\ node.launch.env["ZERODTE_ALLOW_LIVE"] \in Truthy
    BY DEF OrdersNeedThreeOptIns
  <2>1. /\ node.mode = "LIVE"
        /\ MissingOptIns(Loaded, node.launch.env, node.launch.live) = {}
    BY DEF IInv, Provenance
  <2>2. /\ node.launch.live /\ Loaded["allow_live"]
        /\ node.launch.env["ZERODTE_ALLOW_LIVE"] \in Truthy
    BY <2>1 DEF MissingOptIns
  <2>3. "allow_live" \in DOMAIN node.launch.profile
    BY <2>2, LeftToTheProfile, DefaultsAssumption DEF Loaded, ProfileOnly
  <2>4. Loaded["allow_live"] = node.launch.profile["allow_live"]
    BY <2>3, ProfileLoaded DEF Loaded, Overrides
  <2> QED  BY <2>1, <2>2, <2>3, <2>4
<1> QED  BY <1>1, Inductive, PTL

\* In every mode the strategies do what the banner says.
THEOREM BannerIsTrue == Spec => []ModeTruthful
<1>1. IInv => ModeTruthful
  BY SubmittersAreLive DEF IInv, Provenance, ModeTruthful
<1> QED  BY <1>1, Inductive, PTL

\* The configuration of a node keeps every value its profile sets, unless a
\* variable or a flag is there to override it.
THEOREM ProfilesPrevail == Spec => []ProfileWins
<1>1. IInv => ProfileWins
  <2> SUFFICES ASSUME IInv, Running, NEW k \in DOMAIN node.launch.profile, k # "dry_run"
               PROVE  \/ node.cfg[k] = node.launch.profile[k]
                      \/ /\ k \in DOMAIN Overrides
                         /\ node.launch.env[Overrides[k]] \notin {Unset, Empty}
    BY DEF ProfileWins
  <2>1. k \in DOMAIN Loaded => node.cfg[k] = Loaded[k]
    BY DEF IInv, Provenance
  <2> QED  BY <2>1, ProfileLoaded DEF Loaded
<1> QED  BY <1>1, Inductive, PTL

\* Whoever waits for approvals has a selector in the same node.
THEOREM SelectorIsThere == Spec => []AskersHaveSelector
<1>1. IInv => AskersHaveSelector
  <2> SUFFICES ASSUME IInv, Running,
                      \/ \E strategy \in node.strategies : strategy.asks
                      \/ Len(ResolvedStrategies(node.cfg)) > 1
               PROVE  "selector" \in node.actors
    BY DEF AskersHaveSelector
  <2>1. SelectorEnabled(node.cfg)
    BY SubmittersAreLive DEF IInv, Provenance, SelectorEnabled
  <2> QED  BY <2>1 DEF IInv, Provenance, ActorConfigs
<1> QED  BY <1>1, Inductive, PTL

\* The credentials of a node are those its profile names, and complete when LIVE.
THEOREM CredentialsFit == Spec => []CredentialsOfNet
<1>1. IInv => CredentialsOfNet
  <2> SUFFICES ASSUME IInv, Running PROVE CredentialsOfNet
    BY DEF CredentialsOfNet
  <2>1. CASE node.mode = "BACKTEST"
    BY <2>1 DEF IInv, Provenance, CredentialsOfNet, NoClients
  <2>2. CASE node.mode # "BACKTEST"
    <3> DEFINE cfg == node.cfg  env == node.launch.env
    <3>1. /\ node.clients = VenueClients(cfg, env) /\ ~WiringRaises(cfg, env)
          /\ cfg["dry_run"] = (node.mode # "LIVE")
      BY <2>2 DEF IInv, Provenance
    <3>2. CASE cfg.adapter = "DERIBIT"
      <4>1. /\ node.clients.net = (IF cfg.testnet THEN "testnet" ELSE "mainnet")
            /\ node.clients.credentials = {ApiKey(cfg, env), ApiSecret(cfg, env)}
        BY <3>1, <3>2 DEF VenueClients
      <4>2. ~cfg.testnet => /\ ApiKey(cfg, env) \in {cfg["api_key_env"], Unset}
                            /\ ApiSecret(cfg, env) \in {cfg["api_secret_env"], Unset}
        BY DEF ApiKey, ApiSecret, Credential
      <4>a. ASSUME NEW key \in {"api_key_env", "api_secret_env"}
            PROVE  cfg[key] = Named(node.launch.profile, key)
        <5>1. key \in ProfileOnly /\ key # "dry_run" /\ key \notin DOMAIN Overrides
          BY DEF ProfileOnly, Overrides
        <5>2. key \in DOMAIN Loaded
          BY <5>1, DefaultsAssumption, MergeDomain DEF Loaded, LoadConfig
        <5>3. cfg[key] = Loaded[key]
          BY <5>1, <5>2 DEF IInv, Provenance
        <5> QED
          BY <5>1, <5>3, LeftToTheProfile, ProfileLoaded DEF Loaded, Named
      <4>3. node.mode = "LIVE" => ApiKey(cfg, env) # Unset /\ ApiSecret(cfg, env) # Unset
        BY <3>1, <3>2 DEF WiringRaises
      <4> HIDE DEF cfg, env
      <4> QED  BY <4>1, <4>2, <4>3, <4>a DEF CredentialsOfNet, Unset
    <3>3. CASE cfg.adapter # "DERIBIT"
      BY <3>1, <3>3 DEF VenueClients, NoClients, CredentialsOfNet
    <3> QED  BY <3>2, <3>3
  <2> QED  BY <2>1, <2>2
<1> QED  BY <1>1, Inductive, PTL

\* A strategy is in plumbing mode only if the common section says so or its own.
LEMMA PlumbersAreTold ==
    ASSUME NEW cfg, NEW strategy \in StrategyConfigs(cfg), strategy.plumbing,
           \A n \in DOMAIN ResolvedStrategies(cfg) :
               "plumbing" \notin DOMAIN ResolvedStrategies(cfg)[n]
    PROVE  cfg.plumbing
<1>1. PICK n \in DOMAIN ResolvedStrategies(cfg) :
          strategy = StrategyConfig(cfg, ResolvedStrategies(cfg)[n])
  BY DEF StrategyConfigs
<1>2. Plumbing(cfg, ResolvedStrategies(cfg)[n])
  BY <1>1 DEF StrategyConfig
<1> QED  BY <1>2 DEF Plumbing

\* Whatever the catalog, a backtest charges what its venue would or nothing.
THEOREM BacktestsAreHonest == Spec => []BacktestHonest
<1>1. IInv => BacktestHonest
  <2> SUFFICES ASSUME IInv, Running, node.mode = "BACKTEST" PROVE BacktestHonest
    BY DEF BacktestHonest
  <2> DEFINE cfg == node.cfg
  <2>1. /\ node.fees = BacktestFeeModel(cfg) /\ node.strategies = StrategyConfigs(cfg)
    BY DEF IInv, Provenance
  <2>2. PICK catalog : node.data = BacktestData(cfg, catalog)
    BY DEF IInv, Provenance
  <2>3. node.fees \in {"none", VenueFees(cfg)}
    BY <2>1 DEF BacktestFeeModel
  <2>4. cfg.dry_run => \A strategy \in node.strategies : ~strategy.submits
    BY <2>1, SubmittersAreLive
  <2>5. ASSUME \A n \in DOMAIN ResolvedStrategies(cfg) :
                   "plumbing" \notin DOMAIN ResolvedStrategies(cfg)[n],
               NEW strategy \in node.strategies, strategy.plumbing
        PROVE  node.fees = "none" /\ node.data = {"first_underlying"}
    <3>1. cfg.plumbing
      BY <2>1, <2>5, PlumbersAreTold
    <3> QED  BY <2>1, <2>2, <3>1 DEF BacktestFeeModel, BacktestData
  <2> QED  BY <2>3, <2>4, <2>5 DEF BacktestHonest
<1> QED  BY <1>1, Inductive, PTL

=============================================================================
