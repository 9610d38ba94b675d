--------------------------- MODULE LayeredConfig ----------------------------
(***************************************************************************)
(* From configuration files, a profile and the environment to what a node  *)
(* is built of.  Everything here is a pure operator; NodeLaunch runs it.   *)
(*                                                                         *)
(* Data abstractions.  A YAML file is a layer: a function from the keys it *)
(* sets to values, nested keys flattened to one name each.  Only the keys  *)
(* that decide about orders, actors, clients, feeds and fees are kept.     *)
(* An environment maps variables to strings.  An adapter that is neither   *)
(* IB nor DERIBIT fails the validation of AppConfig and is no layer here.  *)
(***************************************************************************)
EXTENDS Naturals, Sequences

CONSTANTS
    Defaults,   \* the field defaults of AppConfig
    Files       \* the layers under configs/, except the profiles

\* The values of a variable that is absent, and of one that is set to nothing.
Unset == "unset"
Empty == ""
Truthy == {"1"}   \* 1, true or yes, whatever the case

-----------------------------------------------------------------------------
(***************************************************************************)
(* load_config.                                                            *)
(***************************************************************************)

\* _deep_merge: the overlay wins, key by key.
DeepMerge(base, overlay) ==
    [k \in DOMAIN base \union DOMAIN overlay |->
        IF k \in DOMAIN overlay THEN overlay[k] ELSE base[k]]

Nothing == [k \in {} |-> TRUE]

\* A named overlay; a name without a file is passed over in silence.
Overlay(layers, name) == IF name \in DOMAIN layers THEN layers[name] ELSE Nothing

OnDeribit(merged) == "adapter" \in DOMAIN merged /\ merged.adapter = "DERIBIT"

FeeOverlayName(merged) ==
    IF "fees_overlay" \in DOMAIN merged THEN merged.fees_overlay
    ELSE IF OnDeribit(merged) THEN "deribit_options" ELSE "ib_options"

SessionOverlayName(merged) ==
    IF "session_overlay" \in DOMAIN merged THEN merged.session_overlay
    ELSE IF OnDeribit(merged) THEN "crypto_deribit" ELSE "us_equity"

\* Diversification defaults are for those who diversify.
Diversifies(merged) ==
    \/ "strategies" \in DOMAIN merged /\ merged.strategies # <<>>
    \/ "diversify" \in DOMAIN merged /\ merged.diversify

\* Which variable overrides which key; an empty variable overrides nothing.
Overrides == [testnet |-> "DERIBIT_TESTNET", dry_run |-> "DRY_RUN"]

ApplyEnvOverrides(merged, env) ==
    LET overridden == {k \in DOMAIN Overrides : env[Overrides[k]] \notin {Unset, Empty}}
    IN  DeepMerge(merged, [k \in overridden |-> env[Overrides[k]] \in Truthy])

BeforeOverlays(profile) ==
    DeepMerge(DeepMerge(DeepMerge(Files.base, Files.risk), Files.strategy), profile)

\* Of a fee file only its section of fees is taken; that is the layer here.
WithFees(merged) == DeepMerge(merged, Overlay(Files.fees, FeeOverlayName(merged)))

WithDiversification(merged) ==
    IF Diversifies(merged) THEN DeepMerge(merged, Files.diversification) ELSE merged

WithSession(merged) ==
    DeepMerge(merged, Overlay(Files.session, SessionOverlayName(merged)))

WithOverlays(profile) ==
    WithSession(DeepMerge(WithDiversification(WithFees(BeforeOverlays(profile))),
                          Files.streaming))

\* Mutant of Merged: the profile is not laid over the session file again.
MergedOnce(profile) == WithOverlays(profile)

\* The profile comes twice: it chooses the overlays and wins over them.
Merged(profile) == DeepMerge(WithOverlays(profile), profile)

\* AppConfig fills in what no layer has set.
LoadConfig(profile, env) ==
    DeepMerge(Defaults, ApplyEnvOverrides(Merged(profile), env))

-----------------------------------------------------------------------------
(***************************************************************************)
(* What a node is built of.                                                *)
(***************************************************************************)
ResolvedStrategies(cfg) ==
    IF cfg.strategies # <<>> THEN cfg.strategies ELSE <<cfg.strategy>>

SelectorEnabled(cfg) == cfg.diversify \/ Len(ResolvedStrategies(cfg)) > 1

\* Mutant of ActorConfigs: the selector comes with diversification alone.
ActorConfigsOnRequest(cfg) ==
    {"session", "regime"}
    \union (IF cfg.diversify THEN {"selector"} ELSE {})
    \union (IF cfg.ingest THEN {"ingestion"} ELSE {})

ActorConfigs(cfg) ==
    {"session", "regime"}
    \union (IF SelectorEnabled(cfg) THEN {"selector"} ELSE {})
    \union (IF cfg.ingest THEN {"ingestion"} ELSE {})

KnownClasses == {"skeleton", "gated_skeleton", "reference"}

ResolvedClass(runtime) ==
    IF runtime.class \in KnownClasses THEN runtime.class ELSE "gated_skeleton"

\* A strategy's own reference section replaces the common one as a whole.
Plumbing(cfg, runtime) ==
    IF "plumbing" \in DOMAIN runtime THEN runtime.plumbing ELSE cfg.plumbing

\* Mutant of StrategyConfig: dry_run is not handed to the strategy.
StrategyConfigAlwaysLive(cfg, runtime) ==
    [ class |-> ResolvedClass(runtime), underlying |-> runtime.underlying,
      submits |-> ResolvedClass(runtime) = "reference",
      asks |-> ResolvedClass(runtime) = "reference" /\ SelectorEnabled(cfg),
      plumbing |-> ResolvedClass(runtime) = "reference" /\ Plumbing(cfg, runtime) ]

\* Only a reference strategy is told of dry_run, the selector and plumbing mode;
\* the skeletons have no code that submits.
StrategyConfig(cfg, runtime) ==
    LET reference == ResolvedClass(runtime) = "reference"
    IN  [ class |-> ResolvedClass(runtime), underlying |-> runtime.underlying,
          submits |-> reference /\ ~cfg.dry_run,
          asks |-> reference /\ SelectorEnabled(cfg),
          plumbing |-> reference /\ Plumbing(cfg, runtime) ]

StrategyConfigs(cfg) ==
    LET runtimes == ResolvedStrategies(cfg)
    IN  {StrategyConfig(cfg, runtimes[n]) : n \in DOMAIN runtimes}

-----------------------------------------------------------------------------
(***************************************************************************)
(* Venue clients.                                                          *)
(***************************************************************************)

\* Mutant of Credential: the testnet variable stands in on mainnet as well.
CredentialAnyNet(cfg, env, name, testnetName) ==
    IF env[name] \notin {Unset, Empty} THEN name
    ELSE IF env[testnetName] # Unset THEN testnetName ELSE Unset

\* _resolve_api_credentials: the variable a key or secret is taken from, Unset
\* when it is None.  The configuration names the variable; the testnet one is
\* fixed.  On mainnet a variable that is set to nothing is a credential.
Credential(cfg, env, name, testnetName) ==
    IF cfg.testnet
    THEN IF env[name] \notin {Unset, Empty} THEN name
         ELSE IF env[testnetName] # Unset THEN testnetName ELSE Unset
    ELSE IF env[name] # Unset THEN name ELSE Unset

ApiKey(cfg, env) == Credential(cfg, env, cfg.api_key_env, "DERIBIT_TESTNET_API_KEY")
ApiSecret(cfg, env) ==
    Credential(cfg, env, cfg.api_secret_env, "DERIBIT_TESTNET_API_SECRET")

\* build_deribit_wiring raises without credentials, unless in a dry run.
WiringRaises(cfg, env) ==
    /\ cfg.adapter = "DERIBIT" /\ ~cfg.dry_run
    /\ ApiKey(cfg, env) = Unset \/ ApiSecret(cfg, env) = Unset

NoClients == [data |-> FALSE, exec |-> FALSE, net |-> "none", credentials |-> {}]

\* build_venue_client_wiring.  Without a gateway, and in any dry run, IB gets
\* no client at all, not even for data.
VenueClients(cfg, env) ==
    IF cfg.adapter = "DERIBIT"
    THEN [ data |-> TRUE, exec |-> TRUE,
           net |-> IF cfg.testnet THEN "testnet" ELSE "mainnet",
           credentials |-> {ApiKey(cfg, env), ApiSecret(cfg, env)} ]
    ELSE IF cfg.dry_run \/ env["IB_HOST"] \in {Unset, Empty} THEN NoClients
    ELSE [data |-> TRUE, exec |-> TRUE, net |-> "gateway", credentials |-> {}]

-----------------------------------------------------------------------------
(***************************************************************************)
(* Data and fees of a backtest.                                            *)
(***************************************************************************)

\* What of a catalog is replayed: the quotes of the first underlying, or every
\* quote and, where there are options, their greeks.
BacktestData(cfg, catalog) ==
    IF /\ ResolvedStrategies(cfg)[1].class = "reference"
       /\ ~cfg.plumbing /\ "option_greeks" \in catalog
    THEN {"every_quote"} \union (IF "options" \in catalog THEN {"greeks"} ELSE {})
    ELSE {"first_underlying"}

\* Mutant of BacktestFeeModel: the venue of the adapter is not looked at.
BacktestFeeModelAnyVenue(cfg) ==
    IF cfg.plumbing \/ cfg.fee_model # "maker_taker" THEN "none" ELSE "maker_taker"

\* The fee model must be the one of the venue, or the backtest charges nothing.
VenueFees(cfg) == IF cfg.adapter = "DERIBIT" THEN "maker_taker" ELSE "fixed_per_contract"

BacktestFeeModel(cfg) ==
    IF cfg.plumbing \/ cfg.fee_model # VenueFees(cfg) THEN "none" ELSE cfg.fee_model

=============================================================================
