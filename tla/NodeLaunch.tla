----------------------------- MODULE NodeLaunch -----------------------------
(***************************************************************************)
(* Launching nodes: the commands paper and backtest of cli/main.py and     *)
(* node/factory.py, over the configuration of LayeredConfig.               *)
(*                                                                         *)
(* The operator edits the profile and the shell at will between commands,  *)
(* so each command starts from any profile and any environment; a running  *)
(* node keeps what it has read.  One node runs at a time.  The journal is  *)
(* seen through its node records alone: a start that has no stop yet.      *)
(***************************************************************************)
EXTENDS LayeredConfig

CONSTANTS
    Profiles,     \* the profiles an operator may name
    Shells,       \* the environments a command may run in
    Catalogs,     \* catalogs of a backtest: the kinds of data each holds
    MaxLost       \* nodes that fail or are killed (a bound of the model)

ASSUME MaxLostAssumption == MaxLost \in Nat

\* The opt-in to live orders and the names of the credentials' variables.
ProfileOnly == {"allow_live", "api_key_env", "api_secret_env"}

\* AppConfig has these keys, and the opt-in is off by default.
ASSUME DefaultsAssumption ==
    {"dry_run"} \union ProfileOnly \subseteq DOMAIN Defaults /\ Defaults["allow_live"] = FALSE

\* Of the committed configuration files only profiles set them.  The code would
\* take them from any layer.
Layers ==
    {Files.base, Files.risk, Files.strategy, Files.diversification, Files.streaming}
    \union {Files.fees[name] : name \in DOMAIN Files.fees}
    \union {Files.session[name] : name \in DOMAIN Files.session}

ASSUME FilesAssumption == \A layer \in Layers : DOMAIN layer \intersect ProfileOnly = {}

VARIABLES
    node,       \* the node that runs, or NoNode
    unclosed,   \* NODE_START records without their NODE_STOP
    lost        \* nodes that ended without writing NODE_STOP

vars == <<node, unclosed, lost>>

NoNode == [mode |-> "NONE"]
Modes == {"BUILD ONLY", "OBSERVE", "LIVE", "BACKTEST"}

-----------------------------------------------------------------------------
\* Mutant of MissingOptIns: a variable that is set at all grants.
MissingOptInsAnyValue(cfg, env, live) ==
    (IF live THEN {} ELSE {"flag"})
    \union (IF cfg.allow_live THEN {} ELSE {"profile"})
    \union (IF env["ZERODTE_ALLOW_LIVE"] # Unset THEN {} ELSE {"environment"})

\* Which of the three opt-ins are absent.
MissingOptIns(cfg, env, live) ==
    (IF live THEN {} ELSE {"flag"})
    \union (IF cfg.allow_live THEN {} ELSE {"profile"})
    \union (IF env["ZERODTE_ALLOW_LIVE"] \in Truthy THEN {} ELSE {"environment"})

\* build_trading_node and build_backtest_node: all that is derived from cfg.
Built(launch, mode, cfg, clients, data, fees) ==
    [ mode |-> mode, launch |-> launch, cfg |-> cfg, clients |-> clients,
      strategies |-> StrategyConfigs(cfg), actors |-> ActorConfigs(cfg),
      data |-> data, fees |-> fees, ordered |-> FALSE ]

\* model_copy: the command line decides about dry_run.
WithDryRun(cfg, dry) == [k \in DOMAIN cfg |-> IF k = "dry_run" THEN dry ELSE cfg[k]]

Init == node = NoNode /\ unclosed = 0 /\ lost = 0

\* NODE_START is on record before the node is built: a build that raises
\* leaves it without a NODE_STOP.
BuildRaises ==
    /\ lost < MaxLost
    /\ unclosed' = unclosed + 1
    /\ lost' = lost + 1
    /\ UNCHANGED node

Runs(built) ==
    /\ node' = built
    /\ unclosed' = unclosed + 1
    /\ UNCHANGED lost

\* Mutant of Paper: --live without its opt-ins observes instead of refusing.
PaperDowngraded(profile, env, dry, live) ==
    LET loaded == LoadConfig(profile, env)
        missing == MissingOptIns(loaded, env, live)
        cfg == WithDryRun(loaded, dry \/ missing # {})
        mode == IF dry THEN "BUILD ONLY" ELSE IF missing = {} THEN "LIVE" ELSE "OBSERVE"
    IN  /\ node = NoNode
        /\ ~(dry /\ live)
        /\ IF WiringRaises(cfg, env) THEN BuildRaises
           ELSE Runs(Built([profile |-> profile, env |-> env, live |-> live],
                           mode, cfg, VenueClients(cfg, env), {}, "none"))

\* zerodte paper [--dry-run] [--live].  The two flags exclude each other, and a
\* --live that is not granted is refused: neither touches the journal.
Paper(profile, env, dry, live) ==
    LET loaded == LoadConfig(profile, env)
        missing == MissingOptIns(loaded, env, live)
        cfg == WithDryRun(loaded, dry \/ missing # {})
        mode == IF dry THEN "BUILD ONLY" ELSE IF missing = {} THEN "LIVE" ELSE "OBSERVE"
    IN  /\ node = NoNode
        /\ ~(dry /\ live)
        /\ live => missing = {}
        /\ IF WiringRaises(cfg, env) THEN BuildRaises
           ELSE Runs(Built([profile |-> profile, env |-> env, live |-> live],
                           mode, cfg, VenueClients(cfg, env), {}, "none"))

\* zerodte backtest [--dry-run].  A catalog without quotes of the underlying
\* raises in catalog_time_bounds.
Backtest(profile, env, dry, catalog) ==
    LET loaded == LoadConfig(profile, env)
        cfg == WithDryRun(loaded, dry \/ loaded.dry_run)
        launch == [profile |-> profile, env |-> env, live |-> FALSE]
    IN  /\ node = NoNode
        /\ IF "quotes" \notin catalog THEN BuildRaises
           ELSE Runs(Built(launch, "BACKTEST", cfg, NoClients,
                           BacktestData(cfg, catalog), BacktestFeeModel(cfg)))

\* External: anything else that fails while a node is being built.
BuildFails == node = NoNode /\ BuildRaises

\* A strategy of the node sends an order to the venue.
SubmitOrder ==
    /\ node # NoNode
    /\ node.mode \in {"OBSERVE", "LIVE"}
    /\ node.clients.exec
    /\ \E strategy \in node.strategies : strategy.submits
    /\ node' = [node EXCEPT !.ordered = TRUE]
    /\ UNCHANGED <<unclosed, lost>>

\* Mutant of StopNode: a node that was only built leaves no NODE_STOP.
StopNodeThatRan ==
    /\ node # NoNode
    /\ unclosed' = IF node.mode = "BUILD ONLY" THEN unclosed ELSE unclosed - 1
    /\ node' = NoNode
    /\ UNCHANGED lost

\* However run() ends, by return or exception, NODE_STOP is written; a node
\* that was only built writes it at once.
StopNode ==
    /\ node # NoNode
    /\ unclosed' = unclosed - 1
    /\ node' = NoNode
    /\ UNCHANGED lost

\* External: the process is killed.
KillNode ==
    /\ node # NoNode
    /\ lost < MaxLost
    /\ lost' = lost + 1
    /\ node' = NoNode
    /\ UNCHANGED unclosed

Next ==
    \/ \E profile \in Profiles, env \in Shells, dry, live \in BOOLEAN :
           Paper(profile, env, dry, live)
    \/ \E profile \in Profiles, env \in Shells, dry \in BOOLEAN, catalog \in Catalogs :
           Backtest(profile, env, dry, catalog)
    \/ BuildFails
    \/ SubmitOrder
    \/ StopNode
    \/ KillNode

Spec == Init /\ [][Next]_vars

-----------------------------------------------------------------------------
(***************************************************************************)
(* Properties.                                                             *)
(***************************************************************************)
Running == node # NoNode

TypeOK ==
    /\ unclosed \in Nat /\ lost \in 0..MaxLost
    /\ Running => node.mode \in Modes /\ node.ordered \in BOOLEAN

\* The journal tells how many nodes were lost: the starts without a stop are
\* the node that runs and the nodes that failed to build or were killed.
LaunchInv ==
    /\ TypeOK
    /\ unclosed = lost + (IF Running THEN 1 ELSE 0)

\* A venue gets an order only when all three opt-ins were given to the command
\* that started the node: the flag, the profile, and a true variable; an empty
\* or false variable stands in for none.  That it is the profile that opted in
\* rests on FilesAssumption: an overlay that set allow_live would be obeyed.
OrdersNeedThreeOptIns ==
    Running /\ node.ordered =>
        /\ node.mode = "LIVE"
        /\ node.launch.live
        /\ "allow_live" \in DOMAIN node.launch.profile /\ node.launch.profile.allow_live
        /\ node.launch.env["ZERODTE_ALLOW_LIVE"] \in Truthy

\* The banner tells the truth about every strategy of the node: in LIVE mode
\* each reference strategy submits, in the other modes no strategy does; and a
\* --live that runs at all runs LIVE.
ModeTruthful ==
    Running /\ node.mode # "BACKTEST" =>
        /\ \A strategy \in node.strategies :
               strategy.submits <=> strategy.class = "reference" /\ node.mode = "LIVE"
        /\ node.launch.live => node.mode = "LIVE"

\* Nobody asks in vain: when a strategy of the node waits for an approval, the
\* selector that gives it is among the node's actors; and two strategies in one
\* node are never left without one.
AskersHaveSelector ==
    /\ Running
    /\ \/ \E strategy \in node.strategies : strategy.asks
       \/ Len(ResolvedStrategies(node.cfg)) > 1
    => "selector" \in node.actors

\* The variable that a credential is to be taken from.
Named(profile, k) == IF k \in DOMAIN profile THEN profile[k] ELSE Defaults[k]

\* A LIVE node on Deribit holds a key and a secret, and mainnet is given those of
\* the variables that the profile names, or the default ones: whatever the shell
\* holds and turns DERIBIT_TESTNET into, the testnet's variables never stand in.
\* They do reach mainnet if it is the profile that names them.
CredentialsOfNet ==
    Running =>
        /\ node.clients.net = "mainnet" =>
               node.clients.credentials \subseteq
                   { Named(node.launch.profile, "api_key_env"),
                     Named(node.launch.profile, "api_secret_env"), Unset }
        /\ node.mode = "LIVE" /\ node.clients.net \in {"testnet", "mainnet"} =>
               Unset \notin node.clients.credentials

\* The profile has the last word: no base file, overlay or default changes
\* what it sets.  Only a variable that is set overrides it, and the flags
\* decide about dry_run (and --streaming, whose keys are left out, about those).
ProfileWins ==
    Running =>
        \A k \in DOMAIN node.launch.profile :
            \/ node.cfg[k] = node.launch.profile[k]
            \/ k = "dry_run"
            \/ /\ k \in DOMAIN Overrides
               /\ node.launch.env[Overrides[k]] \notin {Unset, Empty}

\* A backtest charges either nothing or the fees of its own venue; a dry one has
\* no strategy that submits, whatever its profile says; and unless a strategy
\* brings a reference section of its own, which fees and feeds do not look at,
\* a strategy in plumbing mode is neither charged nor shown an option chain.
BacktestHonest ==
    Running /\ node.mode = "BACKTEST" =>
        /\ node.fees \in {"none", VenueFees(node.cfg)}
        /\ node.cfg.dry_run => \A strategy \in node.strategies : ~strategy.submits
        /\ /\ \A n \in DOMAIN ResolvedStrategies(node.cfg) :
                  "plumbing" \notin DOMAIN ResolvedStrategies(node.cfg)[n]
           /\ \E strategy \in node.strategies : strategy.plumbing
           => node.fees = "none" /\ node.data = {"first_underlying"}

\* README.md:79 says that DRY_RUN=1 forces dry-run mode, and architecture.md:33
\* that no orders are submitted then.
DryRunForced ==
    Running /\ node.launch.env["DRY_RUN"] \in Truthy => ~node.ordered

=============================================================================
