------------------------------ MODULE MCLaunch ------------------------------
(***************************************************************************)
(* The committed configuration files, profiles modelled on the six         *)
(* committed ones and four variations on them, and every environment the   *)
(* launch can tell apart.                                                  *)
(***************************************************************************)
EXTENDS NodeLaunch

Runtime(class, underlying) == [class |-> class, underlying |-> underlying]
WithOwnReference(runtime) ==
    [class |-> runtime.class, underlying |-> runtime.underlying, plumbing |-> FALSE]

MCDefaults ==
    [ adapter |-> "IB", dry_run |-> FALSE, allow_live |-> FALSE, testnet |-> FALSE,
      strategies |-> <<>>, strategy |-> Runtime("skeleton", "SPY"), diversify |-> FALSE,
      ingest |-> FALSE, streaming |-> FALSE, plumbing |-> FALSE,
      fee_model |-> "maker_taker", close |-> "21:00", top_n |-> 3,
      api_key_env |-> "DERIBIT_API_KEY", api_secret_env |-> "DERIBIT_API_SECRET" ]

MCFiles ==
    [ base |-> [adapter |-> "IB"],
      risk |-> [k \in {} |-> TRUE],
      strategy |-> [strategy |-> Runtime("reference", "SPY"), plumbing |-> FALSE],
      fees |-> [ deribit_options |-> [fee_model |-> "maker_taker"],
                 ib_options |-> [fee_model |-> "fixed_per_contract"] ],
      session |-> [ crypto_deribit |-> [close |-> "08:00"],
                    us_equity |-> [close |-> "21:00"] ],
      diversification |-> [top_n |-> 1],
      streaming |-> [streaming |-> FALSE] ]

Reference == [adapter |-> "DERIBIT", strategy |-> Runtime("reference", "BTC"), dry_run |-> FALSE]

MCProfiles ==
    { [adapter |-> "DERIBIT", strategy |-> Runtime("gated_skeleton", "BTC"),
       testnet |-> TRUE, dry_run |-> TRUE, api_key_env |-> "DERIBIT_API_KEY",
       api_secret_env |-> "DERIBIT_API_SECRET"],                         \* paper_btc
      [adapter |-> "IB", strategy |-> Runtime("reference", "SPY"), dry_run |-> TRUE],
                                                                         \* paper_spy
      Reference,                                                         \* backtest_btc
      [adapter |-> "IB", strategy |-> Runtime("reference", "SPY"),
       close |-> "21:00", dry_run |-> FALSE],                            \* backtest_spy
      [strategy |-> Runtime("reference", "SPY"), plumbing |-> TRUE,
       dry_run |-> FALSE],                                               \* backtest_reference
      [adapter |-> "DERIBIT", diversify |-> TRUE, top_n |-> 1, dry_run |-> FALSE,
       strategies |-> <<WithOwnReference(Runtime("reference", "BTC")),
                        WithOwnReference(Runtime("reference", "ETH"))>>],
                                                                         \* backtest_btc_multi
      \* Opted in on both venues, with the testnet's variables named as its own,
      \* with two strategies and no word of diversification, with a class that
      \* does not exist, and with overlays that are named (one of them does not
      \* exist) and then overruled.
      [adapter |-> "DERIBIT", strategy |-> Runtime("reference", "BTC"),
       allow_live |-> TRUE, testnet |-> TRUE, api_key_env |-> "DERIBIT_TESTNET_API_KEY",
       api_secret_env |-> "DERIBIT_TESTNET_API_SECRET"],
      [adapter |-> "IB", strategy |-> Runtime("reference", "SPY"), allow_live |-> TRUE,
       fees_overlay |-> "deribit_options"],
      [adapter |-> "DERIBIT", allow_live |-> TRUE, top_n |-> 2, ingest |-> TRUE,
       strategies |-> <<Runtime("reference", "BTC"), Runtime("reference", "ETH")>>],
      [adapter |-> "DERIBIT", strategy |-> Runtime("referense", "BTC"), allow_live |-> TRUE,
       fees_overlay |-> "ib_options", session_overlay |-> "us_eqity", close |-> "16:00"] }

\* Credentials of either net, mixed ones, empty ones, and the IB gateway.
Accounts ==
    { [key |-> Unset, secret |-> Unset, tkey |-> Unset, tsecret |-> Unset, host |-> Unset],
      [key |-> "k", secret |-> "s", tkey |-> Unset, tsecret |-> Unset, host |-> Unset],
      [key |-> Unset, secret |-> Unset, tkey |-> "k", tsecret |-> "s", host |-> Empty],
      [key |-> "k", secret |-> Empty, tkey |-> Unset, tsecret |-> "s", host |-> Unset],
      [key |-> Empty, secret |-> Unset, tkey |-> "k", tsecret |-> Empty, host |-> "127.0.0.1"] }

MCShells ==
    { [ DRY_RUN |-> dry, ZERODTE_ALLOW_LIVE |-> allow, DERIBIT_TESTNET |-> testnet,
        IB_HOST |-> a.host, DERIBIT_API_KEY |-> a.key, DERIBIT_API_SECRET |-> a.secret,
        DERIBIT_TESTNET_API_KEY |-> a.tkey, DERIBIT_TESTNET_API_SECRET |-> a.tsecret ]
      : dry \in {Unset, "0", "1"}, allow \in {Unset, "0", "1"},
        testnet \in {Unset, "0", "1"}, a \in Accounts }

MCCatalogs ==
    {{}, {"quotes"}, {"quotes", "option_greeks"}, {"quotes", "option_greeks", "options"}}

=============================================================================
