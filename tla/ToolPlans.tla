----------------------------- MODULE ToolPlans -----------------------------
(***************************************************************************)
(* What each tool asks of upstream, read off its function: one block per   *)
(* stretch of a source file.  A tool has a set of plans, one for each way  *)
(* its arguments or what it reads may take it.  A plan is a sequence of    *)
(* steps, a step the requests in flight together and what becomes of the   *)
(* call when one of them fails.  Parameters, the endpoints' own names and  *)
(* the reshaping of answers are left out.                                  *)
(*                                                                         *)
(* A request says what it does upstream ("look" and its kinds leave        *)
(* everything as it was) and the only data center it exists in, if any.    *)
(***************************************************************************)
EXTENDS ToolTable, Integers, Sequences

CONSTANT MaxCrypto \* bound: crypto symbols in one static_info call

ASSUME MaxCryptoAssumption == MaxCrypto \in Nat \ {0}

Look(dc) == [does |-> "look", dc |-> dc]
Do(what) == [does |-> what, dc |-> "any"]

\* Requests in flight together; the first failure is the call's (`?`,
\* try_join!).
Each(asks) == [mode |-> "all", asks |-> asks, rounds |-> 1]

\* The same request once per page, window or symbol, while there is a next.
Pages(ask, most) == [mode |-> "all", asks |-> <<ask>>, rounds |-> most]

\* join! and then `?` on each: all are waited for.
Together(asks) == [mode |-> "settle", asks |-> asks, rounds |-> 1]

\* join!, and the half that worked is enough.
Halves(asks) == [mode |-> "halves", asks |-> asks, rounds |-> 1]

\* Best effort: a failure ends the step and not the call.
Try(ask, most) == [mode |-> "extra", asks |-> <<ask>>, rounds |-> most]

\* Once more with one less when upstream refuses the count.
Boundary(ask) == [mode |-> "boundary", asks |-> <<ask>>, rounds |-> 2]

\* Without a confirmation code, and with one.
Plain(steps) == [code |-> FALSE, steps |-> steps]
Confirmed(steps) == [code |-> TRUE, steps |-> steps]

One(ask) == Plain(<<Each(<<ask>>)>>)

AllOf(tools, ask) == [tool \in tools |-> {One(ask)}]
LookUps(tools) == AllOf(tools, Look("any"))

\* Two-step writes: the dry run asks nothing, or looks at what would change.
Gated(tools, glance) ==
    [tool \in tools |-> {Plain(glance), Confirmed(<<Each(<<Do("order")>>)>>)}]

\* A tool with an endpoint of its own for US accounts, and for their .US
\* symbols.
ByRegion(region, tools) ==
    AllOf(tools, Look(region))
UsVariant(region, tools) ==
    [tool \in tools |->
        {One(Look("any"))} \cup (IF region = "us" THEN {One(Look("us"))} ELSE {})]

-----------------------------------------------------------------------------
(* tools/mod.rs, fx.rs, authenticate.rs, profile.rs *)

NoRequest == [tool \in {"now", "get_me"} |-> {Plain(<<>>)}]

\* Nothing is fetched when the cached rate is fresh.
FxRate == "fx_rate" :> {Plain(<<>>), One(Look("any"))}

\* A code that does not unpack is not exchanged.
Authenticate == "authenticate" :> {Plain(<<>>), One(Do("exchange"))}

-----------------------------------------------------------------------------
(* quote.rs *)

\* Crypto symbols of a US account one by one, then the others in one request.
StaticInfo(region) ==
    "static_info" :>
        {One(Look("any"))}
        \cup IF region = "us"
             THEN {Plain(<<Pages(Look("us"), MaxCrypto)>>),
                   Plain(<<Pages(Look("us"), MaxCrypto), Each(<<Look("any")>>)>>)}
             ELSE {}

\* The Greeks are merged in when they can be had.
OptionQuote ==
    "option_quote" :> {Plain(<<Each(<<Look("any")>>), Try(Look("any"), 1)>>)}

QuoteRows == LookUps({"quote"})
WarrantAndDepth ==
    LookUps({"warrant_quote", "depth", "participants", "trades"})
    @@ AllOf({"brokers"}, Look("ap"))
Intraday == LookUps({"intraday"})

LatestCandles == "candlesticks" :> {Plain(<<Boundary(Look("any"))>>)}
CandlesByOffset ==
    "history_candlesticks_by_offset" :> {Plain(<<Boundary(Look("any"))>>)}
CandlesByDate == LookUps({"history_candlesticks_by_date"})

\* TRADING_DAYS_MAX_SPAN in windows of TRADING_DAYS_WINDOW, each one day after
\* the end of the last.
TradingDays == "trading_days" :> {Plain(<<Pages(Look("any"), 10)>>)}

OptionChain ==
    LookUps({"option_chain_expiry_date_list", "option_chain_info_by_date"})
Capital == LookUps({"capital_flow", "capital_distribution"})
MarketContext ==
    LookUps({"trading_session", "market_temperature",
             "history_market_temperature", "watchlist", "filings",
             "warrant_issuers"})
Warrants == LookUps({"warrant_list"})
CalcIndexes == LookUps({"calc_indexes"})

WatchlistGroups ==
    AllOf({"create_watchlist_group", "delete_watchlist_group",
           "update_watchlist_group"}, Do("setting"))
    @@ LookUps({"security_list"})

ShortAndOptionVolume ==
    LookUps({"short_positions", "option_volume", "option_volume_daily"})

-----------------------------------------------------------------------------
(* trade.rs, statement.rs, atm.rs, ipo.rs *)

Balances(region) ==
    ByRegion(region, {"account_balance", "stock_positions"})
    @@ AllOf({"fund_positions", "margin_ratio"}, Look("ap"))

\* A US account's orders: the page it names, or every page up to
\* US_ORDER_MAX_PAGES.
OrderList(region) ==
    IF region = "us"
    THEN {One(Look("us")), Plain(<<Pages(Look("us"), 10)>>)}
    ELSE {One(Look("any"))}

TodayOrders(region) == "today_orders" :> OrderList(region)
HistoryOrders(region) == "history_orders" :> OrderList(region)

OrderDetailLook(region) ==
    Look(IF region = "us" THEN "us" ELSE "any")
OrderDetail(region) == AllOf({"order_detail"}, OrderDetailLook(region))

\* preview_existing_order: a failed look-up does not break the dry run.
CancelOrder(region) ==
    Gated({"cancel_order"}, <<Try(OrderDetailLook(region), 1)>>)
ReplaceOrder(region) ==
    Gated({"replace_order"}, <<Try(OrderDetailLook(region), 1)>>)
SubmitOrder == Gated({"submit_order"}, <<>>)

\* Not two-step.
SubmitMultiLegOrder == AllOf({"submit_multileg_order"}, Do("order"))

\* us_fill_sides: the orders over the fills' range and, for what is still
\* unmatched, over their symbols, then one order at a time; never fails.
FillSideSteps ==
    <<Try(Look("us"), 10), Try(Look("us"), 10), Try(Look("us"), 20)>>

TodayExecutions(region) ==
    "today_executions" :>
        IF region = "us"
        THEN {Plain(<<Each(<<Look("any")>>)>> \o FillSideSteps)}
        ELSE {Plain(<<Each(<<Look("any"), Look("any")>>)>>)}

\* The v3 walk ends at its page limit or at the first page without more.
HistoryExecutions(region) ==
    "history_executions" :>
        IF region = "us"
        THEN {Plain(<<Each(<<Look("any")>>)>> \o FillSideSteps)}
        ELSE {Plain(<<Pages(Look("ap"), 1000)>>)}

CashFlow(region) ==
    "cash_flow" :> IF region = "us" THEN {Plain(<<Pages(Look("us"), 20)>>)}
                                    ELSE {One(Look("ap"))}

MaxQuantity == LookUps({"estimate_max_purchase_quantity", "short_margin"})

Statements == LookUps({"statement_list", "statement_export"})
MoneyMovement == AllOf({"bank_cards", "withdrawals", "deposits"}, Do("moneyLook"))

\* One request after the other, all needed.
IpoMarket ==
    [tool \in {"ipo_subscriptions", "ipo_listed"} |->
        {Plain(<<Each(<<Look("any")>>), Each(<<Look("any")>>)>>)}]
    @@ LookUps({"ipo_calendar"})
    @@ "ipo_detail" :> {Plain([i \in 1..3 |-> Each(<<Look("any")>>)])}
IpoAccount ==
    [tool \in {"ipo_orders", "ipo_profit_loss"} |->
        {Plain([i \in 1..2 |-> Each(<<Do("ipoLook")>>)])}]
    @@ AllOf({"ipo_order_detail"}, Do("ipoLook"))

-----------------------------------------------------------------------------
(* fundamental.rs, signal.rs, macrodata.rs *)

Reports(region) == UsVariant(region, {"financial_report"})

\* get_with_backoff on both halves.
InstitutionRating ==
    "institution_rating" :> {Plain(<<Halves(<<Look("any"), Look("any")>>)>>)}

Ratings(region) ==
    LookUps({"institution_rating_detail", "dividend_detail", "forecast_eps"})
    @@ UsVariant(region, {"dividend"})
ConsensusAndValuation(region) == UsVariant(region, {"consensus", "valuation"})
Valuations == LookUps({"valuation_history", "industry_valuation",
                       "industry_valuation_dist"})
Company(region) ==
    UsVariant(region, {"company"})
    @@ LookUps({"executive", "shareholder", "fund_holder", "corp_action",
                "invest_relation"})
Operating == AllOf({"operating"}, Look("ap"))

\* kind = ALL is three requests for a US symbol.
FinancialStatement(region) ==
    "financial_statement" :>
        {One(Look("any"))}
        \cup IF region = "us"
             THEN {One(Look("us")),
                   Plain(<<Each([i \in 1..3 |-> Look("us")])>>)}
             ELSE {}

UsFundamentals ==
    AllOf({"financial_report_key_metrics", "etf_docs"}, Look("us"))
LatestAndRank == LookUps({"financial_report_latest", "valuation_rank"})
RatingHistory ==
    LookUps({"institution_rating_history", "institution_rating_industry_rank",
             "business_segments"})
SegmentsAndPeers ==
    LookUps({"business_segments_history", "institutional_views",
             "industry_peers"})
SnapshotAndHolders ==
    LookUps({"financial_report_snapshot", "shareholder_top",
             "shareholder_detail", "valuation_comparison"})
SignalsAndFacts == LookUps({"signals", "signal_detail", "security_facts"})
Macrodata == LookUps({"macrodata_indicators", "macrodata"})

-----------------------------------------------------------------------------
(* market.rs, calendar.rs, screener.rs, quant.rs *)

BrokerHoldings ==
    LookUps({"market_status"})
    @@ AllOf({"broker_holding", "broker_holding_detail",
              "broker_holding_daily"}, Look("ap"))
Premiums == LookUps({"ah_premium", "ah_premium_intraday", "trade_stats",
                     "anomaly"})

\* An ETF answers with its allocation, anything else is asked a second time.
Constituent ==
    "constituent" :> {One(Look("any")),
                      Plain(<<Each(<<Look("any")>>), Each(<<Look("any")>>)>>)}
IndustryAndShorts == LookUps({"industry_rank", "short_trades"})
Rankings == LookUps({"top_movers", "rank_categories", "rank_list"})

\* MAX_PAGES pages; the pages already there survive a failure.
FinanceCalendar ==
    "finance_calendar" :>
        {Plain(<<Each(<<Look("any")>>), Try(Look("any"), 19)>>)}

Strategies ==
    LookUps({"screener_recommend_strategies", "screener_user_strategies",
             "screener_strategy"})
\* A strategy is fetched before the search it describes.
ScreenerSearch ==
    "screener_search" :> {One(Look("any")),
                          Plain(<<Each(<<Look("any")>>), Each(<<Look("any")>>)>>)}
Indicators == LookUps({"screener_indicators"})
QuantRun == LookUps({"quant_run"})

-----------------------------------------------------------------------------
(* portfolio.rs, alert.rs, content.rs, search.rs, dca.rs, sharelist.rs *)

ExchangeRate(region) == ByRegion(region, {"exchange_rate"})

\* Both are waited for, and both are needed.
ProfitAnalysis ==
    "profit_analysis" :> {Plain(<<Together(<<Look("any"), Look("any")>>)>>)}
ProfitDetail ==
    LookUps({"profit_analysis_detail"})
    @@ AllOf({"profit_analysis_realized"}, Look("us"))

\* The whole alert is posted again as it was read, one flag changed.
Alerts ==
    LookUps({"alert_list"})
    @@ AllOf({"alert_add", "alert_delete"}, Do("setting"))
    @@ [tool \in {"alert_enable", "alert_disable"} |->
            {One(Look("any")),
             Plain(<<Each(<<Look("any")>>), Each(<<Do("setting")>>)>>)}]

News == LookUps({"news", "news_detail"})
Community ==
    LookUps({"topic", "topic_detail", "topic_replies"})
    @@ AllOf({"topic_create", "topic_create_reply"}, Do("setting"))
Searches == LookUps({"news_search", "topic_search"})

Dca ==
    AllOf({"dca_list", "dca_history", "dca_stats", "dca_check"},
          [does |-> "dcaLook", dc |-> "ap"])
    @@ AllOf({"dca_create", "dca_update", "dca_pause", "dca_resume",
              "dca_stop"}, [does |-> "dca", dc |-> "ap"])

Sharelists ==
    LookUps({"sharelist_list", "sharelist_detail", "sharelist_popular"})
    @@ AllOf({"sharelist_create", "sharelist_delete", "sharelist_add",
              "sharelist_remove", "sharelist_sort"}, Do("setting"))

-----------------------------------------------------------------------------
(* fund.rs, grid.rs *)

FundMarket ==
    LookUps({"fund_hot", "fund_list", "fund_filters", "fund_detail",
             "fund_analysis", "fund_analysis_detail", "fund_trend",
             "fund_annual_returns", "fund_quarterly_returns",
             "fund_performance", "fund_performance_comparison", "fund_nav",
             "fund_nav_history", "fund_nav_range"})
FundAccount ==
    LookUps({"fund_holdings", "fund_stock_holdings", "fund_position_overview",
             "fund_position", "fund_position_performance",
             "fund_position_profits", "fund_position_nav",
             "fund_position_dividends"})
FundOrders ==
    LookUps({"fund_orders", "fund_order", "fund_transactions",
             "fund_validate_order"})
FundSubmitOrder == Gated({"fund_submit_order"}, <<>>)
FundCancelOrder == Gated({"fund_cancel_order"}, <<Try(Look("any"), 1)>>)

GridLooks ==
    LookUps({"grid_symbol_info", "grid_list", "grid_list_by_ids",
             "grid_detail", "grid_trigger_history"})
GridOrder ==
    Gated({"grid_submit", "grid_replace", "grid_cancel", "grid_suspend",
           "grid_restart"}, <<>>)

-----------------------------------------------------------------------------

PlansOf(region) ==
    NoRequest @@ FxRate @@ Authenticate
    @@ StaticInfo(region) @@ OptionQuote @@ QuoteRows @@ WarrantAndDepth
    @@ Intraday @@ LatestCandles @@ CandlesByOffset @@ CandlesByDate
    @@ TradingDays @@ OptionChain @@ Capital @@ MarketContext @@ Warrants
    @@ CalcIndexes @@ WatchlistGroups @@ ShortAndOptionVolume
    @@ Balances(region) @@ TodayOrders(region) @@ HistoryOrders(region)
    @@ OrderDetail(region) @@ CancelOrder(region) @@ ReplaceOrder(region)
    @@ SubmitOrder @@ SubmitMultiLegOrder @@ TodayExecutions(region)
    @@ HistoryExecutions(region) @@ CashFlow(region) @@ MaxQuantity
    @@ Statements @@ MoneyMovement @@ IpoMarket @@ IpoAccount
    @@ Reports(region) @@ InstitutionRating @@ Ratings(region)
    @@ ConsensusAndValuation(region) @@ Valuations @@ Company(region)
    @@ Operating @@ FinancialStatement(region) @@ UsFundamentals
    @@ LatestAndRank @@ RatingHistory @@ SegmentsAndPeers
    @@ SnapshotAndHolders @@ SignalsAndFacts @@ Macrodata
    @@ BrokerHoldings @@ Premiums @@ Constituent @@ IndustryAndShorts
    @@ Rankings @@ FinanceCalendar @@ Strategies @@ ScreenerSearch
    @@ Indicators @@ QuantRun @@ ExchangeRate(region) @@ ProfitAnalysis
    @@ ProfitDetail @@ Alerts @@ News @@ Community @@ Searches @@ Dca
    @@ Sharelists @@ FundMarket @@ FundAccount @@ FundOrders
    @@ FundSubmitOrder @@ FundCancelOrder @@ GridLooks @@ GridOrder

UsPlans == PlansOf("us")
ApPlans == PlansOf("ap")

Plans(region, tool) ==
    IF region = "us" THEN UsPlans[tool] ELSE ApPlans[tool]

\* Requests that leave everything as it was.
LookKinds == {"look", "dcaLook", "moneyLook", "ipoLook"}

=============================================================================
