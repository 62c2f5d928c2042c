----------------------------- MODULE ToolTable -----------------------------
(***************************************************************************)
(* The registered tools as tools/mod.rs declares them, one block per       *)
(* stretch of the file: what a tool's annotations say it does.             *)
(*                                                                         *)
(*   "read"     read_only_hint = true: the only tools call_tool retries    *)
(*   "write"    read_only_hint = false, destructive_hint = false           *)
(*   "destroy"  read_only_hint = false, destructive_hint = true            *)
(*                                                                         *)
(* and, in the same file, which of them the restricted endpoint serves,    *)
(* which belong to one data center, and, in data/scopes.json, which OAuth  *)
(* scope a tool's requests need.                                           *)
(***************************************************************************)
EXTENDS TLC

Reads(tools) == [tool \in tools |-> "read"]
Writes(tools) == [tool \in tools |-> "write"]
Destroys(tools) == [tool \in tools |-> "destroy"]

Basics ==
    Reads({"now", "get_me", "static_info", "quote", "option_quote",
              "warrant_quote"})
    @@ Writes({"authenticate"})

QuoteBoard ==
    Reads({"depth", "brokers", "participants", "trades", "intraday",
              "candlesticks", "history_candlesticks_by_offset"})

CandlesAndOptions ==
    Reads({"history_candlesticks_by_date", "trading_days",
              "option_chain_expiry_date_list",
              "option_chain_info_by_date", "capital_flow",
              "capital_distribution"})

SessionsAndMacro ==
    Reads({"trading_session", "market_temperature",
              "history_market_temperature", "macrodata_indicators",
              "macrodata", "watchlist", "filings"})

WarrantsAndWatchlist ==
    Reads({"warrant_issuers", "warrant_list", "calc_indexes"})
    @@ Writes({"create_watchlist_group"})
    @@ Destroys({"delete_watchlist_group", "update_watchlist_group"})

Positions ==
    Reads({"security_list", "account_balance", "stock_positions",
              "fund_positions", "margin_ratio", "today_orders",
              "order_detail"})

OrdersAndCash ==
    Reads({"today_executions", "history_orders", "history_executions",
              "cash_flow"})
    @@ Destroys({"cancel_order", "submit_order"})

OrderChanges ==
    Reads({"estimate_max_purchase_quantity", "financial_report",
              "institution_rating", "institution_rating_detail"})
    @@ Destroys({"submit_multileg_order", "replace_order"})

Estimates ==
    Reads({"dividend", "dividend_detail", "forecast_eps", "consensus",
              "valuation", "valuation_history"})

CompanyProfile ==
    Reads({"industry_valuation", "industry_valuation_dist", "company",
              "executive", "shareholder", "fund_holder"})

Operations ==
    Reads({"corp_action", "invest_relation", "operating", "market_status",
              "broker_holding", "broker_holding_detail"})

MarketData ==
    Reads({"broker_holding_daily", "ah_premium", "ah_premium_intraday",
              "trade_stats", "anomaly", "constituent"})

FundCatalogue ==
    Reads({"finance_calendar", "fund_hot", "fund_list", "fund_filters",
              "fund_detail", "fund_analysis", "fund_analysis_detail"})

FundSeries ==
    Reads({"fund_trend", "fund_annual_returns", "fund_quarterly_returns",
              "fund_performance", "fund_performance_comparison",
              "fund_nav", "fund_nav_history"})

FundHoldings ==
    Reads({"fund_nav_range", "fund_holdings", "fund_stock_holdings",
              "fund_position_overview", "fund_position",
              "fund_position_performance"})

FundRecords ==
    Reads({"fund_position_profits", "fund_position_nav",
              "fund_position_dividends", "fund_orders", "fund_order",
              "fund_transactions"})

FundOrdersAndRates ==
    Reads({"exchange_rate", "fx_rate", "profit_analysis"})
    @@ Writes({"fund_validate_order"})
    @@ Destroys({"fund_submit_order", "fund_cancel_order"})

ProfitAndAlerts ==
    Reads({"profit_analysis_detail", "profit_analysis_realized",
              "alert_list"})
    @@ Writes({"alert_add", "alert_enable"})
    @@ Destroys({"alert_delete"})

SignalsAndNews ==
    Reads({"signals", "signal_detail", "security_facts", "news",
              "news_detail"})
    @@ Writes({"alert_disable"})

Topics ==
    Reads({"topic", "topic_detail", "topic_replies", "statement_list"})
    @@ Writes({"topic_create", "topic_create_reply"})

StatementsAndPlans ==
    Reads({"statement_export", "short_positions", "option_volume",
              "option_volume_daily", "dca_list"})
    @@ Writes({"dca_create"})
    @@ Destroys({"dca_update"})

PlanControl ==
    Reads({"dca_history", "dca_stats", "dca_check", "grid_symbol_info"})
    @@ Writes({"dca_pause", "dca_resume"})
    @@ Destroys({"dca_stop"})

GridOrders ==
    Reads({"grid_list", "grid_list_by_ids", "grid_detail",
              "grid_trigger_history"})
    @@ Writes({"grid_submit"})
    @@ Destroys({"grid_replace", "grid_cancel"})

GridAndLists ==
    Reads({"sharelist_list", "sharelist_detail"})
    @@ Writes({"grid_suspend", "grid_restart", "sharelist_create"})
    @@ Destroys({"sharelist_delete"})

ListItems ==
    Reads({"sharelist_popular", "quant_run", "news_search"})
    @@ Writes({"sharelist_add"})
    @@ Destroys({"sharelist_remove", "sharelist_sort"})

Financials ==
    Reads({"topic_search", "financial_statement",
              "financial_report_key_metrics", "etf_docs",
              "financial_report_latest", "valuation_rank"})

RatingsAndMoney ==
    Reads({"institution_rating_history",
              "institution_rating_industry_rank", "short_margin",
              "bank_cards", "withdrawals", "deposits"})

Ipo ==
    Reads({"ipo_subscriptions", "ipo_calendar", "ipo_listed",
              "ipo_detail", "ipo_orders", "ipo_order_detail"})

Segments ==
    Reads({"ipo_profit_loss", "business_segments",
              "business_segments_history", "institutional_views",
              "industry_rank", "industry_peers"})

Comparisons ==
    Reads({"financial_report_snapshot", "shareholder_top",
              "shareholder_detail", "valuation_comparison",
              "short_trades", "top_movers"})

Screening ==
    Reads({"rank_categories", "rank_list",
              "screener_recommend_strategies", "screener_user_strategies",
              "screener_strategy", "screener_search"})

ScreenerIndicators ==
    Reads({"screener_indicators"})

\* cached_router: the registered tools and how each is annotated.
ToolClass ==
    Basics @@ QuoteBoard @@ CandlesAndOptions @@ SessionsAndMacro
    @@ WarrantsAndWatchlist @@ Positions @@ OrdersAndCash @@ OrderChanges
    @@ Estimates @@ CompanyProfile @@ Operations @@ MarketData
    @@ FundCatalogue @@ FundSeries @@ FundHoldings @@ FundRecords
    @@ FundOrdersAndRates @@ ProfitAndAlerts @@ SignalsAndNews @@ Topics
    @@ StatementsAndPlans @@ PlanControl @@ GridOrders @@ GridAndLists
    @@ ListItems @@ Financials @@ RatingsAndMoney @@ Ipo @@ Segments
    @@ Comparisons @@ Screening @@ ScreenerIndicators

Registered == DOMAIN ToolClass

\* is_read_only_tool
IsReadOnly(tool) == ToolClass[tool] = "read"

-----------------------------------------------------------------------------
(* Where a tool is served. *)

\* The rows of TOOL_ENDPOINTS without V2; every other tool has a row with it.
OffV2 ==
    {"bank_cards", "cancel_order", "dca_check", "dca_create",
     "dca_history", "dca_list", "dca_pause", "dca_resume", "dca_stats",
     "dca_stop", "dca_update", "deposits", "fund_cancel_order",
     "fund_submit_order", "grid_cancel", "grid_detail", "grid_list",
     "grid_list_by_ids", "grid_replace", "grid_restart", "grid_submit",
     "grid_suspend", "grid_symbol_info", "grid_trigger_history",
     "ipo_order_detail", "ipo_orders", "ipo_profit_loss",
     "replace_order", "submit_multileg_order", "submit_order",
     "withdrawals", "authenticate"}

V2Tools == Registered \ OffV2

\* US_ONLY_TOOLS and AP_ONLY_TOOLS: their upstream exists in one data center.
UsOnlyTools ==
    {"profit_analysis_realized", "financial_report_key_metrics",
     "etf_docs"}

ApOnlyTools ==
    {"fund_positions", "margin_ratio", "brokers", "broker_holding",
     "broker_holding_detail", "broker_holding_daily", "operating",
     "dca_list", "dca_create", "dca_update", "dca_pause", "dca_resume",
     "dca_stop", "dca_history", "dca_stats", "dca_check"}

\* is_hidden_for_dc_region
IsHiddenFor(region, tool) ==
    IF region = "us" THEN tool \in ApOnlyTools ELSE tool \in UsOnlyTools

\* Tools that never look at the request's credentials.
ContextFree == {"authenticate", "now", "fx_rate"}

-----------------------------------------------------------------------------
(* OAuth scopes. *)

WatchlistScope ==
    {"create_watchlist_group", "delete_watchlist_group",
     "security_list", "update_watchlist_group", "watchlist"}

AccountReadScope ==
    {"account_balance", "bank_cards", "cash_flow", "deposits",
     "fund_position", "fund_position_dividends", "fund_position_nav",
     "fund_position_overview", "fund_position_performance",
     "fund_position_profits", "fund_positions", "ipo_order_detail",
     "ipo_orders", "ipo_profit_loss", "margin_ratio", "profit_analysis",
     "profit_analysis_detail", "profit_analysis_realized",
     "short_margin", "statement_export", "statement_list",
     "stock_positions", "withdrawals"}

TradeReadScope ==
    {"dca_history", "dca_list", "dca_stats",
     "estimate_max_purchase_quantity", "fund_order", "fund_orders",
     "fund_transactions", "fund_validate_order", "grid_detail",
     "grid_list", "grid_list_by_ids", "grid_symbol_info",
     "grid_trigger_history", "history_executions", "history_orders",
     "order_detail", "today_executions", "today_orders"}

TradeWriteScope ==
    {"cancel_order", "dca_create", "dca_pause", "dca_resume",
     "dca_stop", "dca_update", "fund_cancel_order", "fund_submit_order",
     "grid_cancel", "grid_replace", "grid_restart", "grid_submit",
     "grid_suspend", "replace_order", "submit_multileg_order",
     "submit_order"}

\* A tool in none of them needs a token and no scope.
ScopeOf(tool) ==
    CASE tool \in WatchlistScope -> "watchlist"
      [] tool \in AccountReadScope -> "account.read"
      [] tool \in TradeReadScope -> "trade.read"
      [] tool \in TradeWriteScope -> "trade.write"
      [] OTHER -> "general"

\* Scope::id is left out: what a client asks for is the same under any number.
Scopes == {"watchlist", "account.read", "trade.read", "trade.write"}

V2Scopes == Scopes \ {"trade.write"}

=============================================================================
