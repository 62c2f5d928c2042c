# A TLA+ model of longbridge-mcp

longbridge-mcp is a hosted MCP server (Rust; tokio, axum, rmcp) that offers the Longbridge OpenAPI as 196
tools. It is stateless by design: every request carries its token, and there is no session and no database. What can
go wrong in it is therefore not a matter of stored data but of *what happens between two awaits*: calls that share
the little process-wide state there is, requests whose answers are lost, clients that resend, upstream data that
changes while it is paged through, and loops that must end.

This directory holds TLA+ modules of the parts where that matters, the TLC configurations that check them, and
TLAPS proofs about all that hold state. `PROJECT.json` lists, for every definition, the source lines it models.

## 1. Inventory

| component | state it keeps | operations | what is hard about it | what makes it correct |
|---|---|---|---|---|
| FX rate cache, `tools/fx.rs` | `CACHE` (response by URL), `IN_FLIGHT` (a tokio mutex per URL, behind an `Arc`): both process-wide | lookup, `Gate::acquire`, lock, recheck, request, `insert_bounded`, drop of the guard and of the gate | tasks on several threads interleave at every await and std-mutex section; cancellation at every await; capacity and expiry | one upstream request per URL at a time; none while a copy is fresh; nobody waits for ever; bounded cache, fair eviction |
| tools/call pipeline, `tools/mod.rs`, `tools/jq.rs` | per call: the `BACKOFF_RETRY` slot, the context; process-wide: counters | endpoint and region gates, `_jq` compilation, argument check, context, tool, one retry of a read, recording, error envelope, filter | answers lost after the effect; retries at two levels; a result lost *after* the tool ran; many exits | a write takes effect at most once; advice to resend is safe; every answer counted once |
| execution gate, `tools/support/dry_run.rs`, used in `trade.rs`, `grid.rs`, `fund.rs` | none: the code is a digest of the request | dry run, execute, canonical scope, verify | instances behind a load balancer; rewording by a model between the two calls; validation before or after the preview | nothing is sent that was not previewed; nothing previewed is refused |
| response limiting, `tools/support/response_limit.rs` | none | cut the largest array, again and again; notice | termination; which array, which end, how often; a notice made from earlier passes | the result fits or is bare; newest data kept; the notice complete |
| US order paging and fill sides, `tools/trade.rs`, `support/us_align.rs` | none | page walk with a cap, follow-up by symbol, single look-ups five at a time | orders appear while pages are walked; answers in any order; one of several requests fails | no wrong side; an untruncated walk is complete; every gap explained; it returns |
| tool listing and dispatch, `tools/mod.rs` | none | `tools/list`, endpoint and region gates, router, retry of a read | four tables in three files that must agree for 196 tools | what is listed works; what is not asks nothing upstream; retries repeat only look-ups |
| authentication, `auth/middleware.rs`, `auth/jwt.rs` | none | bearer extraction, challenge, optional auth on /agent | tokens that expire between two requests or during one | only /agent is reachable without a token; a dead token asks nothing |
| OAuth metadata and proxy, `auth/metadata.rs`, `auth/oauth_proxy.rs`, `tools/authenticate.rs` | none | well-known documents with the scopes to ask for, forwarding by region | scopes advertised here, needed elsewhere | who signs in as told can call what it is listed |
| router, landing page, metrics, logging, startup | static after startup | wiring, shutdown with a five second limit | forced exit with calls in flight | the port is released |
| endpoint and environment selection, `endpoints.rs` | `ENVIRONMENT`, set once | fixed before the first tool list is built | order at startup | one environment per process |
| JSON transformation, parsing, HTTP helpers | none | field renaming, time stamps, lenient parameters | data only | lossless conversion |
| market data, research, portfolio tools | none | one or several requests upstream, together or one after the other, by region; `institution_rating` joins two with a retry each; candlesticks retry at a count boundary | retries inside a tool under the retry of `call_tool`; endpoints of one data center only | one half's failure leaves the other; requests stay in the account's data center |
| finance calendar, `tools/calendar.rs` | none | a walk by date cursor, then a walk by offset for crowded dates, one budget | pages cut a date in two; failures half way; the cursor is upstream's | an answer not marked partial is complete; a partial one is short only where it says; it ends |
| US market clock, `support/us_market.rs`, `support/parse.rs`, order windows of `trade.rs` | none | New York instants, today's window, history range | days of 23 and 25 hours; clocks that differ | no gap between the windows a client is told to look in |
| alerts, DCA, sharelists | none | single writes; `alert_enable` reads, then writes back | delivery; lost updates | as for the pipeline |

How they interact: axum's middleware admits a request, rmcp dispatches `tools/call` to `call_tool`, which consults the
gates, hands the call to `jq::call`, which runs the routed tool through `measured_tool_call`; the tool asks upstream
over HTTP, and its result passes the filter and the response limit on its way out. Calls share only the FX cache, the
static tool lists and metric counters. Cancellation (a dropped connection or `notifications/cancelled`) drops the
call's future at its current await.

The hazards this makes for are listed, each at its line and with the properties that cover it, under `hazards` in
`PROJECT.json`.

## 2. Modules

Every module states its constants with a named assumption, has one action per stretch of code that nothing can
interrupt, and ends with its properties. Definitions whose comment begins with "Slip" are plausible errors
(a dropped guard, an off-by-one, a missing reset); in the mutation runs each takes the place of the definition that
follows it, and the property must then fail. They are no part of the specification.

### SingleFlight and FxCache

`SingleFlight` says what callers of `fx_rate` are promised, without gates: calls that want the same key share one
fetch, and nothing is fetched while a copy can be served. `FxCache` is the code.

| FxCache | `tools/fx.rs` |
|---|---|
| `cache[u]` | the `stored` instant of the entry in `CACHE`; bodies are not modelled |
| `inFlight[u]` | the mutex mapped in `IN_FLIGHT`, named by its address |
| `owner[l]`, `waiters[l]` | the tokio mutex at `l` and its FIFO of suspended `lock()` futures |
| `gate[c]`, `StrongCount` | the `Arc` in a call's `Gate`, and the reference count its `Drop` reads |
| `pc[c]` | where `fetch` is: before the first lookup, before `acquire`, at the lock, in the request, and three stages of drop glue (`_held`, `Gate::drop`, the `Arc` field) |
| `LookupHit/Miss`, `Acquire`, `Lock`, `RecheckHit/Miss`, `RespondOk/Err` | the stretches of `fetch` and `request` |
| `CancelWaiting`, `CancelHolding` | the future is dropped while it is queued, or while it holds the mutex |
| `Unlock`, `Release`, `Unref` | hand-over to the longest waiter; `Gate`'s `Drop` under the map's lock; the `Arc` field, dropped *after* `Drop` returned |

That the last two are separate steps is what Rust's drop order says, and what the run `fx_leak` turns on. Addresses
of mutexes may be reused once nothing refers to them. The std mutexes guard sections that cannot panic, so poisoned
locks are left out.

### OneEffect and ToolCall

`OneEffect` is the promise to a client that follows the server's advice: its write takes effect at most once, and it
is told to go on only while it certainly has not. `ToolCall` follows one client with one goal through `call_tool`,
`jq::call`, the router, the tool's upstream requests, `measured_tool_call`, the retry of a read, the error envelope
and the filter. Calls share nothing but counters, so one client is enough.

| ToolCall | code |
|---|---|
| `session`, `request` | endpoint and token; tool, arguments and `_jq` as what the code tells apart |
| `pc` | the stage of the call; each stage ends at an await or an early return |
| `step`, `wire` | which upstream request the tool is at, and whether upstream has executed it |
| `strays`, `effects` | writes the server gave up on that upstream may still execute; writes executed |
| `reply` | the class of the tool's outcome, as `recoverable_of`, `is_rate_limit` and `is_terminal_for` distinguish them |
| `answer` | what the client sees and the envelope's `recoverable` |
| `counts` | increments of the call, error, retry and filter counters |

The client resends exactly when `recoverable` says so, with other arguments or a token when it says so. Upstream may
lose a request or an answer (`Unconfirmed`), and may execute a write later (`Execute` on a stray). The model takes
an explicit refusal of upstream (bad parameters, rate limit, authentication, no data) to mean that the write was not
executed. `authenticate`, unknown tools and tools that need no context are left out.

### ExecutionGate

A `log` of calls to the ten gated tools, on any of several instances. A request is a record of what the code
tells apart: tool, object, headline (what the `Scope` constructors take), `rest` (the `.and` clauses), `note` (remark
and client request id, which are not part of the scope) and its spelling. `Scope` is what survives `canonical`;
`Code` is the digest modulo 1000; `DryRun...` and `Execute...` are the paths through the gate with validation before
it, where the tool has one. A caller quotes only codes it was shown, as text or as a number, on whatever request it
likes. `submit_multileg_order` has no gate and is not part of it.

### ResponseLimit

The loop of `limit` on a document of sections with rows: which array `largest_array` picks (the rank, and its
traversal order on a tie), how much of it stays, at which end (`keep_tail_by_time`), and what the notice records.
Bytes are weights, added up by `Total`; times are numbers, 0 for none. The clipping of text that is not JSON and the
wording of the notice are left out.

The notice names an array by its path, and the path of a section's rows changes when sections before it are cut away.
`NoticeComplete` therefore claims the rows only where the sections keep their positions: none has gone yet, or no two
of them are in the order of a past series, so that they go from the end (`SectionsStay`). Sections that begin as a
series into the future do not qualify: their second cut may be made at the other end (finding 3).

### FillSides

`collect_us_pages` and `resolve_fill_sides`: the account's `book` of orders grows at its head (`Place`) while the
pages are walked. `opened` remembers the book as it was when the walk began; it only serves the properties. Look-ups
start and end in any order, up to `Concurrency` at a time. Which orders are taken when there are too many depends on the order
of the executions, and is any choice here. `Matching` walks
the book from its end, as a recursive function.

### ToolTable, ToolPlans and Dispatch

`ToolTable` holds the server's tables: every registered tool with its annotation (read, write, destroy), the whitelist
of the directory endpoint, the tools of one region, the scope each needs and the scopes each endpoint advertises.
`ToolPlans` reads off each tool function which requests it makes: a *plan* is a sequence of steps, a step the requests
in flight together and what a failure means (`all`: the first is the call's; `settle`: all are waited for; `halves`:
one is enough; `extra`: none matters; `boundary`: once more with one less). A tool has one plan for each way its
arguments or its first answers may take it. A request says what it does upstream and the only data center it exists
in, if any. `Dispatch` is a client that signs in, lists and calls, its token expiring at any moment.

| Dispatch | code |
|---|---|
| `client`, `Admitted`, `Bearer` | endpoint and token; `mcp_auth_layer` in its two modes, `is_expired_at` |
| `listing`, `Listed` | the client as it was at its last `tools/list`, and what that answers |
| `Hidden`, `HasContext`, `PlansFor` | the restricted-endpoint gate, the data-center gate, `extract_context` and the tools that do without |
| `at`, `flight`, `Failing` | step and round of the plan, its requests, and which failure ends the call |
| `Pauses`, `Again` | `get_with_backoff` |
| `Outlived`, `Outcomes` | a token that expires after its call was let in, and what upstream answers; a request without a token is answered whatever the client's token has become |
| `Retries`, `Retry` | `BACKOFF_RETRY`: routed again, with the token as it was sent |

What ToolCall shows of one call in detail (`_jq`, argument errors, envelope, metrics, effects of lost answers) is left
out here; what Dispatch adds is every tool, every endpoint and several requests in flight. A request without a token
may call `now` and `fx_rate` on /agent although only `authenticate` is listed there, and `authenticate` can be called
on the main endpoint although it is not listed; `UnlistedAsksNothing` names the first as its exception.

### CalendarWalk

`finance_calendar`: `pages` are what was read, `days` the dates that filled a page (`full_dates`, each with the position
of its page, which is the order they are paged in), `partial` the first date the notice says is missing. A page holds
the events from the asked date on, as far as those of earlier dates leave room for them (`PageFrom`). Upstream is external: either it keeps the rule the code relies on (`steady`: the
cursor is the first date not finished, or the one after a date that filled the page), or it names any date at all.
Three things the model makes visible and no property forbids: a page of the first walk that is not JSON fails the whole
call although pages were read (`calendar.rs:219`; the comment at 205 and the second walk keep them); the notice names
the first reason only; and a cursor that stays on the current date ends the walk unmarked, which is complete only as
long as upstream never names a date it has begun.

### OrderWatch

A client whose write on a US account went unanswered looks for the order: in `today_orders`, and in `history_orders`
once the trading day is over. Time runs in hours of UTC; `NewYorkInstant` resolves hours that come twice or not at all
as the code does. `Check` lists what is in `TodayWindow` or `HistoryRange`. An order stamped past New York midnight
while this server's clock is still before it is in neither window (the comment at `us_market.rs:40-41` promises to keep
orders stamped slightly ahead, which is so within the day); `NothingOverlooked` states this exception.

## 3. Runs

All passing runs finish within three minutes, most within one. Deadlock is checked except where a call or a client has come to its end.

| run | module, cfg | instance | shows |
|---|---|---|---|
| `fx_gate` | MCFxCache, `FxCache_gate.cfg` | 3 calls, 3 URLs (one settled), 2 cache slots, clock to 2 | `GateAgreement`, `NoFetchWhileFresh`, `NoStrandedWaiter`, `EvictsOnlyOldestFresh`, and that FxCache implements SingleFlight (`Coalesced`) |
| `fx_live` | MCFxCache, `FxCache_live.cfg` | 3 calls, 1 URL that expires at every tick | `EveryCallReturns` |
| `fx_leak` | MCFxCache, `FxCache_leak.cfg` | 2 calls, 1 URL | **violated**: `MapHoldsOnlyInFlight` (finding 1) |
| `tool_call` | ToolCall, `ToolCall.cfg` | 5 tools of all kinds, 3 sends | `EffectAtMostOnce`, `ResendIsSafe`, `AnswerCountedOnce`, `EveryCallAnswered`, and that ToolCall implements OneEffect (`Delivered`) |
| `execution_gate` | MCExecutionGate, `ExecutionGate_gate.cfg` | 9 requests, 2 instances, 3 calls, 1 tick | `NothingUnseenSent`, `NoFalseRejection`, `PreviewIsExecutable` |
| `code_single_use` | MCExecutionGate, `ExecutionGate_single.cfg` | 1 order in four forms, 2 ticks | **violated**: `CodeAsDescribed` (finding 2) |
| `response_limit` | MCResponseLimit, `ResponseLimit.cfg` | some 1,500 documents | `FitsOrBare`, `NewestKept`, `NoticeComplete`, `Finishes` |
| `limit_calendar` | MCResponseLimit, `ResponseLimit_calendar.cfg` | calendars of 8 days around now | **violated**: `FutureKeepsHead` (finding 3) |
| `fill_sides` | MCFillSides, `FillSides.cfg` | pages of 2, at most 3; 5 to 7 orders, 1 older | `SidesTrue`, `WalkComplete`, `RepeatsOnlyWhenTrading`, `EveryFillAccounted` |
| `dispatch` | MCDispatch, `Dispatch.cfg` | all 196 tools, 3 endpoints, tokens of both regions ahead, past or opaque | `ListedWorks`, `UnlistedAsksNothing`, `PublicSurface`, `RetryRepeatsReads`, `HalfSurvives` |
| `calendar` | MCCalendarWalk, `CalendarWalk.cfg` | 3 dates and one after, up to 5 events each, pages of 2, 5 pages | `Complete`, `ShortWhereSaid`, `Returns` |
| `order_watch` | MCOrderWatch, `OrderWatch.cfg` | days around a change of clocks (forward, back, none), nearly 4 of them by the hour | `NothingOverlooked`, `ListedOnItsDay` |

Each passing run but `fx_live` also checks its module's `TypeOK`, which bounds the counters that matter: mutexes,
pages, rounds, attempts, look-ups.

Why these bounds are enough:

- FxCache: three calls are what it takes for one to hold, one to wait and one to come or go; the drop race needs two.
  More URLs than slots, of both lifetimes, let entries expire before and after each other, the fullest slot be lost to
  a neighbour, and a mutex address be reused for another URL. Calls, addresses and URLs of one lifetime are interchangeable, hence the
  symmetry; it is not used in the liveness run.
- ToolCall: three sends are a first call, a resend, and a resend of the resend; a second effect would show after two.
  The tools cover every combination of read or write, hidden or not, that the code distinguishes.
- ExecutionGate: a preview, an execution and one call between or after them, on two instances, with requests that
  differ in one respect each. The digest of the instance gives codes with leading zeros and digests above 1000.
- ResponseLimit: three sections and five rows are past both thresholds that matter (one element left; rows against
  sections), with documents that fit at once, after one cut, after several, and never.
- FillSides: unfiltered walks end short of the cap, at it, or past it, depending on how many orders are placed
  meanwhile; the follow-up can reach the cap as well.

- Dispatch: nothing of the tables is bounded: every tool is called under every kind of client. `MaxRounds` and
  `MaxCrypto` are 2: a page and another, the counts after which the code stops being the same step again. One client
  is enough, since requests share nothing.
- CalendarWalk: dates without events, with less than a page, exactly one, and up to two and a half pages; a budget
  that suffices for some windows and not for others, in either walk; failures at every request.
- OrderWatch: the days before, of and after a change in either direction, and none; every pair of an hour of sending
  and an hour of looking, with execution at any hour between them.

Fairness. FxCache: `WF(Step(c))`, as the runtime polls a task that can go on and the HTTP client ends a request after
its timeout; nothing obliges a call to be cancelled, and time need not pass. The tokio mutex is FIFO by hand-over,
which the model has as such, so weak fairness suffices. ToolCall: `WF(Server)` and `WF(Upstream)`, the task is polled
and every wait ends, at the latest with the client's timeout; the client is not fair, and a stray need never be
executed. ResponseLimit is a loop that waits for nothing. CalendarWalk: `WF(Step)`, one task whose requests have a time
limit. The other modules state safety only.

## 4. Proofs

TLC checks the instances above; the theorems hold for every value of the constants that satisfies the modules'
assumptions.

**FxCacheProofs.** The gate's properties are not inductive: to see that a second request cannot start one must know
who owns which mutex and that the URL's mutex is the one every holder has. `GateInv` is the conjunction of `TypeOK`;
`CallsOK` (a running call has a URL, and a reference from `acquire` on); `GateAgreement`; `MapInjective`
(no mutex is mapped to two URLs); `Ownership` (a call past the grant owns its mutex, and an owner refers to it);
`Queues` (queued calls wait, refer to the mutex, are queued once, and not at a free one); `Queued` (a suspended
call is in its queue). The crux is `LastHolder`: when the count `Drop` reads is at most two, no other call holds the
gate, so unmapping hurts nobody; it counts with cardinalities of finite sets. From it follow `GatesAgree`,
`SingleFlightHolds`, `WaitersAreServed`; `NoFetchIsWasted` adds that only the owner can fill the cache for its URL;
`CacheStaysBounded` and `EvictionIsLastResort` are about `RoomFor`; `Implements` maps every step to one of
SingleFlight or a stutter.

**ToolCallProofs.** `IInv` adds to `TypeOK`: `Outstanding` (at each stage, whether a write may have been sent or
executed), `Tallied` (what has been counted by then) and `Fit` (what the gates have let through). From it:
`AtMostOnce`, `ResendingIsSafe`, `CountedOnce`, `GatesHold`, `BackoffIsLate`, and `Implements` for OneEffect.

**ExecutionGateProofs.** `Accounted` says of every entry of the log under which conditions it came about; it is
needed because the properties relate entries to each other while a step only sees the new one. `NothingUnseen` has the
hypothesis `NoCollision` (no two scopes of the instance share a code): a code has three digits, so the code alone
cannot rule out that another order has the same one. `NeverFalselyRejected` and `PreviewsAreExecutable` need no
such hypothesis.

**OrderWatchProofs.** For any change of clocks by an hour at 02:00 and any horizon. `HistoryIsDates` says that a range of
bare dates holds exactly the instants of these New York dates, whatever the change does to their length;
`TodayIsTradingDay` bounds today's window by trading days; `DatesAdvance` that dates and trading days do not go back,
although the hour does. `LooksAreComplete` splits on whether the order's trading day is over; `IInv` adds to `TypeOK` only
that no order is stamped before it was sent.

**DispatchProofs.** `IInv` follows a call through the gates: `StartedAdmitted`, `GatesPassed`, `PlanChosen` (the plan is one
of those the tables give), `OnlyReadsRetried`, `InFlight` (the requests in flight are those of the current step, and a
half that failed for now was asked for twice). `NothingForTheUnlisted` holds for any tables. `RetriesAreReads`,
`DirectoryIsHarmless`, `RatingSurvivesHalf`, `WhatIsListedWorks` and `TypeCorrect` have what they need of the tables as
hypotheses (`ReadsLook`, `DirectoryLooks`, `RatingIsHalves`, `ScopesFit`, `ReachFits`, `PlansFit`): facts about 196 rows that
TLC evaluates as an assumption of MCDispatch, while the proof is about any order of replies, expiry, retries and rounds.
`WhatIsListedWorks` adds to `IInv` the reason of every answer (`WhyAnswered`) and of every refusal upstream
(`WhyRefused`), and shows that none applies to a listed tool.

**FillSidesProofs.** Two invariants. `IInv` is about the look-ups: `LookupsReach` (once they start, every fill without a
side is among those chosen, or they are as many as allowed) makes `EveryFillAccounted` inductive, `FoundTrue` does it for
`SidesTrue`; nothing is assumed of the pages. `WalkInv` is about the pages: the book only grows at its head (`Grown`) and
never holds an order twice (`BookOnce`), so what matched when the walk began has moved back by as many places as were
placed since; `Covered` says that the walk has what then stood before its next page, `PagesFull` and `InStep` that it has
read whole pages, and, as long as nothing is placed, exactly the first ones. `WalkMissesNothing`, `NoRepeats` and
`TypeCorrect` follow. What they need of `Matching` (that it keeps order, drops only what does not match, and of a grown
book is the old one behind what is new) is proved by induction on the length of the book, taken as the least length
at which it would fail.

**CalendarWalkProofs.** `Complete` and `ShortWhereSaid` are two readings of one invariant. While the first walk goes on,
every event before its date has been read or is of a date noticed as full (`Behind`). From then on every event of the
window has been read, or the reason given covers it, or the second walk is still to read it (`Owed`). `CursorCovers`
is the step in which upstream's rule is used: what lies before the date its cursor names is in the page or past the
first page of a full date. Only these two need the rule; `TypeOK` holds wherever the cursor points.

**ResponseLimitProofs.** `LimitInv` says what is left of a document: neighbouring elements of the array it was, as many as
there can be of a series that had to keep its newest (`CutOf`), the same of the rows of every section still there
(`SectionsCut`), and what the notice has of each (`AllNoticed`, which also says that it has nothing wrong). `CutAgain`
composes two cuts; `LargestCanBeCut` shows that `LargestArray` exists whenever there is a candidate, which needs an
order on sums of weights (`TotalNat`, `HighestExists`), and `KeepInside` that a cut leaves something and takes something.

**Proved, for every value of the constants**: every invariant, action property and refinement of the passing runs, five of
Dispatch and one of ExecutionGate under the hypotheses named above.

**Only model-checked**:

- the liveness properties `EveryCallReturns`, `EveryCallAnswered`, `Finishes` and `Returns`, since neither ENABLED nor
  fairness is in the prover's reach. For the last two the measure is proved: `EveryPassShortens` (each pass of the loop
  leaves fewer sections or fewer rows, or is the last) and `EveryStepUsesUp` (each step of the walks uses up a page of
  the budget or a crowded date, or goes on to the next part, wherever upstream's cursor points).
- the facts about the tables in MCDispatch, row by row.

## 5. Findings

1. `fx_leak`: the comments at `fx.rs` on `IN_FLIGHT` and in `Gate`'s `Drop` say that entries are removed once no
   caller holds them and that the count is exact. The `Arc` field outlives `Drop`, so two callers that drop one right
   after the other each count the other and both leave the entry. It is reused by the next call for that URL, so
   single flight is not affected; only the map's size is.
2. `code_single_use`: the description of `execute` that clients read says that the code is single use and expires in
   ten minutes. It is a pure function of the request: it can be used again and at any time. (The same sentence says
   that changing any field invalidates it; remark and client request id are left out of the scope on purpose, with a
   comment saying so.)
3. `limit_calendar`: a series that runs into the future should keep its head, but a second cut looks at what the first
   left and may then take it for a past series and keep its tail.

## 6. Not modelled, and why

The OAuth proxy and endpoint selection: decisions on one request, or once at startup, without state. Data conversion
(serialization, parsing, US field alignment, output schemas): no control to speak of. Router, landing page, logging,
the metrics registry: wiring and I/O. What requests carry and how answers are reshaped, in every tool. Lost updates of
`alert_enable`, which writes back what it read: nothing is promised about concurrent edits of one alert. `PROJECT.json`
lists each with its files.

## 7. Plan

Done: SingleFlight, FxCache; OneEffect, ToolCall; ExecutionGate; FillSides; OrderWatch; ToolTable, ToolPlans, Dispatch;
ResponseLimit; CalendarWalk; all of them with proofs. Next, in this order:

1. **ToolCall over Dispatch**: ToolCall's "tool" stage is one or two requests; Dispatch has the plans. A refinement that
   forgets the requests would carry `ResendIsSafe` to every gated tool by name.
2. **ToolCall over ExecutionGate**: a resent execute after an unconfirmed one is the case in which a single-use code
   would matter.
3. **FillSides over an abstract walk**: the walks of `us_orders`, `cash_flow` and `v3_all_executions` are the same loop; one
   specification of a walk over a growing list would state `WalkComplete` for all of them.
