------------------------------ MODULE Dispatch ------------------------------
(***************************************************************************)
(* One MCP client over HTTP: it signs in, lists the tools, calls any of    *)
(* them, and its token may expire at any moment in between.  The server    *)
(* keeps nothing from one request to the next: each passes the             *)
(* authentication middleware of its endpoint (mcp_auth_layer), then        *)
(* list_tools or the gates of call_tool, then the router, then the         *)
(* requests its tool makes upstream (ToolPlans), retried once for a read.  *)
(*                                                                         *)
(* What ToolCall shows of one call in detail (_jq, argument errors, the    *)
(* envelope, metrics, lost answers) is left out; here every tool is called *)
(* by its name with the plan it has.                                       *)
(***************************************************************************)
EXTENDS ToolPlans

CONSTANTS
    Callable,  \* bound: the tools the client calls, of those registered
    MaxRounds  \* bound: pages of one step, where the code allows more

ASSUME DispatchAssumption ==
    /\ Callable \subseteq Registered
    /\ MaxRounds \in Nat \ {0, 1}

VARIABLES
    client,  \* the endpoint it talks to and the token it sends
    listing, \* the client as it was at its last tools/list, or Nobody
    pc,      \* where the call is
    call,    \* the tool called, by which client, and what it will ask
    attempt, \* 2 once call_tool retries
    at,      \* the step of the plan, and the round of that step
    flight,  \* the step's requests: what came of each, and which try it is
    answer   \* how the call looks to the client

vars == <<client, listing, pc, call, attempt, at, flight, answer>>

NoToken == [region |-> "none", exp |-> "none"]

\* Region and expiry are read off the token; an opaque one shows no expiry.
Tokens == [region : {"us", "ap"}, exp : {"ahead", "past", "opaque"}]
Clients == [path : {"main", "v2", "agent"}, token : Tokens \cup {NoToken}]
Nobody == [path |-> "none", token |-> NoToken]

NoCall == [tool |-> "none", by |-> Nobody, plan |-> Plain(<<>>)]

Begin == [step |-> 1, round |-> 1]

-----------------------------------------------------------------------------
(* The middleware. *)

\* mcp_auth_layer with AuthMode::Required: no token or an expired one is a 401.
Admitted(c) == c.path = "agent" \/ (c.token # NoToken /\ c.token.exp # "past")

\* AuthMode::Optional drops an expired token and serves the request without.
Bearer(c) == IF c.token.exp = "past" THEN NoToken ELSE c.token

\* Slip: a read-only surface thought to need nothing of the account.
ScopesAskedOfTrades(path) ==
    {"general"} \cup (IF path = "v2" THEN {"watchlist", "trade.read"} ELSE Scopes)

\* What a client of the endpoint is told to ask for when it signs in.
ScopesAsked(path) ==
    {"general"} \cup (IF path = "v2" THEN V2Scopes ELSE Scopes)

-----------------------------------------------------------------------------
(* list_tools and the gates of call_tool. *)

\* Slip: the listing of an endpoint not filtered by region.
ListedEverywhere(c, tool) ==
    IF Bearer(c) = NoToken THEN tool = "authenticate"
    ELSE tool \in IF c.path = "v2" THEN V2Tools ELSE Registered \ {"authenticate"}

\* tools/list answers with these; nothing to a request not admitted.
Listed(c, tool) ==
    /\ Admitted(c)
    /\ IF Bearer(c) = NoToken THEN tool = "authenticate"
       ELSE /\ tool \in IF c.path = "v2" THEN V2Tools
                        ELSE Registered \ {"authenticate"}
            /\ ~IsHiddenFor(Bearer(c).region, tool)

\* Slip: call_tool relies on the listing for the /v2 endpoint.
HiddenByRegionOnly(c, tool) ==
    Bearer(c) # NoToken /\ IsHiddenFor(Bearer(c).region, tool)

\* The restricted-endpoint gate, then the data-center gate.
Hidden(c, tool) ==
    \/ c.path = "v2" /\ tool \notin V2Tools
    \/ Bearer(c) # NoToken /\ IsHiddenFor(Bearer(c).region, tool)

\* Slip: a missing token is taken for an empty one.
HasContextAlways(c, tool) == c \in Clients

\* extract_context succeeds, or the tool does without it.
HasContext(c, tool) == Bearer(c) # NoToken \/ tool \in ContextFree

\* Without a token a tool is context-free, and those are alike everywhere.
PlansFor(c, tool) ==
    IF tool = "authenticate" /\ Bearer(c) # NoToken THEN {Plain(<<>>)}
    ELSE Plans(Bearer(c).region, tool)

-----------------------------------------------------------------------------

Init ==
    /\ client \in [path : {"main", "v2", "agent"}, token : {NoToken}]
    /\ listing = Nobody
    /\ pc = "idle"
    /\ call = NoCall
    /\ attempt = 1
    /\ at = Begin
    /\ flight = <<>>
    /\ answer = "none"

\* OAuth, or the token that authenticate answered with put in the header.
SignIn(token) ==
    /\ pc = "idle"
    /\ Bearer(client) = NoToken
    /\ client' = [client EXCEPT !.token = token]
    /\ listing' = Nobody
    /\ UNCHANGED <<pc, call, attempt, at, flight, answer>>

Expire ==
    /\ client.token.exp = "ahead"
    /\ client' = [client EXCEPT !.token.exp = "past"]
    /\ UNCHANGED <<listing, pc, call, attempt, at, flight, answer>>

ListTools ==
    /\ pc = "idle"
    /\ Admitted(client)
    /\ listing' = client
    /\ UNCHANGED <<client, pc, call, attempt, at, flight, answer>>

Answer(how) ==
    /\ pc' = "answered"
    /\ answer' = how
    /\ flight' = <<>>

Call(tool) ==
    /\ pc = "idle"
    /\ call' = [NoCall EXCEPT !.tool = tool, !.by = client]
    /\ IF Admitted(client)
       THEN pc' = "gates" /\ UNCHANGED <<flight, answer>>
       ELSE Answer("unauthorized")
    /\ UNCHANGED <<client, listing, attempt, at>>

Gates ==
    /\ pc = "gates"
    /\ IF Hidden(call.by, call.tool) THEN Answer("rejected")
       ELSE pc' = "route" /\ UNCHANGED <<flight, answer>>
    /\ UNCHANGED <<client, listing, call, attempt, at>>

Route ==
    /\ pc = "route"
    /\ IF HasContext(call.by, call.tool)
       THEN /\ \E plan \in PlansFor(call.by, call.tool) :
                    call' = [call EXCEPT !.plan = plan]
            /\ pc' = "ask"
            /\ UNCHANGED <<flight, answer>>
       ELSE Answer("protocolError") /\ UNCHANGED call
    /\ UNCHANGED <<client, listing, attempt, at>>

-----------------------------------------------------------------------------
(* The tool's requests. *)

Step == call.plan.steps[at.step]

\* Slip: one page more than the limit.
RoundsAndOne ==
    1 + IF Step.rounds < MaxRounds THEN Step.rounds ELSE MaxRounds

Rounds == IF Step.rounds < MaxRounds THEN Step.rounds ELSE MaxRounds

\* All requests of a step leave together; past the last step the call is done.
Ask ==
    /\ pc = "ask"
    /\ IF at.step > Len(call.plan.steps) THEN Answer("served")
       ELSE /\ flight' = [i \in DOMAIN Step.asks |-> [got |-> "sent", try |-> 1]]
            /\ pc' = "wait"
            /\ UNCHANGED answer
    /\ UNCHANGED <<client, listing, call, attempt, at>>

Backoff == {"limit", "lost"}

Covered == ScopeOf(call.tool) \in ScopesAsked(client.path)
InReach(ask) == ask.dc \in {"any", Bearer(call.by).region}

\* The token the call came with has expired since; without one there is none to
\* expire.
Outlived == Bearer(call.by) # NoToken /\ client.token.exp = "past"

\* What upstream may say, transport errors aside: a token past its time, or
\* revoked, is refused, and so is one whose scopes do not cover the tool; a
\* request to the other data center does not leave the SDK.
Outcomes(ask) ==
    Backoff
    \cup (IF client.token.exp # "ahead" THEN {"auth"} ELSE {})
    \cup (IF ~Covered THEN {"denied"} ELSE {})
    \cup (IF ~InReach(ask) THEN {"foreign"} ELSE {})
    \cup (IF ~Outlived /\ Covered /\ InReach(ask)
          THEN {"ok"} ELSE {})
    \cup (IF Step.mode = "boundary" THEN {"count"} ELSE {})

\* get_with_backoff asks again 700 ms later, once.
Pauses(i, got) ==
    Step.mode = "halves" /\ got \in Backoff /\ flight[i].try = 1

Reply(i, got) ==
    /\ pc = "wait"
    /\ flight[i].got = "sent"
    /\ got \in Outcomes(Step.asks[i])
    /\ flight' = [flight EXCEPT ![i].got = IF Pauses(i, got) THEN "pause" ELSE got]
    /\ UNCHANGED <<client, listing, pc, call, attempt, at, answer>>

Again(i) ==
    /\ pc = "wait"
    /\ flight[i].got = "pause"
    /\ flight' = [flight EXCEPT ![i] = [got |-> "sent", try |-> 2]]
    /\ UNCHANGED <<client, listing, pc, call, attempt, at, answer>>

Waiting == \E i \in DOMAIN flight : flight[i].got \in {"sent", "pause"}
Bad(i) == flight[i].got \notin {"sent", "pause", "ok"}

\* Slip: institution_rating fails with either of its halves.
FailingAsOne(i) ==
    /\ Bad(i)
    /\ CASE Step.mode = "all" -> TRUE
         [] Step.mode = "boundary" -> flight[i].got # "count" \/ at.round = 2
         [] Step.mode \in {"settle", "halves"} ->
                ~Waiting /\ \A j \in 1..(i - 1) : ~Bad(j)
         [] Step.mode = "extra" -> FALSE

\* The tool returns with this request's error: at once where `?` stands at the
\* await; after all have come back, and the first of them, where they are joined.
Failing(i) ==
    /\ Bad(i)
    /\ CASE Step.mode = "all" -> TRUE
         [] Step.mode = "boundary" -> flight[i].got # "count" \/ at.round = 2
         [] Step.mode = "settle" -> ~Waiting /\ \A j \in 1..(i - 1) : ~Bad(j)
         [] Step.mode = "halves" -> i = 1 /\ \A j \in DOMAIN flight : Bad(j)
         [] Step.mode = "extra" -> FALSE

\* Slip: every call retried, whatever its tool.
RetriesAny(got) == attempt = 1 /\ got \in Backoff

\* BACKOFF_RETRY is armed for read-only tools, and for the first attempt.
Retries(got) == attempt = 1 /\ got \in Backoff /\ IsReadOnly(call.tool)

Fail ==
    /\ pc = "wait"
    /\ \E i \in DOMAIN flight :
        /\ Failing(i)
        /\ IF Retries(flight[i].got)
           THEN pc' = "sleep" /\ flight' = <<>> /\ UNCHANGED answer
           ELSE Answer("failed")
    /\ UNCHANGED <<client, listing, call, attempt, at>>

\* The second attempt routes again and starts over.
Retry ==
    /\ pc = "sleep"
    /\ attempt' = 2
    /\ at' = Begin
    /\ pc' = "route"
    /\ UNCHANGED <<client, listing, call, flight, answer>>

Settled == ~Waiting /\ \A i \in DOMAIN flight : ~Failing(i)

\* Another page, window or symbol, or a count one lower.
NextRound ==
    /\ pc = "wait"
    /\ Settled
    /\ at.round < Rounds
    /\ \A i \in DOMAIN flight : Bad(i) <=> Step.mode = "boundary"
    /\ at' = [at EXCEPT !.round = @ + 1]
    /\ pc' = "ask"
    /\ flight' = <<>>
    /\ UNCHANGED <<client, listing, call, attempt, answer>>

NextStep ==
    /\ pc = "wait"
    /\ Settled
    /\ Step.mode = "boundary" => \A i \in DOMAIN flight : ~Bad(i)
    /\ at' = [step |-> at.step + 1, round |-> 1]
    /\ pc' = "ask"
    /\ flight' = <<>>
    /\ UNCHANGED <<client, listing, call, attempt, answer>>

\* The client goes on to something else.
Rest ==
    /\ pc = "answered"
    /\ pc' = "idle"
    /\ call' = NoCall
    /\ attempt' = 1
    /\ at' = Begin
    /\ answer' = "none"
    /\ UNCHANGED <<client, listing, flight>>

Upstream ==
    \E i \in DOMAIN flight : \E got \in Outcomes(Step.asks[i]) : Reply(i, got)
Server ==
    \/ Gates \/ Route \/ Ask \/ Fail \/ Retry \/ NextRound \/ NextStep
    \/ \E i \in DOMAIN flight : Again(i)

Next ==
    \/ \E token \in Tokens : SignIn(token)
    \/ Expire
    \/ ListTools
    \/ \E tool \in Callable : Call(tool)
    \/ Upstream
    \/ Server
    \/ Rest

Spec == Init /\ [][Next]_vars

-----------------------------------------------------------------------------

TypeOK ==
    /\ client \in Clients
    /\ listing \in Clients \cup {Nobody}
    /\ pc \in {"idle", "gates", "route", "ask", "wait", "sleep", "answered"}
    /\ call.tool \in Callable \cup {"none"}
    /\ call.by \in Clients \cup {Nobody}
    /\ attempt \in 1..2
    /\ at.step \in Nat /\ at.round \in 1..MaxRounds
    /\ flight \in Seq([got : {"sent", "pause", "ok", "limit", "lost", "auth",
                              "denied", "foreign", "count"},
                       try : 1..2])
    /\ answer \in {"none", "served", "failed", "rejected", "protocolError",
                   "unauthorized"}

Asked == {Step.asks[i] : i \in DOMAIN flight}

\* A tool the client was listed, called with the same token still valid, is let
\* through to its function, and what that asks is neither beyond the scopes the
\* endpoint told the client to ask for nor of a data center the account is not
\* in: listing, gates, scopes and the tools' own branches agree.
ListedWorks ==
    call.by = listing /\ Listed(listing, call.tool) =>
        /\ answer \in {"none", "served", "failed"}
        /\ \A i \in DOMAIN flight : flight[i].got \notin {"denied", "foreign"}

\* A call of a tool the same request would not have been listed, an expired
\* token's included, asks nothing upstream: neither a hidden tool nor a token
\* known to be dead gets that far.  fx_rate looks at no credentials.
UnlistedAsksNothing ==
    pc = "wait" => Listed(call.by, call.tool) \/ call.tool \in ContextFree

OffDirectory == {"order", "dca", "dcaLook", "moneyLook", "ipoLook"}

\* The directory endpoint neither trades nor invests, and looks at no money
\* movement and no IPO order, whoever calls what with whatever token.
PublicSurface ==
    pc = "wait" /\ client.path = "v2" =>
        \A ask \in Asked : ask.does \notin OffDirectory

\* The server's own second attempt repeats nothing but look-ups: a tool
\* annotated read-only changes nothing upstream.
RetryRepeatsReads ==
    pc = "wait" /\ attempt = 2 => \A ask \in Asked : ask.does \in LookKinds

\* Two sub-requests that hit the same limit are each asked again, and the call
\* fails only when neither came back.
HalfSurvives ==
    [][pc = "wait" /\ call.tool = "institution_rating"
       /\ pc' \in {"sleep", "answered"} =>
           \A i \in DOMAIN flight :
                Bad(i) /\ (flight[i].got \in Backoff => flight[i].try = 2)]_vars

-----------------------------------------------------------------------------
(* What the properties need of the tables, for all 196 tools at once. *)

PlanSteps ==
    [mode : {"all", "settle", "halves", "extra", "boundary"},
     asks : Seq([does : LookKinds \cup {"order", "dca", "setting", "exchange"},
                 dc : {"any", "us", "ap"}]),
     rounds : Nat \ {0}]

PlanType == [code : BOOLEAN, steps : Seq(PlanSteps)]

PlansFit ==
    \A c \in Clients, tool \in Registered : PlansFor(c, tool) \subseteq PlanType

AsksOf(plan) ==
    UNION {{plan.steps[i].asks[j] : j \in DOMAIN plan.steps[i].asks} :
                i \in DOMAIN plan.steps}

\* A tool annotated read-only changes nothing upstream.
ReadsLook ==
    \A c \in Clients, tool \in Registered : IsReadOnly(tool) =>
        \A plan \in PlansFor(c, tool) : \A ask \in AsksOf(plan) :
            ask.does \in LookKinds

DirectoryLooks ==
    \A c \in Clients, tool \in V2Tools :
        \A plan \in PlansFor(c, tool) : \A ask \in AsksOf(plan) :
            ask.does \notin OffDirectory

\* An endpoint's sign-in asks for the scopes of all its tools.
ScopesFit ==
    /\ \A tool \in Registered : ScopeOf(tool) \in {"general"} \cup Scopes
    /\ \A tool \in V2Tools : ScopeOf(tool) \in {"general"} \cup V2Scopes

\* A tool shown to an account asks nothing of the data center it is not in.
ReachFits ==
    \A c \in Clients, tool \in Registered :
        \/ tool = "authenticate"
        \/ Bearer(c) # NoToken /\ ~IsHiddenFor(Bearer(c).region, tool)
        => \A plan \in PlansFor(c, tool) : \A ask \in AsksOf(plan) :
               ask.dc \in {"any", Bearer(c).region}

RatingIsHalves ==
    \A c \in Clients : \A plan \in PlansFor(c, "institution_rating") :
        \A i \in DOMAIN plan.steps : plan.steps[i].mode = "halves"

=============================================================================
