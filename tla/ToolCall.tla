------------------------------ MODULE ToolCall ------------------------------
(***************************************************************************)
(* One client that wants one thing done with one tool, and the server's    *)
(* path from tools/call to the answer: the endpoint and region gates, the  *)
(* _jq compilation, argument checks, the tool's requests upstream, the     *)
(* single retry of a read, metrics, the error envelope with its advice,    *)
(* the _jq filter.  The client sends again exactly when the envelope's     *)
(* `recoverable` says so.  Upstream may lose a request, or its answer, and *)
(* may execute a write after the server has given up on it.                *)
(*                                                                         *)
(* Calls share nothing but metric counters, so one client is modelled.     *)
(* Definitions whose comment begins with "Slip" are wrong on purpose: they *)
(* take the place of the next definition in the mutation runs.             *)
(***************************************************************************)
EXTENDS Naturals

CONSTANTS
    Tools,       \* the registered tools, authenticate aside
    ReadOnly,    \* those annotated read_only_hint = true
    LooksUp,     \* the writes that first read what they change (alert_enable)
    OffList,     \* those not on the /v2 allowlist
    OtherRegion, \* those hidden from accounts of this client's region
    MaxSends     \* bound: how often the client sends the call

ASSUME ToolCallAssumption ==
    /\ ReadOnly \subseteq Tools
    /\ LooksUp \subseteq Tools \ ReadOnly
    /\ MaxSends \in Nat \ {0}

VARIABLES
    session,  \* the endpoint, and whether the client sent a token
    request,  \* tool, whether the arguments deserialize, and the _jq argument
    sends,    \* how often the client has sent the call
    pc,       \* where the call is
    attempt,  \* 2 once call_tool retries
    step,     \* which upstream request the tool is at: "read" or "write"
    wire,     \* the awaited request: not sent, sent, or executed upstream
    strays,   \* writes given up on that upstream may still execute
    effects,  \* how often upstream executed the write
    reply,    \* how the tool's last upstream request ended
    answer,   \* how the call looks to the client, and its `recoverable`
    counts    \* metric increments of this call

vars == <<session, request, sends, pc, attempt, step, wire, strays, effects,
          reply, answer, counts>>

sending == <<session, request, sends>>
upstream == <<step, wire, strays, effects, reply>>

PC == {"idle",     \* the client has not called yet
       "gate",     \* call_tool: endpoint and region gates
       "compile",  \* jq::call: about to compile _jq
       "route",    \* the router checks arguments and credentials
       "send",     \* the tool is about to ask upstream
       "wait",     \* ... and waits for the reply
       "measure",  \* the tool returned to measured_tool_call
       "sleep",    \* call_tool sleeps before the second attempt
       "filter",   \* jq::call has the tool's result
       "answered", \* the client has the answer
       "gone"}     \* the client went away before it

\* "lost" is a transport error, a timeout or a 5xx; "other" any outcome no
\* class of recoverable_of matches, such as a body that does not parse.
Replies == {"none", "ok", "invalid", "badParams", "limit", "auth", "noData",
            "lost", "other"}

Seen == {"none", "served", "placeholder", "failed", "protocolError"}

Counts == [calls : 0..2, errors : 0..2, retries : 0..2, filters : 0..1]

TypeOK ==
    /\ session \in [endpoint : {"main", "v2", "agent"}, signedIn : BOOLEAN]
    /\ request \in [tool : Tools, argsOk : BOOLEAN,
                    jq : {"none", "broken", "finite", "endless"}]
    /\ sends \in 0..MaxSends
    /\ pc \in PC
    /\ attempt \in 1..2
    /\ step \in {"read", "write"}
    /\ wire \in {"idle", "sent", "executed"}
    /\ strays \in 0..MaxSends
    /\ effects \in Nat
    /\ reply \in Replies
    /\ answer \in [seen : Seen, advice : {"none", "backoff", "fix_params",
                                          "reauth"}]
    /\ counts \in Counts

NoCounts == [calls |-> 0, errors |-> 0, retries |-> 0, filters |-> 0]
NoAnswer == [seen |-> "none", advice |-> "none"]

\* The middleware lets a request without a token through only on /agent.
Init ==
    /\ session \in [endpoint : {"main", "v2", "agent"}, signedIn : BOOLEAN]
    /\ session.signedIn \/ session.endpoint = "agent"
    /\ request \in [tool : Tools, argsOk : BOOLEAN,
                    jq : {"none", "broken", "finite", "endless"}]
    /\ sends = 0
    /\ pc = "idle"
    /\ attempt = 1
    /\ step = "read"
    /\ wire = "idle"
    /\ strays = 0
    /\ effects = 0
    /\ reply = "none"
    /\ answer = NoAnswer
    /\ counts = NoCounts

Read == request.tool \in ReadOnly

-----------------------------------------------------------------------------
(* Classification of a failed call. *)

\* recoverable_of
Recoverable(kind) ==
    CASE kind \in {"invalid", "badParams"} -> "fix_params"
      [] kind = "auth" -> "reauth"
      [] kind \in {"limit", "lost"} -> "backoff"
      [] OTHER -> "none"

IsBackoff(kind) == Recoverable(kind) = "backoff"

\* is_rate_limit: "the request was refused before doing anything".
IsRateLimit(kind) == kind = "limit"

\* is_terminal_for: answered with an isError:false placeholder.
IsTerminal(kind) == kind = "noData"

\* Slip: what is worth retrying for a read is advised for a write too.
AdviceTrusting(kind) == Recoverable(kind)

\* tool_error: a write without a confirmed result is not to be sent again.
Advice(kind) ==
    IF IsBackoff(kind) /\ ~IsRateLimit(kind) /\ ~Read THEN "none"
    ELSE Recoverable(kind)

\* The two gates of call_tool.  Without a token there is no region to compare.
Hidden(tool) ==
    \/ session.endpoint = "v2" /\ tool \in OffList
    \/ session.signedIn /\ tool \in OtherRegion

-----------------------------------------------------------------------------
(* The client. *)

\* A new call for the same goal starts with clean counters and no answer.
Send(req) ==
    /\ sends < MaxSends
    /\ sends' = sends + 1
    /\ request' = req
    /\ pc' = "gate"
    /\ attempt' = 1
    /\ step' = IF req.tool \in ReadOnly \cup LooksUp THEN "read" ELSE "write"
    /\ wire' = "idle"
    /\ reply' = "none"
    /\ answer' = NoAnswer
    /\ counts' = NoCounts
    /\ UNCHANGED <<strays, effects>>

FirstSend ==
    /\ pc = "idle"
    /\ Send(request)
    /\ UNCHANGED session

\* What the client does with an answer that says how to go on.
Resend ==
    /\ pc = "answered"
    /\ \/ /\ answer.advice = "backoff"
          /\ Send(request)
          /\ UNCHANGED session
       \/ /\ answer.advice = "fix_params"
          /\ \E ok \in BOOLEAN, jq \in {"none", "broken", "finite"} :
                Send([request EXCEPT !.argsOk = ok, !.jq = jq])
          /\ UNCHANGED session
       \/ /\ answer.advice = "reauth"
          /\ Send(request)
          /\ session' = [session EXCEPT !.signedIn = TRUE]

\* The connection drops, or notifications/cancelled arrives, while the call is
\* at an await: its future is dropped.
Disconnect ==
    /\ pc \in {"wait", "sleep", "filter"}
    /\ pc' = "gone"
    /\ strays' = IF step = "write" /\ wire = "sent" THEN strays + 1 ELSE strays
    /\ wire' = "idle"
    /\ UNCHANGED <<sending, attempt, step, effects, reply, answer, counts>>

-----------------------------------------------------------------------------
(* Before the tool runs. *)

Count(field) == counts' = [counts EXCEPT ![field] = @ + 1]
CountFailure == counts' = [counts EXCEPT !.calls = @ + 1, !.errors = @ + 1]

GateRejects ==
    /\ pc = "gate"
    /\ Hidden(request.tool)
    /\ CountFailure
    /\ answer' = [seen |-> "failed", advice |-> "none"]
    /\ pc' = "answered"
    /\ UNCHANGED <<sending, attempt, upstream>>

GateAdmits ==
    /\ pc = "gate"
    /\ ~Hidden(request.tool)
    /\ pc' = "compile"
    /\ UNCHANGED <<sending, attempt, upstream, answer, counts>>

\* _jq is not a string or does not compile: the tool never runs.
CompileFails ==
    /\ pc = "compile"
    /\ request.jq = "broken"
    /\ Count("filters")
    /\ answer' = [seen |-> "failed", advice |-> "fix_params"]
    /\ pc' = "answered"
    /\ UNCHANGED <<sending, attempt, upstream>>

Compile ==
    /\ pc = "compile"
    /\ request.jq # "broken"
    /\ pc' = "route"
    /\ UNCHANGED <<sending, attempt, upstream, answer, counts>>

\* rmcp cannot deserialize the arguments; wrap_argument_error counts it.
BadArguments ==
    /\ pc = "route"
    /\ ~request.argsOk
    /\ CountFailure
    /\ answer' = [seen |-> "failed", advice |-> "fix_params"]
    /\ pc' = "filter"
    /\ UNCHANGED <<sending, attempt, upstream>>

\* extract_context finds no token: a protocol error, which nothing counts.
NoToken ==
    /\ pc = "route"
    /\ request.argsOk
    /\ ~session.signedIn
    /\ answer' = [seen |-> "protocolError", advice |-> "none"]
    /\ pc' = "answered"
    /\ UNCHANGED <<sending, attempt, upstream, counts>>

RunTool ==
    /\ pc = "route"
    /\ request.argsOk
    /\ session.signedIn
    /\ pc' = "send"
    /\ UNCHANGED <<sending, attempt, upstream, answer, counts>>

-----------------------------------------------------------------------------
(* The tool and upstream. *)

\* The tool rejects a value, before it asks upstream or because the object to
\* change is not in what it read.
ToolRejects ==
    /\ pc = "send"
    /\ reply' = "invalid"
    /\ pc' = "measure"
    /\ UNCHANGED <<sending, attempt, step, wire, strays, effects, answer,
                   counts>>

ToolAsks ==
    /\ pc = "send"
    /\ wire' = "sent"
    /\ pc' = "wait"
    /\ UNCHANGED <<sending, attempt, step, strays, effects, reply, answer,
                   counts>>

\* Upstream executes the awaited write, or one the server has given up on.
Execute ==
    /\ \/ /\ pc = "wait" /\ step = "write" /\ wire = "sent"
          /\ wire' = "executed"
          /\ UNCHANGED strays
       \/ /\ strays > 0
          /\ strays' = strays - 1
          /\ UNCHANGED wire
    /\ effects' = effects + 1
    /\ UNCHANGED <<sending, pc, attempt, step, reply, answer, counts>>

\* The read of a look-up-then-write tool succeeded: on to the write.
LookedUp ==
    /\ pc = "wait"
    /\ step = "read"
    /\ ~Read
    /\ step' = "write"
    /\ wire' = "idle"
    /\ pc' = "send"
    /\ UNCHANGED <<sending, attempt, strays, effects, reply, answer, counts>>

Succeeds ==
    /\ pc = "wait"
    /\ IF Read THEN step = "read" ELSE step = "write" /\ wire = "executed"
    /\ reply' = "ok"
    /\ wire' = "idle"
    /\ pc' = "measure"
    /\ UNCHANGED <<sending, attempt, step, strays, effects, answer, counts>>

\* Upstream answers that it did nothing.
Refused(kind) ==
    /\ pc = "wait"
    /\ wire = "sent"
    /\ kind \in {"badParams", "limit", "auth", "noData"}
    /\ reply' = kind
    /\ wire' = "idle"
    /\ pc' = "measure"
    /\ UNCHANGED <<sending, attempt, step, strays, effects, answer, counts>>

\* No usable answer came: a write may have been executed, or may yet be.
Unconfirmed(kind) ==
    /\ pc = "wait"
    /\ kind \in {"lost", "other"}
    /\ reply' = kind
    /\ strays' = IF step = "write" /\ wire = "sent" THEN strays + 1 ELSE strays
    /\ wire' = "idle"
    /\ pc' = "measure"
    /\ UNCHANGED <<sending, attempt, step, effects, answer, counts>>

-----------------------------------------------------------------------------
(* measured_tool_call and the retry. *)

\* Slip: every tool's first attempt is scoped.
SlotScopedAlways == attempt = 1

\* Slip: the second attempt is scoped as well.
SlotScopedTwice == Read

\* call_tool scopes BACKOFF_RETRY around the first attempt of a read.
SlotScoped == attempt = 1 /\ Read

Deferred == SlotScoped /\ IsBackoff(reply) /\ ~IsTerminal(reply)

\* Slip: the attempt about to be retried is recorded too.
DeferAndRecord ==
    /\ pc = "measure"
    /\ Deferred
    /\ counts' = [counts EXCEPT !.retries = @ + 1, !.calls = @ + 1,
                                !.errors = @ + 1]
    /\ pc' = "sleep"
    /\ UNCHANGED <<sending, attempt, upstream, answer>>

\* Nothing is recorded but the retry, and call_tool sleeps for the delay.
Defer ==
    /\ pc = "measure"
    /\ Deferred
    /\ Count("retries")
    /\ pc' = "sleep"
    /\ UNCHANGED <<sending, attempt, upstream, answer>>

Retry ==
    /\ pc = "sleep"
    /\ attempt' = attempt + 1
    /\ step' = "read"
    /\ reply' = "none"
    /\ pc' = "send"
    /\ UNCHANGED <<sending, wire, strays, effects, answer, counts>>

\* record_tool_call, then the result or tool_error's rendering of the error.
Record ==
    /\ pc = "measure"
    /\ ~Deferred
    /\ \/ /\ reply = "ok"
          /\ Count("calls")
          /\ answer' = [seen |-> "served", advice |-> "none"]
       \/ /\ IsTerminal(reply)
          /\ Count("calls")
          /\ answer' = [seen |-> "placeholder", advice |-> "none"]
       \/ /\ reply # "ok" /\ ~IsTerminal(reply)
          /\ CountFailure
          /\ answer' = [seen |-> "failed", advice |-> Advice(reply)]
    /\ pc' = "filter"
    /\ UNCHANGED <<sending, attempt, upstream>>

-----------------------------------------------------------------------------
(* jq::call has the result. *)

\* Without a filter, and for an error or a placeholder, it is passed on.
PassOn ==
    /\ pc = "filter"
    /\ request.jq = "none" \/ answer.seen # "served"
    /\ pc' = "answered"
    /\ UNCHANGED <<sending, attempt, upstream, answer, counts>>

FilterSucceeds ==
    /\ pc = "filter"
    /\ request.jq = "finite" /\ answer.seen = "served"
    /\ pc' = "answered"
    /\ UNCHANGED <<sending, attempt, upstream, answer, counts>>

\* Slip: the failed filter is reported like one that did not compile.
FilterFailsFixably ==
    /\ pc = "filter"
    /\ request.jq \in {"finite", "endless"} /\ answer.seen = "served"
    /\ Count("filters")
    /\ answer' = [seen |-> "failed", advice |-> "fix_params"]
    /\ pc' = "answered"
    /\ UNCHANGED <<sending, attempt, upstream>>

\* Slip: the time limit is looked at between output values only.
FilterFailsFinite ==
    /\ pc = "filter"
    /\ request.jq = "finite" /\ answer.seen = "served"
    /\ Count("filters")
    /\ answer' = [seen |-> "failed", advice |-> "none"]
    /\ pc' = "answered"
    /\ UNCHANGED <<sending, attempt, upstream>>

\* The filter raises an error on this result, exceeds a limit, or is still at
\* it after FILTER_TIMEOUT.  "The tool has already executed."
FilterFails ==
    /\ pc = "filter"
    /\ request.jq \in {"finite", "endless"} /\ answer.seen = "served"
    /\ Count("filters")
    /\ answer' = [seen |-> "failed", advice |-> "none"]
    /\ pc' = "answered"
    /\ UNCHANGED <<sending, attempt, upstream>>

-----------------------------------------------------------------------------

Upstream ==
    \/ LookedUp \/ Succeeds
    \/ \E kind \in Replies : Refused(kind) \/ Unconfirmed(kind)

Server ==
    \/ GateRejects \/ GateAdmits
    \/ CompileFails \/ Compile
    \/ BadArguments \/ NoToken \/ RunTool
    \/ ToolRejects \/ ToolAsks
    \/ Defer \/ Retry \/ Record
    \/ PassOn \/ FilterSucceeds \/ FilterFails

Next == FirstSend \/ Resend \/ Disconnect \/ Server \/ Upstream \/ Execute

Spec == Init /\ [][Next]_vars

\* The server's task is polled, and its HTTP client ends every wait, at the
\* latest with a timeout.  The client need not call, and upstream not execute.
FairSpec == Spec /\ WF_vars(Server) /\ WF_vars(Upstream)

-----------------------------------------------------------------------------
(* Properties. *)

\* "resending it could do it twice" (tool_error): however replies are lost or
\* late, and however often the client follows the server's advice, a write
\* takes effect at most once.
EffectAtMostOnce == effects <= 1

\* The advice itself: a client is told to send again only when no request of
\* its has been, or can still be, executed.
ResendIsSafe ==
    pc = "answered" /\ answer.advice # "none" => effects = 0 /\ strays = 0

\* Every answer is counted once: as one call, or as a filter that did not
\* compile; only a protocol error is in no counter.  What the client sees fail
\* is in exactly one error counter, what it sees served in none, however many
\* attempts the server made.
AnswerCountedOnce ==
    pc = "answered" =>
        LET unrun == IF request.jq = "broken" THEN counts.filters ELSE 0 IN
        /\ (answer.seen = "protocolError") = (counts.calls + unrun = 0)
        /\ counts.calls + unrun <= 1
        /\ counts.errors + counts.filters
              = IF answer.seen = "failed" THEN 1 ELSE 0

\* A tool the session may not see is never asked to do anything, and neither
\* is one whose filter or arguments could not be understood, although all of
\* these are checked at different places on the way.
UnfitNeverRuns ==
    pc \in {"send", "wait", "measure", "sleep"} =>
        /\ session.signedIn
        /\ request.tool \in OffList => session.endpoint # "v2"
        /\ request.tool \notin OtherRegion
        /\ request.jq # "broken" /\ request.argsOk

\* A client is told to back off from a read only after the server has tried
\* it twice itself.
BackoffMeansRetried ==
    pc = "answered" /\ Read /\ answer.advice = "backoff" =>
        attempt = 2 /\ counts.retries = 1

\* Every call that reaches the server is answered, unless the client leaves.
EveryCallAnswered == pc = "gate" ~> pc \in {"answered", "gone"}

\* The abstract view: the goal is open until the first send and after an
\* answer that says to go on, settled after any other or none.
stageBar ==
    CASE pc = "idle" -> "open"
      [] pc = "gone" -> "closed"
      [] pc = "answered" -> IF answer.advice = "none" THEN "closed" ELSE "open"
      [] OTHER -> "trying"

OE == INSTANCE OneEffect WITH stage <- stageBar, happened <- (effects > 0)

\* The path from tools/call to the answer implements OneEffect.
Delivered == OE!Spec

=============================================================================
