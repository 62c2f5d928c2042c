--------------------------- MODULE ExecutionGate ---------------------------
(***************************************************************************)
(* The two-step gate of the money-moving tools (submit, replace and cancel *)
(* of orders, grid orders and fund orders).  Without a code a call is a    *)
(* dry run that returns one; with a code it is sent to the exchange if the *)
(* code is the one this request has.  Nothing is stored: any instance of   *)
(* the server computes the code from the request.                          *)
(*                                                                         *)
(* The caller may quote any code it was shown, on any request: what the    *)
(* gate is for is "acting on an order nobody previewed, or on a different  *)
(* order than the one previewed".                                          *)
(*                                                                         *)
(* Definitions whose comment begins with "Slip" are wrong on purpose: they *)
(* take the place of the next definition in the mutation runs.             *)
(***************************************************************************)
EXTENDS Naturals, Sequences

CONSTANTS
    Instances,  \* servers behind the load balancer
    Requests,   \* what callers ask for
    Checked,    \* tools that validate the request themselves
    Incomplete, \* `rest` that lacks a field the order type requires
    Digest,     \* the leading digits of the scope's SHA-256
    Modulus,    \* 1000: codes have three digits
    MaxCalls,   \* bound: calls made
    MaxClock,   \* bound: how far the clock runs
    Lifetime    \* what the field docs say a code lives, in ticks

\* headline: side, quantity and price, as the Scope constructors take them.
\* rest: order type, time in force, triggers, attached legs, the grid rule.
\* note: remark and client_request_id.  spelling: "plain"; "reworded", such as
\* 400.00 or buy; or "odd", such as 4e2, which only canonical() understands.
ASSUME ExecutionGateAssumption ==
    /\ \A r \in Requests :
          /\ DOMAIN r = {"tool", "object", "headline", "rest", "note",
                         "spelling"}
          /\ r.spelling \in {"plain", "reworded", "odd"}
    /\ Modulus \in Nat \ {0}
    /\ MaxCalls \in Nat /\ MaxClock \in Nat /\ Lifetime \in Nat

\* Slip: the code of what the constructors take, without the .and clauses.
ScopeHeadline(req) ==
    [tool |-> req.tool, object |-> req.object, headline |-> req.headline,
     rest |-> "none"]

\* What a code covers, after canonical(): spelling and note are left out.
Scope(req) ==
    [tool |-> req.tool, object |-> req.object, headline |-> req.headline,
     rest |-> req.rest]

Scopes == {Scope(r) : r \in Requests}

ASSUME DigestAssumption == Digest \in [Scopes -> Nat]

\* Slip: the digits of the digest as they are.
CodeUncut(scope) == Digest[scope]

Code(scope) == Digest[scope] % Modulus

VARIABLES
    log,  \* the calls made so far and how they ended
    now   \* the clock, in ticks

vars == <<log, now>>

\* padded: quoted with its leading zeros ("007"), or as a bare number ("7").
Quotes == [n : Nat, padded : BOOLEAN]
NoCode == [n |-> 0, padded |-> FALSE]

Codes == 0..(Modulus - 1)
Outcomes == {"invalid", "previewed", "mismatch", "sent"}

TypeOK ==
    /\ log \in Seq([req : Requests, instance : Instances, at : 0..MaxClock,
                   quoted : Quotes, code : Codes, outcome : Outcomes])
    /\ Len(log) <= MaxCalls
    /\ now \in 0..MaxClock

Init == log = <<>> /\ now = 0

Previews == {k \in DOMAIN log : log[k].outcome = "previewed"}
Sent == {k \in DOMAIN log : log[k].outcome = "sent"}

\* The codes the caller has been shown.
Shown == {log[k].code : k \in Previews}

-----------------------------------------------------------------------------

\* Parsing of enums and decimals, and missing_order_fields.
Valid(req) ==
    req.tool \in Checked => req.spelling # "odd" /\ req.rest \notin Incomplete

\* Slip: each instance knows the codes it has handed out.
VerifyRemembered(i, req, quoted) ==
    \E k \in Previews :
        /\ log[k].instance = i
        /\ log[k].code = quoted.n % Modulus
        /\ Scope(log[k].req) = Scope(req)

\* Slip: the quoted text is compared as it is.
VerifyText(i, req, quoted) == quoted.padded /\ quoted.n = Code(Scope(req))

\* Scope::verify: the instance plays no part, and a number is a number.
Verify(i, req, quoted) == quoted.n % Modulus = Code(Scope(req))

Answer(req, i, quoted, outcome) ==
    /\ Len(log) < MaxCalls
    /\ log' = Append(log, [req |-> req, instance |-> i, at |-> now,
                           quoted |-> quoted, code |-> Code(Scope(req)),
                           outcome |-> outcome])
    /\ UNCHANGED now

\* Slip: the request is validated when it is about to be sent.
DryRunUnchecked(req, i) == Answer(req, i, NoCode, "previewed")

DryRun(req, i) == Valid(req) /\ Answer(req, i, NoCode, "previewed")

DryRunInvalid(req, i) == ~Valid(req) /\ Answer(req, i, NoCode, "invalid")

ExecuteInvalid(req, i, quoted) ==
    ~Valid(req) /\ Answer(req, i, quoted, "invalid")

ExecuteMismatch(req, i, quoted) ==
    /\ Valid(req)
    /\ ~Verify(i, req, quoted)
    /\ Answer(req, i, quoted, "mismatch")

Execute(req, i, quoted) ==
    /\ Valid(req)
    /\ Verify(i, req, quoted)
    /\ Answer(req, i, quoted, "sent")

Tick == now < MaxClock /\ now' = now + 1 /\ UNCHANGED log

Call(req, i) ==
    \/ DryRun(req, i)
    \/ DryRunInvalid(req, i)
    \/ \E n \in Shown, padded \in BOOLEAN :
          LET quoted == [n |-> n, padded |-> padded] IN
          \/ ExecuteInvalid(req, i, quoted)
          \/ ExecuteMismatch(req, i, quoted)
          \/ Execute(req, i, quoted)

Next == Tick \/ \E req \in Requests, i \in Instances : Call(req, i)

Spec == Init /\ [][Next]_vars

-----------------------------------------------------------------------------
(* Properties. *)

\* Two requests that trade the same.
SameOrder(a, b) ==
    \A field \in {"tool", "object", "headline", "rest"} : a[field] = b[field]

\* No two scopes here share a code.
NoCollision ==
    \A s, t \in Scopes : Code(s) = Code(t) => s = t

\* "acting on an order nobody previewed, or on a different order than the one
\* previewed" (dry_run.rs): whatever is sent to the exchange was previewed
\* before with everything that is traded.
NothingUnseenSent ==
    \A k \in Sent : \E j \in Previews :
        j < k /\ SameOrder(log[j].req, log[k].req)

\* "The bar is that every spelling below produces one scope, and one code":
\* the code of a preview is accepted for the same order, however it is spelled,
\* with another note, later, and on another instance.
NoFalseRejection ==
    \A j \in Previews, k \in DOMAIN log :
        /\ j < k
        /\ log[k].outcome = "mismatch"
        /\ SameOrder(log[j].req, log[k].req)
        => log[k].quoted.n # log[j].code

\* "a preview the user confirms is one the exchange can accept, rather than
\* failing only on execute": the previewed request itself, quoted with its
\* code, is sent.
PreviewIsExecutable ==
    \A j \in Previews, k \in DOMAIN log :
        /\ j < k
        /\ log[k].req = log[j].req
        /\ log[k].quoted.n = log[j].code
        /\ log[k].outcome # "previewed"
        => log[k].outcome = "sent"

\* "The code is single use, expires in 10 minutes": what is sent with a code
\* follows a preview that showed it, no longer ago than its lifetime, and each
\* such preview is good for one call.
CodeAsDescribed ==
    \A k \in Sent : \E j \in Previews :
        /\ j < k
        /\ log[j].code = log[k].quoted.n
        /\ log[k].at - log[j].at <= Lifetime
        /\ \A i \in Sent :
                j < i /\ i < k => log[i].quoted.n # log[k].quoted.n
=============================================================================
