--------------------------- MODULE ToolCallProofs ---------------------------
(***************************************************************************)
(* Proofs about ToolCall, for any tools and any number of sends: the       *)
(* client's write takes effect at most once although requests and answers  *)
(* are lost, and the path to the answer implements OneEffect.              *)
(***************************************************************************)
EXTENDS ToolCall, TLAPS

\* No write is outstanding or executed.
Clean == effects = 0 /\ strays = 0

Running == {"send", "wait", "measure", "sleep"}

\* Where a write may have been sent, and where it certainly has not.
Outstanding ==
    /\ effects + strays <= 1
    /\ Read => Clean /\ step = "read"
    /\ pc \in {"idle", "gate", "compile", "route", "send", "sleep"} => Clean
    /\ pc # "wait" => wire = "idle"
    /\ pc = "wait" =>
          /\ strays = 0
          /\ \/ wire = "sent" /\ effects = 0
             \/ wire = "executed" /\ effects = 1 /\ step = "write"
    /\ pc = "measure" /\ reply \notin {"ok", "lost", "other"} => Clean
    /\ pc = "sleep" => Read
    /\ pc \in {"filter", "answered"} /\ answer.advice # "none" => Clean

\* What has been counted at each point of the call.
Tallied ==
    /\ pc \in {"idle", "gate", "compile", "route"} =>
          attempt = 1 /\ counts = NoCounts
    /\ pc \in Running =>
          /\ counts.calls = 0 /\ counts.errors = 0 /\ counts.filters = 0
          /\ attempt = 2 => Read
          /\ counts.retries = IF pc = "sleep" THEN 1 ELSE attempt - 1
    /\ pc = "sleep" => attempt = 1
    /\ pc = "filter" =>
          /\ request.jq # "broken"
          /\ counts.calls = 1 /\ counts.filters = 0
          /\ answer.seen \in {"served", "placeholder", "failed"}
          /\ counts.errors = IF answer.seen = "failed" THEN 1 ELSE 0
    /\ pc = "answered" =>
          /\ counts.calls <= 1 /\ counts.errors <= 1
          /\ AnswerCountedOnce
    /\ pc \in {"filter", "answered"} =>
          /\ counts.retries = attempt - 1
          /\ Read /\ answer.advice = "backoff" => attempt = 2

\* What the gates and the router have let through.
Fit ==
    /\ pc \in {"compile", "route"} \cup Running => ~Hidden(request.tool)
    /\ pc \in {"route"} \cup Running => request.jq # "broken"
    /\ pc \in Running => request.argsOk /\ session.signedIn

IInv == TypeOK /\ Outstanding /\ Tallied /\ Fit

-----------------------------------------------------------------------------

\* Counting adds one where it should, and changes nothing else.
LEMMA Counting ==
    ASSUME TypeOK
    PROVE  /\ CountFailure => counts' = [calls |-> counts.calls + 1,
                  errors |-> counts.errors + 1, retries |-> counts.retries,
                  filters |-> counts.filters]
           /\ Count("calls") => counts' = [calls |-> counts.calls + 1,
                  errors |-> counts.errors, retries |-> counts.retries,
                  filters |-> counts.filters]
           /\ Count("retries") => counts' = [calls |-> counts.calls,
                  errors |-> counts.errors, retries |-> counts.retries + 1,
                  filters |-> counts.filters]
           /\ Count("filters") => counts' = [calls |-> counts.calls,
                  errors |-> counts.errors, retries |-> counts.retries,
                  filters |-> counts.filters + 1]
<1>1. counts \in [calls : 0..2, errors : 0..2, retries : 0..2, filters : 0..1]
    BY DEF TypeOK, Counts
<1>2. QED
    BY <1>1 DEF Count, CountFailure

\* No step makes a second effect possible.
LEMMA OutstandingStep == IInv /\ [Next]_vars => Outstanding'
<1> SUFFICES ASSUME IInv, [Next]_vars PROVE Outstanding'
    OBVIOUS
<1> USE ToolCallAssumption
    DEF IInv, Outstanding, Clean, Tallied, sending, upstream, TypeOK, Read
<1>1. CASE FirstSend
    BY <1>1 DEF FirstSend, Send, NoCounts, NoAnswer
<1>2. CASE Resend
    BY <1>2 DEF Resend, Send, NoCounts, NoAnswer
<1>3. CASE Disconnect
    BY <1>3 DEF Disconnect
<1>4. CASE GateRejects
    BY <1>4 DEF GateRejects, CountFailure
<1>5. CASE GateAdmits
    BY <1>5 DEF GateAdmits
<1>6. CASE CompileFails
    BY <1>6 DEF CompileFails, Count
<1>7. CASE Compile
    BY <1>7 DEF Compile
<1>8. CASE BadArguments
    BY <1>8 DEF BadArguments, CountFailure
<1>9. CASE NoToken
    BY <1>9 DEF NoToken
<1>10. CASE RunTool
    BY <1>10 DEF RunTool
<1>11. CASE ToolRejects
    BY <1>11 DEF ToolRejects
<1>12. CASE ToolAsks
    BY <1>12 DEF ToolAsks
<1>13. CASE Defer
    BY <1>13
       DEF Defer, Count, Deferred, SlotScoped, IsBackoff, Recoverable,
           IsTerminal
<1>14. CASE Retry
    BY <1>14 DEF Retry
<1>15. CASE Record
    BY <1>15
       DEF Record, Count, CountFailure, Deferred, SlotScoped, IsBackoff,
           Recoverable, IsTerminal, Advice, IsRateLimit
<1>16. CASE PassOn
    BY <1>16 DEF PassOn
<1>17. CASE FilterSucceeds
    BY <1>17 DEF FilterSucceeds
<1>18. CASE FilterFails
    BY <1>18 DEF FilterFails, Count
<1>19. CASE LookedUp
    BY <1>19 DEF LookedUp
<1>20. CASE Succeeds
    BY <1>20 DEF Succeeds
<1>21. ASSUME NEW kind \in Replies, Refused(kind) PROVE Outstanding'
    BY <1>21 DEF Refused, Replies
<1>22. ASSUME NEW kind \in Replies, Unconfirmed(kind) PROVE Outstanding'
    BY <1>22 DEF Unconfirmed, Replies
<1>23. CASE Execute
    BY <1>23 DEF Execute
<1>24. CASE UNCHANGED vars
    BY <1>24 DEF vars
<1>25. QED
    BY <1>1, <1>2, <1>3, <1>4, <1>5, <1>6, <1>7, <1>8, <1>9, <1>10, <1>11,
       <1>12, <1>13, <1>14, <1>15, <1>16, <1>17, <1>18, <1>19, <1>20, <1>21,
       <1>22, <1>23, <1>24
       DEF Next, Server, Upstream

\* No step counts a call twice, or not at all.
LEMMA TalliedStep == IInv /\ [Next]_vars => Tallied'
<1> SUFFICES ASSUME IInv, [Next]_vars PROVE Tallied'
    OBVIOUS
<1> USE ToolCallAssumption
    DEF IInv, Tallied, Running, AnswerCountedOnce, Fit, NoCounts, sending,
        upstream, TypeOK, Read
<1>1. CASE FirstSend
    BY <1>1 DEF FirstSend, Send, NoCounts, NoAnswer
<1>2. CASE Resend
    BY <1>2 DEF Resend, Send, NoCounts, NoAnswer
<1>3. CASE Disconnect
    BY <1>3 DEF Disconnect
<1>4. CASE GateRejects
    BY <1>4, Counting DEF GateRejects
<1>5. CASE GateAdmits
    BY <1>5 DEF GateAdmits
<1>6. CASE CompileFails
    BY <1>6, Counting DEF CompileFails
<1>7. CASE Compile
    BY <1>7 DEF Compile
<1>8. CASE BadArguments
    BY <1>8, Counting DEF BadArguments
<1>9. CASE NoToken
    BY <1>9 DEF NoToken
<1>10. CASE RunTool
    BY <1>10 DEF RunTool
<1>11. CASE ToolRejects
    BY <1>11 DEF ToolRejects
<1>12. CASE ToolAsks
    BY <1>12 DEF ToolAsks
<1>13. CASE Defer
    BY <1>13, Counting
       DEF Defer, Deferred, SlotScoped, IsBackoff, Recoverable, IsTerminal
<1>14. CASE Retry
    BY <1>14 DEF Retry, Outstanding
<1>15. CASE Record
    BY <1>15, Counting
       DEF Record, Deferred, SlotScoped, IsBackoff, Recoverable, IsTerminal,
           Advice, IsRateLimit
<1>16. CASE PassOn
    BY <1>16 DEF PassOn
<1>17. CASE FilterSucceeds
    BY <1>17 DEF FilterSucceeds
<1>18. CASE FilterFails
    BY <1>18, Counting DEF FilterFails
<1>19. CASE LookedUp
    BY <1>19 DEF LookedUp
<1>20. CASE Succeeds
    BY <1>20 DEF Succeeds
<1>21. ASSUME NEW kind \in Replies, Refused(kind) PROVE Tallied'
    BY <1>21 DEF Refused, Replies
<1>22. ASSUME NEW kind \in Replies, Unconfirmed(kind) PROVE Tallied'
    BY <1>22 DEF Unconfirmed, Replies
<1>23. CASE Execute
    BY <1>23 DEF Execute
<1>24. CASE UNCHANGED vars
    BY <1>24 DEF vars
<1>25. QED
    BY <1>1, <1>2, <1>3, <1>4, <1>5, <1>6, <1>7, <1>8, <1>9, <1>10, <1>11,
       <1>12, <1>13, <1>14, <1>15, <1>16, <1>17, <1>18, <1>19, <1>20, <1>21,
       <1>22, <1>23, <1>24
       DEF Next, Server, Upstream

\* No step passes over a gate.
LEMMA FitStep == IInv /\ [Next]_vars => Fit'
<1> SUFFICES ASSUME IInv, [Next]_vars PROVE Fit'
    OBVIOUS
<1> USE ToolCallAssumption
    DEF IInv, Fit, Running, Hidden, sending, upstream, TypeOK, Read
<1>1. CASE FirstSend
    BY <1>1 DEF FirstSend, Send, NoCounts, NoAnswer
<1>2. CASE Resend
    BY <1>2 DEF Resend, Send, NoCounts, NoAnswer
<1>3. CASE Disconnect
    BY <1>3 DEF Disconnect
<1>4. CASE GateRejects
    BY <1>4, Counting DEF GateRejects
<1>5. CASE GateAdmits
    BY <1>5 DEF GateAdmits
<1>6. CASE CompileFails
    BY <1>6, Counting DEF CompileFails
<1>7. CASE Compile
    BY <1>7 DEF Compile
<1>8. CASE BadArguments
    BY <1>8, Counting DEF BadArguments
<1>9. CASE NoToken
    BY <1>9 DEF NoToken
<1>10. CASE RunTool
    BY <1>10 DEF RunTool
<1>11. CASE ToolRejects
    BY <1>11 DEF ToolRejects
<1>12. CASE ToolAsks
    BY <1>12 DEF ToolAsks
<1>13. CASE Defer
    BY <1>13, Counting
       DEF Defer, Deferred, SlotScoped, IsBackoff, Recoverable, IsTerminal
<1>14. CASE Retry
    BY <1>14 DEF Retry
<1>15. CASE Record
    BY <1>15, Counting
       DEF Record, Deferred, SlotScoped, IsBackoff, Recoverable, IsTerminal,
           Advice, IsRateLimit
<1>16. CASE PassOn
    BY <1>16 DEF PassOn
<1>17. CASE FilterSucceeds
    BY <1>17 DEF FilterSucceeds
<1>18. CASE FilterFails
    BY <1>18, Counting DEF FilterFails
<1>19. CASE LookedUp
    BY <1>19 DEF LookedUp
<1>20. CASE Succeeds
    BY <1>20 DEF Succeeds
<1>21. ASSUME NEW kind \in Replies, Refused(kind) PROVE Fit'
    BY <1>21 DEF Refused, Replies
<1>22. ASSUME NEW kind \in Replies, Unconfirmed(kind) PROVE Fit'
    BY <1>22 DEF Unconfirmed, Replies
<1>23. CASE Execute
    BY <1>23 DEF Execute
<1>24. CASE UNCHANGED vars
    BY <1>24 DEF vars
<1>25. QED
    BY <1>1, <1>2, <1>3, <1>4, <1>5, <1>6, <1>7, <1>8, <1>9, <1>10, <1>11,
       <1>12, <1>13, <1>14, <1>15, <1>16, <1>17, <1>18, <1>19, <1>20, <1>21,
       <1>22, <1>23, <1>24
       DEF Next, Server, Upstream

\* Every step keeps the types, given what is counted and outstanding.
LEMMA TypeStep == IInv /\ [Next]_vars => TypeOK'
<1> SUFFICES ASSUME IInv, [Next]_vars PROVE TypeOK'
    OBVIOUS
<1> USE ToolCallAssumption
    DEF IInv, TypeOK, PC, Seen, Counts, Outstanding, Clean, Tallied, Running,
        AnswerCountedOnce, NoCounts, sending, upstream, Read, Replies
<1>1. CASE FirstSend
    BY <1>1 DEF FirstSend, Send, NoCounts, NoAnswer
<1>2. CASE Resend
    <2>1. session' \in [endpoint : {"main", "v2", "agent"}, signedIn : BOOLEAN]
        <3>1. \/ session' = session
              \/ session' = [session EXCEPT !.signedIn = TRUE]
            BY <1>2 DEF Resend
        <3>2. QED
            BY <3>1
    <2>2. request' \in [tool : Tools, argsOk : BOOLEAN,
                        jq : {"none", "broken", "finite", "endless"}]
        <3>1. \/ request' = request
              \/ \E ok \in BOOLEAN, jq \in {"none", "broken", "finite"} :
                    request' = [request EXCEPT !.argsOk = ok, !.jq = jq]
            BY <1>2 DEF Resend, Send
        <3>2. ASSUME NEW ok \in BOOLEAN,
                     NEW jq \in {"none", "broken", "finite"},
                     request' = [request EXCEPT !.argsOk = ok, !.jq = jq]
              PROVE  request' \in [tool : Tools, argsOk : BOOLEAN,
                                   jq : {"none", "broken", "finite", "endless"}]
            BY <3>2
        <3>3. QED
            BY <3>1, <3>2
    <2>3. PICK req : Send(req)
        BY <1>2 DEF Resend
    <2>4. /\ sends' \in 0..MaxSends /\ pc' = "gate" /\ attempt' = 1
          /\ step' \in {"read", "write"} /\ wire' = "idle" /\ reply' = "none"
          /\ answer' = NoAnswer /\ counts' = NoCounts
          /\ UNCHANGED <<strays, effects>>
        BY <2>3 DEF Send
    <2>5. QED
        BY <2>1, <2>2, <2>4 DEF NoCounts, NoAnswer
<1>3. CASE Disconnect
    BY <1>3 DEF Disconnect
<1>4. CASE GateRejects
    BY <1>4, Counting DEF GateRejects
<1>5. CASE GateAdmits
    BY <1>5 DEF GateAdmits
<1>6. CASE CompileFails
    BY <1>6, Counting DEF CompileFails
<1>7. CASE Compile
    BY <1>7 DEF Compile
<1>8. CASE BadArguments
    BY <1>8, Counting DEF BadArguments
<1>9. CASE NoToken
    BY <1>9 DEF NoToken
<1>10. CASE RunTool
    BY <1>10 DEF RunTool
<1>11. CASE ToolRejects
    BY <1>11 DEF ToolRejects
<1>12. CASE ToolAsks
    BY <1>12 DEF ToolAsks
<1>13. CASE Defer
    BY <1>13, Counting
       DEF Defer, Deferred, SlotScoped, IsBackoff, Recoverable, IsTerminal
<1>14. CASE Retry
    BY <1>14 DEF Retry
<1>15. CASE Record
    BY <1>15, Counting
       DEF Record, Deferred, SlotScoped, IsBackoff, Recoverable, IsTerminal,
           Advice, IsRateLimit
<1>16. CASE PassOn
    BY <1>16 DEF PassOn
<1>17. CASE FilterSucceeds
    BY <1>17 DEF FilterSucceeds
<1>18. CASE FilterFails
    BY <1>18, Counting DEF FilterFails
<1>19. CASE LookedUp
    BY <1>19 DEF LookedUp
<1>20. CASE Succeeds
    BY <1>20 DEF Succeeds
<1>21. ASSUME NEW kind \in Replies, Refused(kind) PROVE TypeOK'
    BY <1>21 DEF Refused, Replies
<1>22. ASSUME NEW kind \in Replies, Unconfirmed(kind) PROVE TypeOK'
    BY <1>22 DEF Unconfirmed, Replies
<1>23. CASE Execute
    BY <1>23 DEF Execute
<1>24. CASE UNCHANGED vars
    BY <1>24 DEF vars
<1>25. QED
    BY <1>1, <1>2, <1>3, <1>4, <1>5, <1>6, <1>7, <1>8, <1>9, <1>10, <1>11,
       <1>12, <1>13, <1>14, <1>15, <1>16, <1>17, <1>18, <1>19, <1>20, <1>21,
       <1>22, <1>23, <1>24
       DEF Next, Server, Upstream

\* The invariant holds at the start.
LEMMA StartInvariant == Init => IInv
BY ToolCallAssumption
   DEF Init, IInv, TypeOK, Outstanding, Clean, Tallied, Running, Fit, PC, Seen,
       Counts, NoCounts, NoAnswer, Replies, Read, AnswerCountedOnce

\* Every reachable state satisfies the inductive invariant.
THEOREM Invariance == Spec => []IInv
<1>1. IInv /\ [Next]_vars => IInv'
    BY OutstandingStep, TalliedStep, FitStep, TypeStep DEF IInv
<1>2. QED
    BY StartInvariant, <1>1, PTL DEF Spec

-----------------------------------------------------------------------------

\* Every reachable state is of the declared types: in particular no call is
\* attempted more than twice and none is counted more than twice.
THEOREM TypeCorrect == Spec => []TypeOK
<1>1. IInv => TypeOK
    BY DEF IInv
<1>2. QED
    BY Invariance, <1>1, PTL

\* However requests and answers are lost, and however often the client follows
\* the advice it gets, upstream executes its write at most once.
THEOREM AtMostOnce == Spec => []EffectAtMostOnce
<1>1. IInv => EffectAtMostOnce
    BY DEF IInv, TypeOK, Outstanding, EffectAtMostOnce
<1>2. QED
    BY Invariance, <1>1, PTL

\* A client is told to send again only when nothing has been, or can still be,
\* executed.
THEOREM ResendingIsSafe == Spec => []ResendIsSafe
<1>1. IInv => ResendIsSafe
    BY DEF IInv, Outstanding, Clean, ResendIsSafe
<1>2. QED
    BY Invariance, <1>1, PTL

\* Whatever layer answers, the answer is in exactly one counter.
THEOREM CountedOnce == Spec => []AnswerCountedOnce
<1>1. IInv => AnswerCountedOnce
    BY DEF IInv, Tallied, AnswerCountedOnce
<1>2. QED
    BY Invariance, <1>1, PTL

\* No tool runs for a session, a filter or arguments that are not fit for it.
THEOREM GatesHold == Spec => []UnfitNeverRuns
<1>1. IInv => UnfitNeverRuns
    BY DEF IInv, Fit, Running, Hidden, UnfitNeverRuns
<1>2. QED
    BY Invariance, <1>1, PTL

\* A client backs off from a read only after the server has tried twice.
THEOREM BackoffIsLate == Spec => []BackoffMeansRetried
<1>1. IInv => BackoffMeansRetried
    BY DEF IInv, TypeOK, Tallied, BackoffMeansRetried
<1>2. QED
    BY Invariance, <1>1, PTL

-----------------------------------------------------------------------------

\* Every step is a step of OneEffect or leaves its view unchanged.
LEMMA RefinementStep == IInv /\ IInv' /\ [Next]_vars => [OE!Next]_(OE!vars)
<1> SUFFICES ASSUME IInv, IInv', [Next]_vars PROVE [OE!Next]_(OE!vars)
    OBVIOUS
<1> USE DEF IInv, OE!vars, stageBar, sending, upstream
<1>1. CASE FirstSend \/ Resend
    <2>1. OE!Try
        BY <1>1 DEF FirstSend, Resend, Send, OE!Try
    <2>2. QED
        BY <2>1 DEF OE!Next
<1>2. CASE Disconnect
    <2>1. OE!Settle
        BY <1>2 DEF Disconnect, OE!Settle
    <2>2. QED
        BY <2>1 DEF OE!Next
<1>3. CASE Execute
    <2>1. CASE effects = 0
        <3>1. OE!Happen
            BY <1>3, <2>1 DEF Execute, Outstanding, Clean, TypeOK, OE!Happen
        <3>2. QED
            BY <3>1 DEF OE!Next
    <2>2. CASE effects # 0
        BY <1>3, <2>2 DEF Execute, TypeOK
    <2>3. QED
        BY <2>1, <2>2
<1>4. CASE GateRejects \/ NoToken
    <2>1. OE!Settle
        BY <1>4 DEF GateRejects, NoToken, OE!Settle
    <2>2. QED
        BY <2>1 DEF OE!Next
<1>5. CASE CompileFails
    <2>1. OE!Refuse
        BY <1>5 DEF CompileFails, Outstanding, Clean, OE!Refuse
    <2>2. QED
        BY <2>1 DEF OE!Next
<1>6. CASE PassOn
    <2>1. CASE answer.advice = "none"
        <3>1. OE!Settle
            BY <1>6, <2>1 DEF PassOn, OE!Settle
        <3>2. QED
            BY <3>1 DEF OE!Next
    <2>2. CASE answer.advice # "none"
        <3>1. OE!Refuse
            BY <1>6, <2>2 DEF PassOn, Outstanding, Clean, OE!Refuse
        <3>2. QED
            BY <3>1 DEF OE!Next
    <2>3. QED
        BY <2>1, <2>2
<1>7. CASE FilterSucceeds \/ FilterFails
    <2>1. CASE answer'.advice = "none"
        <3>1. OE!Settle
            BY <1>7, <2>1 DEF FilterSucceeds, FilterFails, OE!Settle
        <3>2. QED
            BY <3>1 DEF OE!Next
    <2>2. CASE answer'.advice # "none"
        <3>1. OE!Refuse
            BY <1>7, <2>2
               DEF FilterSucceeds, FilterFails, Outstanding, Clean, OE!Refuse
        <3>2. QED
            BY <3>1 DEF OE!Next
    <2>3. QED
        BY <2>1, <2>2
<1>8. CASE GateAdmits \/ Compile \/ BadArguments \/ RunTool \/ ToolRejects
    BY <1>8 DEF GateAdmits, Compile, BadArguments, RunTool, ToolRejects
<1>9. CASE ToolAsks \/ LookedUp \/ Succeeds \/ Defer \/ Retry \/ Record
    BY <1>9 DEF ToolAsks, LookedUp, Succeeds, Defer, Retry, Record
<1>10. ASSUME NEW kind \in Replies, Refused(kind) \/ Unconfirmed(kind)
       PROVE  UNCHANGED OE!vars
    BY <1>10 DEF Refused, Unconfirmed
<1>11. CASE UNCHANGED vars
    BY <1>11 DEF vars
<1>12. QED
    BY <1>1, <1>2, <1>3, <1>4, <1>5, <1>6, <1>7, <1>8, <1>9, <1>10, <1>11
       DEF Next, Server, Upstream

\* The path from tools/call to the answer implements OneEffect: one effect at
\* most, and a retry only while there certainly was none.
THEOREM Implements == Spec => Delivered
<1>1. Init => OE!Init
    BY DEF Init, OE!Init, stageBar
<1>2. QED
    BY Invariance, RefinementStep, <1>1, PTL DEF Spec, Delivered, OE!Spec
=============================================================================
