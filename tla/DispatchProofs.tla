--------------------------- MODULE DispatchProofs ---------------------------
(***************************************************************************)
(* The safety properties of Dispatch, for any choice of callable tools and *)
(* any number of rounds.  What a property needs of the tables of ToolTable *)
(* and ToolPlans is a hypothesis of its theorem; TLC evaluates these       *)
(* hypotheses on the tables as they are (MCDispatch).                      *)
(***************************************************************************)
EXTENDS Dispatch, SequenceTheorems, TLAPS

Started == {"gates", "route", "ask", "wait", "sleep"}
PastGates == {"route", "ask", "wait", "sleep"}
Serving == {"ask", "wait", "sleep"}

Shape ==
    /\ client \in Clients
    /\ call = [tool |-> call.tool, by |-> call.by, plan |-> call.plan]

\* A call that has started was admitted, on the endpoint the client still uses.
StartedAdmitted ==
    pc \in Started => /\ call.tool \in Callable
                      /\ call.by \in Clients
                      /\ Admitted(call.by)
                      /\ call.by.path = client.path

\* A call past the gates is not hidden, and one whose tool runs has what it
\* needs of the credentials, and one of its plans.
GatesPassed == pc \in PastGates => ~Hidden(call.by, call.tool)
PlanChosen ==
    pc \in Serving => /\ HasContext(call.by, call.tool)
                      /\ call.plan \in PlansFor(call.by, call.tool)

\* Only a read comes to a second attempt.
OnlyReadsRetried ==
    /\ pc \in {"idle", "gates"} => attempt = 1
    /\ pc = "sleep" => IsReadOnly(call.tool)
    /\ pc \in PastGates /\ attempt # 1 => IsReadOnly(call.tool)

\* Requests are in flight for the step being waited for, and only then.  One
\* half of two that failed for now has been asked for twice.
InFlight ==
    /\ at = [step |-> at.step, round |-> at.round] /\ at.step \in Nat \ {0}
    /\ pc = "wait" => /\ ~(at.step > Len(call.plan.steps))
                      /\ DOMAIN flight = DOMAIN Step.asks
                      /\ Step.mode = "halves" =>
                            \A i \in DOMAIN flight :
                                flight[i].got \in Backoff => flight[i].try = 2
    /\ pc # "wait" => flight = <<>>
    /\ \A i \in DOMAIN flight :
        flight[i] = [got |-> flight[i].got, try |-> flight[i].try]
        /\ flight[i].try \in {1, 2}

IInv ==
    /\ Shape /\ StartedAdmitted /\ GatesPassed /\ PlanChosen
    /\ OnlyReadsRetried /\ InFlight

-----------------------------------------------------------------------------

\* The steps that leave the call where it is.
LEMMA ClientSteps ==
    ASSUME IInv,
           \/ \E token \in Tokens : SignIn(token)
           \/ Expire
           \/ ListTools
    PROVE  IInv'
<1>1. ASSUME NEW token \in Tokens, SignIn(token) PROVE IInv'
  <2>1. Shape'
    BY <1>1 DEF IInv, Shape, SignIn, Clients
  <2>. QED BY <1>1, <2>1 DEF IInv, SignIn, StartedAdmitted, GatesPassed,
              PlanChosen, OnlyReadsRetried, InFlight, Started, PastGates,
              Serving, Step
<1>2. CASE Expire
  <2>1. client'.path = client.path /\ client' \in Clients
    BY <1>2 DEF IInv, Shape, Expire, Clients, Tokens, NoToken
  <2>. QED BY <1>2, <2>1 DEF IInv, Expire, Shape, StartedAdmitted, GatesPassed,
              PlanChosen, OnlyReadsRetried, InFlight, Started, PastGates,
              Serving, Step
<1>3. CASE ListTools
  <2>1. UNCHANGED <<client, pc, call, attempt, at, flight, Step>>
    BY <1>3 DEF ListTools, Step
  <2>. QED BY <2>1 DEF IInv, ListTools, Shape, StartedAdmitted, GatesPassed,
              PlanChosen, OnlyReadsRetried, InFlight, Started, PastGates,
              Serving, Step
<1>. QED BY <1>1, <1>2, <1>3

\* A call's way to its tool.
LEMMA EntrySteps ==
    ASSUME IInv,
           \/ \E tool \in Callable : Call(tool)
           \/ Gates
           \/ Route
    PROVE  IInv'
<1>1. ASSUME NEW tool \in Callable, Call(tool) PROVE IInv'
  <2>1. /\ call' = [tool |-> tool, by |-> client, plan |-> NoCall.plan]
        /\ client \in Clients /\ client' = client /\ attempt' = attempt
        /\ pc = "idle" /\ flight = <<>> /\ flight' = <<>>
        /\ pc' \in {"gates", "answered"} /\ (pc' = "gates" => Admitted(client))
        /\ at' = at
    BY <1>1 DEF Call, Answer, NoCall, IInv, Shape, InFlight
  <2>2. InFlight'
    BY <2>1 DEF IInv, InFlight
  <2>. QED BY <2>1, <2>2 DEF IInv, Shape, StartedAdmitted, GatesPassed, PlanChosen,
              OnlyReadsRetried, InFlight, Started, PastGates, Serving
<1>2. CASE Gates
  BY <1>2 DEF Gates, Answer, Step, IInv, Shape, StartedAdmitted, GatesPassed, PlanChosen,
              OnlyReadsRetried, InFlight, Started, PastGates, Serving
<1>3. CASE Route
  <2>1. CASE HasContext(call.by, call.tool)
    <3>1. PICK plan \in PlansFor(call.by, call.tool) :
                call' = [call EXCEPT !.plan = plan]
      BY <1>3, <2>1 DEF Route
    <3>2. /\ call'.tool = call.tool /\ call'.by = call.by /\ call'.plan = plan
          /\ call' = [tool |-> call.tool, by |-> call.by, plan |-> plan]
      BY <3>1 DEF IInv, Shape
    <3>3. /\ pc = "route" /\ pc' = "ask" /\ flight' = flight
          /\ client' = client /\ attempt' = attempt /\ at' = at
      BY <1>3, <2>1 DEF Route
    <3>4. InFlight'
      BY <3>3 DEF IInv, InFlight
    <3>. QED BY <2>1, <3>2, <3>3, <3>4 DEF IInv, Shape, StartedAdmitted, GatesPassed, PlanChosen,
              OnlyReadsRetried, InFlight, Started, PastGates, Serving
  <2>2. CASE ~HasContext(call.by, call.tool)
    BY <1>3, <2>2 DEF Route, Answer, IInv, Shape, StartedAdmitted, GatesPassed, PlanChosen,
              OnlyReadsRetried, InFlight, Started, PastGates, Serving
  <2>. QED BY <2>1, <2>2
<1>. QED BY <1>1, <1>2, <1>3

\* The tool's requests.
LEMMA RequestSteps ==
    ASSUME IInv,
           \/ Ask
           \/ \E i \in DOMAIN flight : \E got \in Outcomes(Step.asks[i]) : Reply(i, got)
           \/ \E i \in DOMAIN flight : Again(i)
    PROVE  IInv'
<1>1. CASE Ask
  <2>1. CASE at.step > Len(call.plan.steps)
    BY <1>1, <2>1 DEF Ask, Answer, IInv, Shape, StartedAdmitted, GatesPassed, PlanChosen,
              OnlyReadsRetried, InFlight, Started, PastGates, Serving
  <2>2. CASE ~(at.step > Len(call.plan.steps))
    <3>1. /\ flight' = [i \in DOMAIN Step.asks |-> [got |-> "sent", try |-> 1]]
          /\ pc = "ask" /\ pc' = "wait" /\ Step' = Step
          /\ UNCHANGED <<client, call, attempt, at>>
      BY <1>1, <2>2 DEF Ask, Step
    <3>2. /\ DOMAIN flight' = DOMAIN Step.asks
          /\ \A i \in DOMAIN flight' : flight'[i].got = "sent"
      BY <3>1
    <3>3. "sent" \notin Backoff /\ Backoff' = Backoff
      BY DEF Backoff
    <3>4. InFlight'
      BY <2>2, <3>1, <3>2, <3>3 DEF InFlight, IInv
    <3>. QED BY <3>1, <3>4 DEF IInv, Shape, StartedAdmitted, GatesPassed, PlanChosen,
              OnlyReadsRetried, InFlight, Started, PastGates, Serving
  <2>. QED BY <2>1, <2>2
<1>2. ASSUME NEW i \in DOMAIN flight, NEW got \in Outcomes(Step.asks[i]), Reply(i, got)
      PROVE  IInv'
  <2>1. /\ flight' = [flight EXCEPT ![i].got =
                            IF Pauses(i, got) THEN "pause" ELSE got]
        /\ pc = "wait" /\ pc' = "wait" /\ Step' = Step
        /\ flight[i].got = "sent"
        /\ UNCHANGED <<client, call, attempt, at>>
    BY <1>2 DEF Reply, Step
  <2>2. DOMAIN flight' = DOMAIN flight
    BY <2>1
  <2>3. ASSUME Step.mode = "halves", NEW j \in DOMAIN flight,
               flight'[j].got \in Backoff
        PROVE  flight'[j].try = 2
    <3>1. CASE j # i
      <4>1. flight'[j] = flight[j]
        BY <2>1, <3>1
      <4>. QED BY <2>1, <2>3, <4>1 DEF InFlight, IInv
    <3>2. CASE j = i
      <4>1. /\ flight'[i] = [flight[i] EXCEPT !.got =
                                IF Pauses(i, got) THEN "pause" ELSE got]
            /\ flight[i].try \in {1, 2}
        BY <2>1 DEF InFlight, IInv
      <4>2. flight'[i].try = flight[i].try
        BY <4>1
      <4>3. ~Pauses(i, got) /\ got \in Backoff
        BY <2>3, <3>2, <4>1 DEF Backoff
      <4>. QED BY <2>3, <3>2, <4>1, <4>2, <4>3 DEF Pauses
    <3>. QED BY <3>1, <3>2
  <2>4. InFlight'
    BY <2>1, <2>2, <2>3 DEF InFlight, IInv, Backoff
  <2>. QED BY <2>1, <2>4 DEF IInv, Shape, StartedAdmitted, GatesPassed, PlanChosen,
              OnlyReadsRetried, InFlight, Started, PastGates, Serving
<1>3. ASSUME NEW i \in DOMAIN flight, Again(i) PROVE IInv'
  <2>1. /\ flight' = [flight EXCEPT ![i] = [got |-> "sent", try |-> 2]]
        /\ pc = "wait" /\ pc' = "wait" /\ Step' = Step
        /\ UNCHANGED <<client, call, attempt, at>>
    BY <1>3 DEF Again, Step
  <2>2. /\ DOMAIN flight' = DOMAIN flight
        /\ flight'[i].got = "sent"
        /\ \A j \in DOMAIN flight : j # i => flight'[j] = flight[j]
    BY <2>1
  <2>3. InFlight'
    BY <2>1, <2>2 DEF InFlight, IInv, Backoff
  <2>. QED BY <2>1, <2>3 DEF IInv, Shape, StartedAdmitted, GatesPassed, PlanChosen,
              OnlyReadsRetried, InFlight, Started, PastGates, Serving
<1>. QED BY <1>1, <1>2, <1>3

\* What comes after them.
LEMMA OutcomeSteps ==
    ASSUME IInv,
           Fail \/ Retry \/ NextRound \/ NextStep \/ Rest
    PROVE  IInv'
<1>. USE DEF Started, PastGates, Serving
<1>1. CASE Fail
  <2>1. /\ pc = "wait" /\ flight' = <<>>
        /\ pc' = "answered" \/ (pc' = "sleep" /\ IsReadOnly(call.tool))
        /\ UNCHANGED <<client, call, attempt, at>>
    BY <1>1 DEF Fail, Answer, Retries
  <2>2. InFlight'
    BY <2>1 DEF IInv, InFlight
  <2>. QED BY <2>1, <2>2 DEF IInv, Shape, StartedAdmitted, GatesPassed,
              PlanChosen, OnlyReadsRetried
<1>2. CASE Retry
  <2>1. /\ pc = "sleep" /\ pc' = "route" /\ at' = Begin
        /\ UNCHANGED <<client, call, flight>>
    BY <1>2 DEF Retry
  <2>2. InFlight'
    BY <2>1 DEF IInv, InFlight, Begin
  <2>. QED BY <2>1, <2>2 DEF IInv, Shape, StartedAdmitted, GatesPassed,
              PlanChosen, OnlyReadsRetried
<1>3. CASE NextRound \/ NextStep
  <2>1. /\ pc = "wait" /\ pc' = "ask" /\ flight' = <<>>
        /\ UNCHANGED <<client, call, attempt>>
    BY <1>3 DEF NextRound, NextStep
  <2>2. /\ at' = [step |-> at'.step, round |-> at'.round]
        /\ at'.step \in Nat \ {0}
    <3>1. CASE NextRound
      BY <3>1 DEF NextRound, IInv, InFlight
    <3>2. CASE NextStep
      BY <3>2 DEF NextStep, IInv, InFlight
    <3>. QED BY <1>3, <3>1, <3>2
  <2>3. InFlight'
    BY <2>1, <2>2 DEF InFlight
  <2>. QED BY <2>1, <2>3 DEF IInv, Shape, StartedAdmitted, GatesPassed,
              PlanChosen, OnlyReadsRetried
<1>4. CASE Rest
  <2>1. /\ pc = "answered" /\ pc' = "idle" /\ attempt' = 1 /\ at' = Begin
        /\ call' = NoCall
        /\ UNCHANGED <<client, flight>>
    BY <1>4 DEF Rest
  <2>2. InFlight'
    BY <2>1 DEF IInv, InFlight, Begin
  <2>. QED BY <2>1, <2>2 DEF IInv, Shape, StartedAdmitted, GatesPassed,
              PlanChosen, OnlyReadsRetried, NoCall
<1>. QED BY <1>1, <1>2, <1>3, <1>4

\* Every state of every behaviour satisfies IInv.
THEOREM Invariance == Spec => []IInv
<1>1. Init => IInv
  <2>. SUFFICES ASSUME Init PROVE IInv
    OBVIOUS
  <2>1. client \in Clients
    BY DEF Init, Clients
  <2>2. InFlight
    BY DEF Init, InFlight, Begin
  <2>. QED BY <2>1, <2>2 DEF Init, IInv, Shape, NoCall, StartedAdmitted,
              GatesPassed, PlanChosen, OnlyReadsRetried, Started, PastGates,
              Serving
<1>2. IInv /\ [Next]_vars => IInv'
  <2>. SUFFICES ASSUME IInv, [Next]_vars PROVE IInv'
    OBVIOUS
  <2>1. CASE UNCHANGED vars
    BY <2>1 DEF vars, IInv, Shape, StartedAdmitted, GatesPassed, PlanChosen,
              OnlyReadsRetried, InFlight, Step
  <2>2. CASE Next
    BY <2>2, ClientSteps, EntrySteps, RequestSteps, OutcomeSteps
       DEF Next, Upstream, Server
  <2>. QED BY <2>1, <2>2
<1>. QED BY <1>1, <1>2, PTL DEF Spec

-----------------------------------------------------------------------------

\* A tool that looks at no credentials is one the tables register, and the one
\* shown to a client without a token is among them.
LEMMA ContextFreeTools ==
    /\ Callable \subseteq Registered
    /\ "authenticate" \in ContextFree
BY DispatchAssumption DEF ContextFree

\* The three conditions of a call whose tool runs leave only two kinds of call.
LEMMA RunningIsListed ==
    ASSUME IInv, pc = "wait"
    PROVE  Listed(call.by, call.tool) \/ call.tool \in ContextFree
<1>1. /\ call.tool \in Registered
      /\ Admitted(call.by) /\ ~Hidden(call.by, call.tool)
      /\ HasContext(call.by, call.tool)
  BY ContextFreeTools DEF IInv, StartedAdmitted, GatesPassed, PlanChosen,
     Started, PastGates, Serving
<1>2. CASE call.tool \in ContextFree
  BY <1>2
<1>3. CASE call.tool \notin ContextFree
  <2>1. Bearer(call.by) # NoToken /\ call.tool # "authenticate"
    BY <1>1, <1>3, ContextFreeTools DEF HasContext
  <2>2. ~IsHiddenFor(Bearer(call.by).region, call.tool)
    BY <1>1, <2>1 DEF Hidden
  <2>3. call.by.path = "v2" => call.tool \in V2Tools
    BY <1>1 DEF Hidden
  <2>. QED BY <1>1, <2>1, <2>2, <2>3 DEF Listed
<1>. QED BY <1>2, <1>3

\* A call of a tool the same request would not have been listed asks nothing
\* upstream (mcp_auth_layer, the gates of call_tool, extract_context).
THEOREM NothingForTheUnlisted == Spec => []UnlistedAsksNothing
<1>1. IInv => UnlistedAsksNothing
  BY RunningIsListed DEF UnlistedAsksNothing
<1>. QED BY <1>1, Invariance, PTL

\* What the requests in flight ask is asked by the plan.
LEMMA AskedIsPlanned ==
    ASSUME IInv, pc = "wait", PlansFit
    PROVE  /\ call.by \in Clients /\ call.tool \in Registered
           /\ call.plan \in PlansFor(call.by, call.tool)
           /\ at.step \in DOMAIN call.plan.steps
           /\ Asked \subseteq AsksOf(call.plan)
<1>1. /\ call.by \in Clients /\ call.tool \in Registered
      /\ call.plan \in PlansFor(call.by, call.tool)
  BY ContextFreeTools DEF IInv, StartedAdmitted, PlanChosen, Started, Serving
<1>2. call.plan.steps \in Seq(PlanSteps)
  BY <1>1 DEF PlansFit, PlanType
<1>3. /\ at.step \in DOMAIN call.plan.steps
      /\ DOMAIN flight = DOMAIN Step.asks
  BY <1>2, LenProperties DEF IInv, InFlight
<1>4. Asked \subseteq AsksOf(call.plan)
  BY <1>3 DEF Asked, AsksOf, Step
<1>. QED BY <1>1, <1>3, <1>4

\* The server's own second attempt repeats nothing but look-ups
\* (measured_tool_call): where no tool annotated read-only has a plan that
\* changes anything, for every call of it.
THEOREM RetriesAreReads ==
    PlansFit /\ ReadsLook => (Spec => []RetryRepeatsReads)
<1>. SUFFICES ASSUME PlansFit, ReadsLook PROVE Spec => []RetryRepeatsReads
  OBVIOUS
<1>1. IInv => RetryRepeatsReads
  <2>. SUFFICES ASSUME IInv, pc = "wait", attempt = 2, NEW ask \in Asked
                PROVE  ask.does \in LookKinds
    BY DEF RetryRepeatsReads
  <2>1. IsReadOnly(call.tool)
    BY DEF IInv, OnlyReadsRetried, PastGates
  <2>. QED BY <2>1, AskedIsPlanned DEF ReadsLook
<1>. QED BY <1>1, Invariance, PTL

\* No call on the directory endpoint trades, invests, or looks at money or IPO
\* orders (TOOL_ENDPOINTS, call_tool): where no tool of its whitelist does.
THEOREM DirectoryIsHarmless ==
    PlansFit /\ DirectoryLooks => (Spec => []PublicSurface)
<1>. SUFFICES ASSUME PlansFit, DirectoryLooks PROVE Spec => []PublicSurface
  OBVIOUS
<1>1. IInv => PublicSurface
  <2>. SUFFICES ASSUME IInv, pc = "wait", client.path = "v2", NEW ask \in Asked
                PROVE  ask.does \notin OffDirectory
    BY DEF PublicSurface
  <2>1. call.by.path = "v2" /\ ~Hidden(call.by, call.tool)
    BY DEF IInv, StartedAdmitted, GatesPassed, Started, PastGates
  <2>2. call.tool \in V2Tools
    BY <2>1 DEF Hidden
  <2>. QED BY <2>2, AskedIsPlanned DEF DirectoryLooks
<1>. QED BY <1>1, Invariance, PTL

\* institution_rating fails only with both halves, each asked again if the
\* limit refused it: where it asks for two halves in every plan it has.
THEOREM RatingSurvivesHalf ==
    PlansFit /\ RatingIsHalves => (Spec => HalfSurvives)
<1>. SUFFICES ASSUME PlansFit, RatingIsHalves PROVE Spec => HalfSurvives
  OBVIOUS
<1>1. ASSUME IInv, [Next]_vars
      PROVE  [pc = "wait" /\ call.tool = "institution_rating"
              /\ pc' \in {"sleep", "answered"} =>
                 \A i \in DOMAIN flight :
                    Bad(i) /\ (flight[i].got \in Backoff => flight[i].try = 2)]_vars
  <2>. SUFFICES ASSUME pc = "wait", call.tool = "institution_rating",
                       pc' \in {"sleep", "answered"}, Next
                PROVE  \A i \in DOMAIN flight :
                          Bad(i) /\ (flight[i].got \in Backoff => flight[i].try = 2)
    BY <1>1
  <2>1. Fail
    BY DEF Next, SignIn, Expire, ListTools, Call, Upstream, Reply, Server, Gates,
           Route, Ask, Retry, NextRound, NextStep, Again, Rest
  <2>2. Step.mode = "halves"
    BY <1>1, AskedIsPlanned DEF RatingIsHalves, Step
  <2>3. PICK i \in DOMAIN flight : Failing(i)
    BY <2>1 DEF Fail
  <2>4. \A j \in DOMAIN flight : Bad(j)
    BY <2>2, <2>3 DEF Failing
  <2>5. \A j \in DOMAIN flight : flight[j].got \in Backoff => flight[j].try = 2
    BY <1>1, <2>2 DEF IInv, InFlight
  <2>. QED BY <2>4, <2>5
<1>. QED BY <1>1, Invariance, PTL DEF Spec, HalfSurvives

-----------------------------------------------------------------------------

\* An answer that is not the tool's has its reason in the request.
WhyAnswered ==
    /\ pc # "answered" => answer = "none"
    /\ answer \in {"none", "served", "failed", "rejected", "protocolError",
                   "unauthorized"}
    /\ answer = "unauthorized" => ~Admitted(call.by)
    /\ answer = "rejected" => Hidden(call.by, call.tool)
    /\ answer = "protocolError" => ~HasContext(call.by, call.tool)

\* And so has a refusal upstream, in the scopes or the region.
WhyRefused ==
    \A i \in DOMAIN flight :
        /\ flight[i].got = "denied" =>
              ScopeOf(call.tool) \notin ScopesAsked(call.by.path)
        /\ flight[i].got = "foreign" => ~InReach(Step.asks[i])

\* A step that answers has the reason, one that does not changes none.
LEMMA AnswersKept ==
    ASSUME IInv, WhyAnswered, [Next]_vars
    PROVE  WhyAnswered'
<1>. USE DEF WhyAnswered
<1>1. ASSUME UNCHANGED <<pc, call, answer>> PROVE WhyAnswered'
  BY <1>1
<1>2. ASSUME NEW tool \in Callable, Call(tool) PROVE WhyAnswered'
  <2>1. call'.by = client /\ pc = "idle"
    BY <1>2 DEF Call, NoCall
  <2>2. \/ pc' = "gates" /\ answer' = answer
        \/ pc' = "answered" /\ answer' = "unauthorized" /\ ~Admitted(client)
    BY <1>2 DEF Call, Answer
  <2>. QED BY <2>1, <2>2
<1>3. CASE Gates
  BY <1>3 DEF Gates, Answer
<1>4. CASE Route
  <2>1. CASE HasContext(call.by, call.tool)
    BY <1>4, <2>1 DEF Route
  <2>2. CASE ~HasContext(call.by, call.tool)
    BY <1>4, <2>2 DEF Route, Answer
  <2>. QED BY <2>1, <2>2
<1>5. CASE Ask
  BY <1>5 DEF Ask, Answer
<1>6. CASE Fail
  BY <1>6 DEF Fail, Answer
<1>7. CASE Retry \/ NextRound \/ NextStep
  BY <1>7 DEF Retry, NextRound, NextStep
<1>8. CASE Rest
  BY <1>8 DEF Rest
<1>9. CASE \/ UNCHANGED vars \/ Expire \/ ListTools \/ Upstream
           \/ \E token \in Tokens : SignIn(token)
           \/ \E i \in DOMAIN flight : Again(i)
  BY <1>1, <1>9 DEF vars, Expire, ListTools, Upstream, Reply, SignIn, Again
<1>. QED BY <1>2, <1>3, <1>4, <1>5, <1>6, <1>7, <1>8, <1>9 DEF Next, Server

\* A refusal is the answer to a request of this step, for this reason.
LEMMA RefusalsKept ==
    ASSUME IInv, WhyRefused, [Next]_vars
    PROVE  WhyRefused'
<1>. USE DEF WhyRefused
<1>1. ASSUME flight' = <<>> PROVE WhyRefused'
  BY <1>1
<1>2. ASSUME NEW i \in DOMAIN flight, NEW got \in Outcomes(Step.asks[i]), Reply(i, got)
      PROVE  WhyRefused'
  <2>1. /\ flight' = [flight EXCEPT ![i].got =
                            IF Pauses(i, got) THEN "pause" ELSE got]
        /\ pc = "wait" /\ UNCHANGED <<call, at>> /\ Step' = Step
    BY <1>2 DEF Reply, Step
  <2>2. /\ got = "denied" => ~Covered
        /\ got = "foreign" => ~InReach(Step.asks[i])
    BY DEF Outcomes, Backoff
  <2>3. call.by.path = client.path
    BY <2>1 DEF IInv, StartedAdmitted, Started
  <2>4. /\ DOMAIN flight' = DOMAIN flight
        /\ flight'[i].got \in {"pause", got}
        /\ \A j \in DOMAIN flight : j # i => flight'[j] = flight[j]
    BY <2>1 DEF IInv, InFlight
  <2>5. \A j : InReach(Step.asks[j])' <=> InReach(Step.asks[j])
    BY <2>1 DEF InReach
  <2>6. ASSUME NEW j \in DOMAIN flight'
        PROVE  /\ flight'[j].got = "denied" =>
                     ScopeOf(call.tool) \notin ScopesAsked(call.by.path)
               /\ flight'[j].got = "foreign" => ~InReach(Step.asks[j])
    <3>1. CASE j = i
      BY <2>2, <2>3, <2>4, <3>1 DEF Covered
    <3>2. CASE j # i
      BY <2>4, <3>2
    <3>. QED BY <3>1, <3>2
  <2>. QED BY <2>1, <2>5, <2>6
<1>3. ASSUME NEW i \in DOMAIN flight, Again(i) PROVE WhyRefused'
  <2>1. /\ flight' = [flight EXCEPT ![i] = [got |-> "sent", try |-> 2]]
        /\ UNCHANGED <<call, at>> /\ Step' = Step
    BY <1>3 DEF Again, Step
  <2>2. /\ DOMAIN flight' = DOMAIN flight
        /\ flight'[i].got = "sent"
        /\ \A j \in DOMAIN flight : j # i => flight'[j] = flight[j]
    BY <2>1
  <2>3. \A j : InReach(Step.asks[j])' <=> InReach(Step.asks[j])
    BY <2>1 DEF InReach
  <2>. QED BY <2>1, <2>2, <2>3
<1>4. CASE Ask
  <2>1. \A i \in DOMAIN flight' : flight'[i].got = "sent"
    BY <1>4 DEF Ask, Answer
  <2>. QED BY <2>1
<1>5. ASSUME UNCHANGED <<call, at, flight>> PROVE WhyRefused'
  <2>1. Step' = Step /\ \A j : InReach(Step.asks[j])' <=> InReach(Step.asks[j])
    BY <1>5 DEF Step, InReach
  <2>. QED BY <1>5, <2>1
<1>6. CASE \/ UNCHANGED vars \/ Expire \/ ListTools
           \/ \E token \in Tokens : SignIn(token)
  BY <1>5, <1>6 DEF vars, Expire, ListTools, SignIn
<1>7. CASE \/ \E tool \in Callable : Call(tool)
           \/ Gates \/ Route \/ Fail \/ Retry \/ NextRound \/ NextStep \/ Rest
  <2>1. flight' = <<>>
    BY <1>7 DEF IInv, InFlight, Call, Gates, Route, Fail, Retry, NextRound, NextStep,
       Rest, Answer
  <2>. QED BY <1>1, <2>1
<1>. QED BY <1>2, <1>3, <1>4, <1>6, <1>7 DEF Next, Server, Upstream

\* A tool that was listed is neither hidden nor without what it needs.
LEMMA ListedIsServed ==
    ASSUME NEW c, NEW tool, Listed(c, tool)
    PROVE  /\ Admitted(c) /\ ~Hidden(c, tool) /\ HasContext(c, tool)
           /\ c.path = "v2" => tool \in V2Tools
           /\ \/ tool = "authenticate"
              \/ Bearer(c) # NoToken /\ ~IsHiddenFor(Bearer(c).region, tool)
<1>1. CASE Bearer(c) = NoToken
  <2>1. Admitted(c) /\ tool = "authenticate"
    BY <1>1 DEF Listed
  <2>2. c.path = "agent"
    BY <1>1, <2>1 DEF Admitted, Bearer
  <2>. QED BY <1>1, <2>1, <2>2, ContextFreeTools DEF Hidden, HasContext
<1>2. CASE Bearer(c) # NoToken
  <2>1. /\ Admitted(c) /\ ~IsHiddenFor(Bearer(c).region, tool)
        /\ c.path = "v2" => tool \in V2Tools
    BY <1>2 DEF Listed
  <2>. QED BY <1>2, <2>1 DEF Hidden, HasContext
<1>. QED BY <1>1, <1>2

\* What it asks is within its scopes and its region.
LEMMA ListedIsCovered ==
    ASSUME IInv, pc = "wait", PlansFit, ScopesFit, ReachFits,
           Listed(call.by, call.tool), NEW i \in DOMAIN flight
    PROVE  /\ ScopeOf(call.tool) \in ScopesAsked(call.by.path)
           /\ InReach(Step.asks[i])
<1>1. /\ call.by \in Clients /\ call.tool \in Registered
      /\ call.plan \in PlansFor(call.by, call.tool)
      /\ Asked \subseteq AsksOf(call.plan)
  BY AskedIsPlanned
<1>2. Step.asks[i] \in Asked
  BY DEF Asked
<1>3. ScopeOf(call.tool) \in ScopesAsked(call.by.path)
  BY <1>1, ListedIsServed DEF ScopesFit, ScopesAsked
<1>4. Step.asks[i].dc \in {"any", Bearer(call.by).region}
  BY <1>1, <1>2, ListedIsServed DEF ReachFits
<1>. QED BY <1>3, <1>4 DEF InReach

\* A tool that was listed works when it is called with the same token, still
\* valid: listing, gates, scopes and the tools' own branches agree (list_tools,
\* call_tool, extract_context), where the tables do.
THEOREM WhatIsListedWorks ==
    PlansFit /\ ScopesFit /\ ReachFits => (Spec => []ListedWorks)
<1>. SUFFICES ASSUME PlansFit, ScopesFit, ReachFits PROVE Spec => []ListedWorks
  OBVIOUS
<1>1. Init => WhyAnswered /\ WhyRefused
  BY DEF Init, WhyAnswered, WhyRefused
<1>2. IInv /\ WhyAnswered /\ WhyRefused /\ [Next]_vars => WhyAnswered' /\ WhyRefused'
  BY AnswersKept, RefusalsKept
<1>3. IInv /\ WhyAnswered /\ WhyRefused => ListedWorks
  <2>. SUFFICES ASSUME IInv, WhyAnswered, WhyRefused, Listed(call.by, call.tool)
                PROVE  /\ answer \in {"none", "served", "failed"}
                       /\ \A i \in DOMAIN flight :
                             flight[i].got \notin {"denied", "foreign"}
    BY DEF ListedWorks
  <2>1. answer \in {"none", "served", "failed"}
    BY ListedIsServed DEF WhyAnswered
  <2>2. ASSUME NEW i \in DOMAIN flight PROVE flight[i].got \notin {"denied", "foreign"}
    <3>1. pc = "wait"
      BY DEF IInv, InFlight
    <3>. QED BY <3>1, ListedIsCovered DEF WhyRefused
  <2>. QED BY <2>1, <2>2
<1>. QED BY <1>1, <1>2, <1>3, Invariance, PTL DEF Spec

-----------------------------------------------------------------------------

Replies == [got : {"sent", "pause", "ok", "limit", "lost", "auth",
                   "denied", "foreign", "count"}, try : 1..2]

\* A request comes back with one of the outcomes the types name.
LEMMA Replied ==
    ASSUME flight \in Seq(Replies), NEW i \in DOMAIN flight
    PROVE  /\ \A got \in Outcomes(Step.asks[i]) :
                Reply(i, got) => flight' \in Seq(Replies)
           /\ Again(i) => flight' \in Seq(Replies)
<1>1. i \in 1..Len(flight) /\ flight[i] \in Replies
  BY LenProperties, ElementOfSeq
<1>2. ASSUME NEW got \in Outcomes(Step.asks[i]), Reply(i, got)
      PROVE  flight' \in Seq(Replies)
  <2>1. got \in {"limit", "lost", "auth", "denied", "foreign", "ok", "count"}
    BY DEF Outcomes, Backoff
  <2>2. [flight[i] EXCEPT !.got = IF Pauses(i, got) THEN "pause" ELSE got]
            \in Replies
    BY <1>1, <2>1 DEF Replies
  <2>3. flight' = [flight EXCEPT ![i] =
            [flight[i] EXCEPT !.got = IF Pauses(i, got) THEN "pause" ELSE got]]
    BY <1>2 DEF Reply
  <2>. QED BY <1>1, <2>2, <2>3, ExceptSeq
<1>3. ASSUME Again(i) PROVE flight' \in Seq(Replies)
  <2>1. [got |-> "sent", try |-> 2] \in Replies
    BY DEF Replies
  <2>. QED BY <1>1, <1>3, <2>1, ExceptSeq DEF Again
<1>. QED BY <1>2, <1>3

\* Every reachable state is of its type (call_tool, the tool functions): where
\* the plans are of theirs.
THEOREM TypeCorrect == PlansFit => (Spec => []TypeOK)
<1>. SUFFICES ASSUME PlansFit PROVE Spec => []TypeOK
  OBVIOUS
<1>. USE DispatchAssumption
<1>1. Init => TypeOK
  BY EmptySeq DEF Init, TypeOK, Clients, Nobody, NoCall, Begin
<1>2. IInv /\ TypeOK /\ [Next]_vars => TypeOK'
  <2>. SUFFICES ASSUME IInv, TypeOK, [Next]_vars PROVE TypeOK'
    OBVIOUS
  <2>. USE DEF TypeOK
  <2>1. ASSUME NEW token \in Tokens, SignIn(token) PROVE TypeOK'
    BY <2>1 DEF SignIn, Clients, Nobody
  <2>2. CASE Expire
    BY <2>2 DEF Expire, Clients, Tokens, NoToken
  <2>3. CASE ListTools
    BY <2>3 DEF ListTools
  <2>4. ASSUME NEW tool \in Callable, Call(tool) PROVE TypeOK'
    BY <2>4, EmptySeq DEF Call, Answer, NoCall
  <2>5. CASE Gates
    BY <2>5, EmptySeq DEF Gates, Answer
  <2>6. CASE Route
    <3>1. call'.tool = call.tool /\ call'.by = call.by
      BY <2>6 DEF Route, IInv, Shape
    <3>. QED BY <2>6, <3>1, EmptySeq DEF Route, Answer
  <2>7. CASE Ask
    <3>1. CASE at.step > Len(call.plan.steps)
      BY <2>7, <3>1, EmptySeq DEF Ask, Answer
    <3>2. CASE ~(at.step > Len(call.plan.steps))
      <4>1. call.plan.steps \in Seq(PlanSteps)
        BY <2>7, ContextFreeTools
           DEF Ask, IInv, StartedAdmitted, PlanChosen, Started, Serving,
               PlansFit, PlanType
      <4>2. Step \in PlanSteps
        BY <3>2, <4>1, ElementOfSeq DEF IInv, InFlight, Step
      <4>3. DOMAIN Step.asks = 1..Len(Step.asks) /\ Len(Step.asks) \in Nat
        BY <4>2, LenProperties DEF PlanSteps
      <4>4. [got |-> "sent", try |-> 1] \in Replies
        BY DEF Replies
      <4>5. [i \in DOMAIN Step.asks |-> [got |-> "sent", try |-> 1]]
                \in Seq(Replies)
        BY <4>3, <4>4, IsASeq
      <4>. QED BY <2>7, <3>2, <4>5 DEF Ask, Replies
    <3>. QED BY <3>1, <3>2
  <2>8. CASE Upstream
    BY <2>8, Replied DEF Upstream, Reply, Replies
  <2>9. ASSUME NEW i \in DOMAIN flight, Again(i) PROVE TypeOK'
    BY <2>9, Replied DEF Again, Replies
  <2>10. CASE Fail
    BY <2>10, EmptySeq DEF Fail, Answer
  <2>11. CASE Retry
    BY <2>11 DEF Retry, Begin
  <2>12. CASE NextRound
    <3>1. call.plan.steps \in Seq(PlanSteps) /\ at.step \in DOMAIN call.plan.steps
      BY <2>12, AskedIsPlanned DEF NextRound, PlansFit, PlanType
    <3>2. Step.rounds \in Nat
      <4>1. at.step \in 1..Len(call.plan.steps)
        BY <3>1, LenProperties
      <4>2. Step \in PlanSteps
        BY <3>1, <4>1, ElementOfSeq DEF Step
      <4>. QED BY <4>2 DEF PlanSteps
    <3>3. at'.round = at.round + 1 /\ at'.step = at.step
      BY <2>12 DEF NextRound, IInv, InFlight
    <3>. QED BY <2>12, <3>2, <3>3, EmptySeq DEF NextRound, Rounds
  <2>13. CASE NextStep
    BY <2>13, EmptySeq DEF NextStep
  <2>14. CASE Rest
    BY <2>14, EmptySeq DEF Rest, NoCall, Begin
  <2>15. CASE UNCHANGED vars
    BY <2>15 DEF vars
  <2>. QED BY <2>1, <2>2, <2>3, <2>4, <2>5, <2>6, <2>7, <2>8, <2>9, <2>10,
              <2>11, <2>12, <2>13, <2>14, <2>15 DEF Next, Server
<1>. QED BY <1>1, <1>2, Invariance, PTL DEF Spec

=============================================================================
