------------------------ MODULE ExecutionGateProofs ------------------------
(***************************************************************************)
(* Proofs about ExecutionGate, for any requests, digest, modulus and       *)
(* number of calls.  What a digest cannot exclude, two scopes with one     *)
(* code, is the hypothesis NoCollision where it matters.                   *)
(***************************************************************************)
EXTENDS ExecutionGate, TLAPS

\* What the outcome of a call says about it: the conditions under which
\* verify and the validation let it through, kept in the log.
Accounted ==
    \A k \in DOMAIN log :
        /\ log[k].code = Code(Scope(log[k].req))
        /\ log[k].outcome = "invalid" <=> ~Valid(log[k].req)
        /\ log[k].outcome = "mismatch" =>
               log[k].quoted.n % Modulus # log[k].code
        /\ log[k].outcome = "sent" =>
               /\ log[k].quoted.n % Modulus = log[k].code
               /\ \E j \in Previews : j < k /\ log[j].code = log[k].quoted.n

IInv == TypeOK /\ Accounted

-----------------------------------------------------------------------------

\* A code is one of the Modulus many, and a number below Modulus is its own
\* remainder: verify's `n % 1000` changes no code that it handed out.
LEMMA Remainders ==
    /\ \A r \in Requests : Code(Scope(r)) \in Codes
    /\ \A n \in Codes : n % Modulus = n
<1>1. Modulus \in Nat \ {0}
    BY ExecutionGateAssumption
<1>2. ASSUME NEW r \in Requests PROVE Code(Scope(r)) \in Codes
    <2>1. Digest[Scope(r)] \in Nat
        BY DigestAssumption DEF Scopes
    <2>2. QED
        BY <1>1, <2>1 DEF Code, Codes
<1>3. ASSUME NEW n \in Codes PROVE n % Modulus = n
    BY <1>1 DEF Codes
<1>4. QED
    BY <1>2, <1>3

\* Requests that trade the same have the same scope, and conversely.
LEMMA SameScope ==
    \A a, b \in Requests : SameOrder(a, b) <=> Scope(a) = Scope(b)
BY DEF SameOrder, Scope

\* One call appends an entry of the right type, and leaves the clock alone.
LEMMA AnswerStep ==
    ASSUME TypeOK, NEW req \in Requests, NEW i \in Instances,
           NEW quoted \in Quotes, NEW outcome \in Outcomes,
           Answer(req, i, quoted, outcome)
    PROVE  /\ TypeOK'
           /\ Len(log') = Len(log) + 1
           /\ \A k \in DOMAIN log : log'[k] = log[k]
           /\ log'[Len(log) + 1] =
                  [req |-> req, instance |-> i, at |-> now, quoted |-> quoted,
                   code |-> Code(Scope(req)), outcome |-> outcome]
<1> DEFINE entry == [req |-> req, instance |-> i, at |-> now,
                     quoted |-> quoted, code |-> Code(Scope(req)),
                     outcome |-> outcome]
           E == [req : Requests, instance : Instances, at : 0..MaxClock,
                 quoted : Quotes, code : Codes, outcome : Outcomes]
<1>1. Code(Scope(req)) \in Codes
    BY Remainders
<1>2. entry \in E
    BY <1>1 DEF TypeOK
<1>3. log \in Seq(E) /\ Len(log) < MaxCalls /\ MaxCalls \in Nat
    BY ExecutionGateAssumption DEF TypeOK, Answer
<1>4. log' = Append(log, entry) /\ now' = now
    BY DEF Answer
<1> HIDE DEF E, entry
<1>5. /\ log' \in Seq(E)
      /\ Len(log') = Len(log) + 1
      /\ \A k \in DOMAIN log : log'[k] = log[k]
      /\ log'[Len(log) + 1] = entry
    BY <1>2, <1>3, <1>4
<1>6. TypeOK'
    BY <1>3, <1>4, <1>5 DEF TypeOK, E
<1>7. QED
    BY <1>5, <1>6 DEF entry

\* The code of an entry in the log is one of the Modulus many codes.
LEMMA EntryTypes ==
    ASSUME IInv, NEW k \in DOMAIN log
    PROVE  /\ log[k].req \in Requests
           /\ log[k].code \in Codes
           /\ log[k].code = Code(Scope(log[k].req))
           /\ log[k].code % Modulus = log[k].code
           /\ log[k].outcome \in Outcomes
<1> DEFINE E == [req : Requests, instance : Instances, at : 0..MaxClock,
                 quoted : Quotes, code : Codes, outcome : Outcomes]
<1>1. log[k].req \in Requests /\ log[k].outcome \in Outcomes
    <2>1. log \in Seq(E)
        BY DEF IInv, TypeOK
    <2> HIDE DEF E
    <2>2. log[k] \in E
        BY <2>1
    <2>3. QED
        BY <2>2 DEF E
<1>2. log[k].code = Code(Scope(log[k].req))
    BY DEF IInv, Accounted
<1>3. QED
    BY <1>1, <1>2, Remainders

\* What one call records is consistent if its own entry is.
LEMMA AccountedStep ==
    ASSUME IInv, NEW req \in Requests, NEW i \in Instances,
           NEW quoted \in Quotes, NEW outcome \in Outcomes,
           Answer(req, i, quoted, outcome),
           outcome = "invalid" <=> ~Valid(req),
           outcome = "mismatch" => quoted.n % Modulus # Code(Scope(req)),
           outcome = "sent" => /\ quoted.n % Modulus = Code(Scope(req))
                               /\ quoted.n \in Shown
    PROVE  IInv'
<1>1. /\ TypeOK'
      /\ Len(log') = Len(log) + 1
      /\ \A k \in DOMAIN log : log'[k] = log[k]
      /\ log'[Len(log) + 1] =
             [req |-> req, instance |-> i, at |-> now, quoted |-> quoted,
              code |-> Code(Scope(req)), outcome |-> outcome]
    BY AnswerStep DEF IInv
<1>2. /\ DOMAIN log = 1..Len(log) /\ Len(log) \in Nat
      /\ DOMAIN log' = 1..(Len(log) + 1)
    BY <1>1 DEF IInv, TypeOK
<1>3. \A k \in Previews : k \in Previews'
    BY <1>1, <1>2 DEF Previews
<1>4. ASSUME NEW k \in DOMAIN log'
      PROVE  /\ log'[k].code = Code(Scope(log'[k].req))
             /\ log'[k].outcome = "invalid" <=> ~Valid(log'[k].req)
             /\ log'[k].outcome = "mismatch" =>
                    log'[k].quoted.n % Modulus # log'[k].code
             /\ log'[k].outcome = "sent" =>
                    /\ log'[k].quoted.n % Modulus = log'[k].code
                    /\ \E j \in Previews' :
                           j < k /\ log'[j].code = log'[k].quoted.n
    <2>1. CASE k \in DOMAIN log
        <3>1. log'[k] = log[k]
            BY <1>1, <2>1
        <3>2. ASSUME log[k].outcome = "sent"
              PROVE  \E j \in Previews' :
                         j < k /\ log'[j].code = log'[k].quoted.n
            <4>1. PICK j \in Previews : j < k /\ log[j].code = log[k].quoted.n
                BY <2>1, <3>2 DEF IInv, Accounted
            <4>2. j \in DOMAIN log /\ log'[j] = log[j]
                BY <1>1, <4>1 DEF Previews
            <4>3. QED
                BY <1>3, <3>1, <4>1, <4>2
        <3>3. QED
            BY <2>1, <3>1, <3>2 DEF IInv, Accounted
    <2>2. CASE k = Len(log) + 1
        <3>1. ASSUME outcome = "sent"
              PROVE  \E j \in Previews' : j < k /\ log'[j].code = quoted.n
            <4>1. PICK j \in Previews : log[j].code = quoted.n
                BY <3>1 DEF Shown
            <4>2. j \in DOMAIN log /\ log'[j] = log[j] /\ j < k
                BY <1>1, <1>2, <2>2, <4>1 DEF Previews
            <4>3. QED
                BY <1>3, <4>1, <4>2
        <3>2. QED
            BY <1>1, <2>2, <3>1
    <2>3. QED
        BY <1>2, <2>1, <2>2
<1>5. QED
    BY <1>1, <1>4 DEF IInv, Accounted

-----------------------------------------------------------------------------

\* Every step of the specification preserves the inductive invariant.
LEMMA StepInvariance == IInv /\ [Next]_vars => IInv'
<1> SUFFICES ASSUME IInv, [Next]_vars PROVE IInv'
    OBVIOUS
<1>1. ASSUME NEW req \in Requests, NEW i \in Instances, DryRun(req, i)
      PROVE  IInv'
    <2>1. NoCode \in Quotes
        BY DEF NoCode, Quotes
    <2>2. QED
        BY <1>1, <2>1, AccountedStep DEF DryRun, Outcomes
<1>2. ASSUME NEW req \in Requests, NEW i \in Instances, DryRunInvalid(req, i)
      PROVE  IInv'
    <2>1. NoCode \in Quotes
        BY DEF NoCode, Quotes
    <2>2. QED
        BY <1>2, <2>1, AccountedStep DEF DryRunInvalid, Outcomes
<1>3. ASSUME NEW n \in Shown, NEW padded \in BOOLEAN
      PROVE  /\ [n |-> n, padded |-> padded] \in Quotes
             /\ [n |-> n, padded |-> padded].n \in Shown
    <2>1. PICK k \in Previews : n = log[k].code
        BY DEF Shown
    <2>2. k \in DOMAIN log
        BY <2>1 DEF Previews
    <2>3. log[k].code \in Codes
        BY <2>2, EntryTypes
    <2>4. Codes \subseteq Nat
        BY ExecutionGateAssumption DEF Codes
    <2>5. QED
        BY <2>1, <2>3, <2>4 DEF Quotes
<1>4. ASSUME NEW req \in Requests, NEW i \in Instances, NEW quoted \in Quotes,
             ExecuteInvalid(req, i, quoted)
      PROVE  IInv'
    BY <1>4, AccountedStep DEF ExecuteInvalid, Outcomes
<1>5. ASSUME NEW req \in Requests, NEW i \in Instances, NEW quoted \in Quotes,
             ExecuteMismatch(req, i, quoted)
      PROVE  IInv'
    BY <1>5, AccountedStep DEF ExecuteMismatch, Verify, Outcomes
<1>6. ASSUME NEW req \in Requests, NEW i \in Instances, NEW quoted \in Quotes,
             quoted.n \in Shown, Execute(req, i, quoted)
      PROVE  IInv'
    BY <1>6, AccountedStep DEF Execute, Verify, Outcomes
<1>7. CASE Tick \/ UNCHANGED vars
    <2>1. UNCHANGED log /\ now' \in 0..MaxClock
        BY <1>7, ExecutionGateAssumption DEF Tick, vars, IInv, TypeOK
    <2>2. TypeOK'
        BY <2>1 DEF IInv, TypeOK
    <2>3. Previews' = Previews
        BY <2>1 DEF Previews
    <2>4. Accounted'
        BY <2>1, <2>3, Zenon DEF IInv, Accounted
    <2>5. QED
        BY <2>2, <2>4 DEF IInv
<1>8. QED
    BY <1>1, <1>2, <1>3, <1>4, <1>5, <1>6, <1>7 DEF Next, Call

\* Nothing has been called at the start.
LEMMA StartInvariant == Init => IInv
BY ExecutionGateAssumption DEF Init, IInv, TypeOK, Accounted

\* Whatever is called and quoted, the log stays accounted for.
THEOREM Invariance == Spec => []IInv
BY StartInvariant, StepInvariance, PTL DEF Spec

-----------------------------------------------------------------------------

\* Every reachable log is a log of calls, of at most MaxCalls of them.
THEOREM TypeCorrect == Spec => []TypeOK
<1>1. IInv => TypeOK
    BY DEF IInv
<1>2. QED
    BY Invariance, <1>1, PTL

\* Unless two scopes share a code, the gate sends nothing to the exchange that
\* was not previewed with everything that is traded.
THEOREM NothingUnseen == NoCollision => (Spec => []NothingUnseenSent)
<1> SUFFICES ASSUME NoCollision PROVE Spec => []NothingUnseenSent
    OBVIOUS
<1>1. IInv => NothingUnseenSent
    <2> SUFFICES ASSUME IInv, NEW k \in Sent
                 PROVE  \E j \in Previews :
                            j < k /\ SameOrder(log[j].req, log[k].req)
        BY DEF NothingUnseenSent
    <2>1. k \in DOMAIN log /\ log[k].outcome = "sent"
        BY DEF Sent
    <2>2. log[k].quoted.n % Modulus = log[k].code
        BY <2>1 DEF IInv, Accounted
    <2>3. PICK j \in Previews : j < k /\ log[j].code = log[k].quoted.n
        BY <2>1 DEF IInv, Accounted
    <2>4. j \in DOMAIN log
        BY <2>3 DEF Previews
    <2>5. Code(Scope(log[j].req)) = Code(Scope(log[k].req))
        BY <2>1, <2>2, <2>3, <2>4, EntryTypes
    <2>6. log[j].req \in Requests /\ log[k].req \in Requests
        BY <2>1, <2>4, EntryTypes
    <2>7. Scope(log[j].req) = Scope(log[k].req)
        BY <2>5, <2>6 DEF NoCollision, Scopes
    <2>8. QED
        BY <2>3, <2>6, <2>7, SameScope
<1>2. QED
    BY Invariance, <1>1, PTL

\* The code of a preview is never refused for the same order, whatever its
\* spelling, its note, the time and the instance.
THEOREM NeverFalselyRejected == Spec => []NoFalseRejection
<1>1. IInv => NoFalseRejection
    <2> SUFFICES ASSUME IInv, NEW j \in Previews, NEW k \in DOMAIN log,
                        log[k].outcome = "mismatch",
                        SameOrder(log[j].req, log[k].req),
                        log[k].quoted.n = log[j].code
                 PROVE  FALSE
        BY DEF NoFalseRejection
    <2>1. j \in DOMAIN log
        BY DEF Previews
    <2>2. Scope(log[j].req) = Scope(log[k].req)
        BY <2>1, EntryTypes, SameScope
    <2>3. log[k].quoted.n % Modulus = log[k].code
        BY <2>1, <2>2, EntryTypes
    <2>4. QED
        BY <2>3 DEF IInv, Accounted
<1>2. QED
    BY Invariance, <1>1, PTL

\* What was previewed is sent when the same request comes back with its code.
THEOREM PreviewsAreExecutable == Spec => []PreviewIsExecutable
<1>1. IInv => PreviewIsExecutable
    <2> SUFFICES ASSUME IInv, NEW j \in Previews, NEW k \in DOMAIN log,
                        log[k].req = log[j].req,
                        log[k].quoted.n = log[j].code,
                        log[k].outcome # "previewed"
                 PROVE  log[k].outcome = "sent"
        BY DEF PreviewIsExecutable
    <2>1. j \in DOMAIN log /\ log[j].outcome = "previewed"
        BY DEF Previews
    <2>2. log[k].outcome # "invalid"
        BY <2>1 DEF IInv, Accounted
    <2>3. log[k].quoted.n % Modulus = log[k].code
        BY <2>1, EntryTypes
    <2>4. log[k].outcome # "mismatch"
        BY <2>3 DEF IInv, Accounted
    <2>5. QED
        BY <2>2, <2>4, EntryTypes DEF Outcomes
<1>2. QED
    BY Invariance, <1>1, PTL
=============================================================================
