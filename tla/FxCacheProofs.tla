---------------------------- MODULE FxCacheProofs ----------------------------
(***************************************************************************)
(* Proofs about FxCache for any number of calls, URLs, mutex addresses and *)
(* any capacity and lifetimes.                                             *)
(***************************************************************************)
EXTENDS FxCache, TLAPS, FiniteSetTheorems, SequenceTheorems

-----------------------------------------------------------------------------
(* The inductive invariant. *)

\* A call has a URL while it runs, and a reference from acquire to unref.
CallsOK ==
    \A c \in Calls :
        /\ pc[c] # "idle" => url[c] \in Urls
        /\ pc[c] \notin {"idle", "lookup", "acquire"} => gate[c] \in Locks

\* No mutex is mapped to two URLs.
MapInjective ==
    \A u, v \in Urls : inFlight[u] # None /\ inFlight[u] = inFlight[v] => u = v

\* The mutex of a call past the grant is owned by that call, and an owner is a
\* call that refers to the mutex.
Ownership ==
    /\ \A c \in Calls : pc[c] \in {"request", "unlock"} => owner[gate[c]] = c
    /\ \A l \in Locks : owner[l] # None =>
        /\ gate[owner[l]] = l
        /\ pc[owner[l]] \in {"wait", "request", "unlock"}

\* The queue of a mutex holds waiting calls that refer to it, each once, and
\* never its owner; it is empty when the mutex is free.
Queues ==
    /\ \A l \in Locks : \A i \in 1..Len(waiters[l]) :
        /\ gate[waiters[l][i]] = l
        /\ pc[waiters[l][i]] = "wait"
        /\ waiters[l][i] # owner[l]
        /\ owner[l] # None
    /\ \A l \in Locks : \A i, j \in 1..Len(waiters[l]) :
        waiters[l][i] = waiters[l][j] => i = j

\* A suspended call is queued at its mutex.
Queued ==
    \A c \in Calls : pc[c] = "wait" /\ owner[gate[c]] # c =>
        \E i \in 1..Len(waiters[gate[c]]) : waiters[gate[c]][i] = c

GateInv ==
    /\ TypeOK
    /\ CallsOK
    /\ GateAgreement
    /\ MapInjective
    /\ Ownership
    /\ Queues
    /\ Queued

-----------------------------------------------------------------------------
(* Helpers. *)

\* RemoveAt closes the gap: the elements before i stay, those after i move up.
LEMMA RemoveAtElements ==
    ASSUME NEW S, NEW s \in Seq(S), NEW i \in 1..Len(s)
    PROVE  /\ RemoveAt(s, i) \in Seq(S)
           /\ Len(RemoveAt(s, i)) = Len(s) - 1
           /\ \A j \in 1..(Len(s) - 1) :
                RemoveAt(s, i)[j] = IF j < i THEN s[j] ELSE s[j + 1]
<1> DEFINE a == SubSeq(s, 1, i - 1)
           b == SubSeq(s, i + 1, Len(s))
<1>1. a \in Seq(S) /\ Len(a) = i - 1 /\ \A j \in 1..(i - 1) : a[j] = s[j]
    OBVIOUS
<1>2. /\ b \in Seq(S) /\ Len(b) = Len(s) - i
      /\ \A j \in 1..(Len(s) - i) : b[j] = s[i + j]
    OBVIOUS
<1>3. RemoveAt(s, i) = a \o b
    BY DEF RemoveAt
<1> HIDE DEF a, b
<1>4. /\ a \o b \in Seq(S) /\ Len(a \o b) = Len(a) + Len(b)
      /\ \A j \in 1..(Len(a) + Len(b)) :
            (a \o b)[j] = IF j <= Len(a) THEN a[j] ELSE b[j - Len(a)]
    BY <1>1, <1>2, ConcatProperties
<1>5. QED
    BY <1>1, <1>2, <1>3, <1>4

\* When the count read by Gate's Drop is at most two, the map's reference and
\* the caller's are the only ones: no other call has its Gate for this URL.
\* (The count may be larger than the number of Gates, never smaller.)
LEMMA LastHolder ==
    ASSUME TypeOK, GateAgreement, NEW c \in Calls,
           pc[c] = "release", url[c] \in Urls,
           StrongCount(gate[c]) <= 2
    PROVE  Holders(url[c]) = {c}
<1> DEFINE l == gate[c]
           Maps == {u \in Urls : inFlight[u] = l}
           Refs == {d \in Calls : gate[d] = l}
<1>1. c \in Holders(url[c]) /\ inFlight[url[c]] = l
    BY DEF Holders, GateAgreement
<1>2. IsFiniteSet(Maps) /\ IsFiniteSet(Refs)
    BY FxCacheAssumption, FS_Subset
<1>3. Cardinality(Maps) >= 1
    <2>1. Maps # {} /\ Cardinality(Maps) \in Nat
        BY <1>1, <1>2, FS_CardinalityType
    <2>2. QED
        BY <2>1, <1>2, FS_EmptySet
<1>4. ASSUME NEW d \in Holders(url[c]), d # c PROVE FALSE
    <2>1. gate[d] = l
        BY <1>1, <1>4 DEF GateAgreement
    <2>2. {c, d} \subseteq Refs
        BY <2>1 DEF Holders
    <2>3. Cardinality({c, d}) = 2
        <3>1. IsFiniteSet({d}) /\ Cardinality({d}) = 1
            BY FS_Singleton
        <3>2. Cardinality({d} \cup {c}) = 1 + 1
            BY <1>4, <3>1, FS_AddElement
        <3>3. {c, d} = {d} \cup {c}
            OBVIOUS
        <3>4. QED
            BY <3>2, <3>3
    <2>4. Cardinality(Refs) >= 2
        BY <1>2, <2>2, <2>3, FS_Subset, FS_CardinalityType
    <2>5. QED
        BY <1>2, <1>3, <2>4, FS_CardinalityType DEF StrongCount
<1>5. QED
    BY <1>1, <1>4

-----------------------------------------------------------------------------
(* Type correctness. *)

\* Every variable keeps its type; no entry is stamped later than now.
LEMMA TypeStep == TypeOK /\ CallsOK /\ [Next]_vars => TypeOK'
<1> SUFFICES ASSUME TypeOK, CallsOK, [Next]_vars PROVE TypeOK'
    OBVIOUS
<1> USE FxCacheAssumption DEF TypeOK, CallsOK, Goto, PC
<1>1. CASE Tick
    BY <1>1 DEF Tick
<1>2. ASSUME NEW c \in Calls, NEW u \in Urls, Call(c, u) PROVE TypeOK'
    BY <1>2 DEF Call
<1>3. ASSUME NEW c \in Calls, LookupHit(c) \/ LookupMiss(c) PROVE TypeOK'
    BY <1>3 DEF LookupHit, LookupMiss
<1>4. ASSUME NEW c \in Calls, Acquire(c) PROVE TypeOK'
    BY <1>4 DEF Acquire
<1>5. ASSUME NEW c \in Calls, Lock(c) PROVE TypeOK'
    <2> DEFINE l == gate[c]
    <2>1. l \in Locks /\ waiters[l] \in Seq(Calls)
        BY <1>5 DEF Lock
    <2>2. Append(waiters[l], c) \in Seq(Calls)
        BY <2>1
    <2>3. owner' \in [Locks -> Calls \cup {None}]
        BY <1>5, <2>1 DEF Lock
    <2>4. waiters' \in [Locks -> Seq(Calls)]
        BY <1>5, <2>1, <2>2 DEF Lock
    <2>5. QED
        BY <1>5, <2>3, <2>4 DEF Lock
<1>6. ASSUME NEW c \in Calls, RecheckHit(c) \/ RecheckMiss(c) PROVE TypeOK'
    BY <1>6 DEF RecheckHit, RecheckMiss
<1>7. ASSUME NEW c \in Calls, RespondOk(c) PROVE TypeOK'
    BY <1>7 DEF RespondOk, CachePut, Cached
<1>8. ASSUME NEW c \in Calls, RespondErr(c) \/ CancelHolding(c) PROVE TypeOK'
    BY <1>8 DEF RespondErr, CancelHolding
<1>9. ASSUME NEW c \in Calls, CancelWaiting(c) PROVE TypeOK'
    <2> DEFINE l == gate[c]
    <2>1. l \in Locks /\ waiters[l] \in Seq(Calls)
        BY <1>9 DEF CancelWaiting
    <2>a. DOMAIN waiters[l] = 1..Len(waiters[l])
        BY <2>1, LenProperties
    <2>2. PICK i \in 1..Len(waiters[l]) :
                waiters' = [waiters EXCEPT ![l] = RemoveAt(@, i)]
        BY <1>9, <2>a DEF CancelWaiting
    <2>3. RemoveAt(waiters[l], i) \in Seq(Calls)
        BY <2>1, RemoveAtElements
    <2>4. waiters' \in [Locks -> Seq(Calls)]
        BY <2>2, <2>3
    <2>5. QED
        BY <1>9, <2>4 DEF CancelWaiting
<1>10. ASSUME NEW c \in Calls, Unlock(c) PROVE TypeOK'
    <2> DEFINE l == gate[c]
    <2>1. l \in Locks /\ waiters[l] \in Seq(Calls)
        BY <1>10 DEF Unlock
    <2>2. CASE waiters[l] = <<>>
        BY <1>10, <2>1, <2>2 DEF Unlock
    <2>3. CASE waiters[l] # <<>>
        <3>1. Head(waiters[l]) \in Calls /\ Tail(waiters[l]) \in Seq(Calls)
            BY <2>1, <2>3
        <3>2. owner' \in [Locks -> Calls \cup {None}]
            BY <1>10, <2>1, <2>3, <3>1 DEF Unlock
        <3>3. waiters' \in [Locks -> Seq(Calls)]
            BY <1>10, <2>1, <2>3, <3>1 DEF Unlock
        <3>4. QED
            BY <1>10, <3>2, <3>3 DEF Unlock
    <2>4. QED
        BY <2>2, <2>3
<1>11. ASSUME NEW c \in Calls, Release(c) PROVE TypeOK'
    BY <1>11 DEF Release
<1>12. ASSUME NEW c \in Calls, Unref(c) PROVE TypeOK'
    BY <1>12 DEF Unref
<1>13. CASE UNCHANGED vars
    BY <1>13 DEF vars
<1>14. QED
    BY <1>1, <1>2, <1>3, <1>4, <1>5, <1>6, <1>7, <1>8, <1>9, <1>10, <1>11,
       <1>12, <1>13 DEF Next, Step, Cancel

\* A running call keeps its URL, and its reference from acquire to unref.
LEMMA CallsStep == TypeOK /\ CallsOK /\ [Next]_vars => CallsOK'
<1> SUFFICES ASSUME TypeOK, CallsOK, [Next]_vars PROVE CallsOK'
    OBVIOUS
<1> USE FxCacheAssumption DEF TypeOK, CallsOK, Goto
<1>1. CASE Tick \/ UNCHANGED vars
    BY <1>1 DEF Tick, vars
<1>2. ASSUME NEW c \in Calls, NEW u \in Urls, Call(c, u) PROVE CallsOK'
    BY <1>2 DEF Call
<1>3. ASSUME NEW c \in Calls, Step(c) PROVE CallsOK'
    BY <1>3 DEF Step, LookupHit, LookupMiss, Acquire, Lock, Granted,
        RecheckHit, RecheckMiss, RespondOk, RespondErr, Unlock, Release, Unref
<1>4. ASSUME NEW c \in Calls, Cancel(c) PROVE CallsOK'
    BY <1>4 DEF Cancel, CancelWaiting, CancelHolding, Granted
<1>5. QED
    BY <1>1, <1>2, <1>3, <1>4 DEF Next

-----------------------------------------------------------------------------
(* The gate invariant. *)

\* Steps that move no reference, owner or queue, and neither take a call to
\* where it must own a mutex nor take it away from a wait.
LEMMA QuietStep ==
    ASSUME GateInv, UNCHANGED <<inFlight, owner, waiters, gate>>,
           NEW c \in Calls, NEW from, NEW to,
           pc[c] = from, pc' = [pc EXCEPT ![c] = to],
           \A d \in Calls : d # c => url'[d] = url[d],
           \/ /\ from \in {"idle", "lookup"}
              /\ to \in {"idle", "lookup", "acquire"}
           \/ /\ from \in {"wait", "request"} /\ owner[gate[c]] = c
              /\ to \in {"request", "unlock"} /\ url'[c] = url[c]
    PROVE  (GateAgreement /\ MapInjective /\ Ownership /\ Queues /\ Queued)'
<1> USE DEF GateInv, TypeOK, CallsOK
<1>1. GateAgreement'
    BY DEF GateAgreement, Holders
<1>2. MapInjective'
    BY DEF MapInjective
<1>3. Ownership'
    BY DEF Ownership
<1>4. Queues'
    BY DEF Queues
<1>5. Queued'
    BY DEF Queued
<1>6. QED
    BY <1>1, <1>2, <1>3, <1>4, <1>5

\* The part of GateInv that is not about types.
GatePart == GateAgreement /\ MapInjective /\ Ownership /\ Queues /\ Queued

\* Taking a Gate, mapped or fresh, keeps the map and its holders in agreement.
LEMMA AcquireStep ==
    ASSUME GateInv, NEW c \in Calls, Acquire(c)
    PROVE  GatePart'
<1> USE DEF GateInv, TypeOK, CallsOK, Goto
<1>1. PICK l \in Locks :
        /\ \/ inFlight[url[c]] = l
           \/ inFlight[url[c]] = None /\ ~Allocated(l)
        /\ inFlight' = [inFlight EXCEPT ![url[c]] = l]
        /\ gate' = [gate EXCEPT ![c] = l]
    BY DEF Acquire
<1>2. /\ pc[c] = "acquire" /\ pc' = [pc EXCEPT ![c] = "lock"]
      /\ url[c] \in Urls
      /\ UNCHANGED <<owner, waiters, url>>
    BY DEF Acquire
<1>3. GateAgreement'
    BY <1>1, <1>2, FxCacheAssumption DEF GateAgreement, Holders
<1>4. MapInjective'
    BY <1>1, <1>2, FxCacheAssumption DEF MapInjective, Allocated
<1>5. Ownership'
    BY <1>1, <1>2 DEF Ownership
<1>6. Queues'
    BY <1>1, <1>2 DEF Queues
<1>7. Queued'
    BY <1>1, <1>2 DEF Queued
<1>8. QED
    BY <1>3, <1>4, <1>5, <1>6, <1>7 DEF GatePart

\* Locking a free mutex, or queueing on a held one, strands nobody.
LEMMA LockStep ==
    ASSUME GateInv, NEW c \in Calls, Lock(c)
    PROVE  GatePart'
<1> USE DEF GateInv, TypeOK, CallsOK, Goto
<1> DEFINE l == gate[c]
<1>1. /\ pc[c] = "lock" /\ pc' = [pc EXCEPT ![c] = "wait"]
      /\ l \in Locks /\ waiters[l] \in Seq(Calls)
      /\ UNCHANGED <<inFlight, url, gate>>
    BY DEF Lock
<1>2. GateAgreement' /\ MapInjective'
    BY <1>1 DEF GateAgreement, MapInjective, Holders
<1>3. CASE owner[l] = None
    <2>1. owner' = [owner EXCEPT ![l] = c] /\ waiters' = waiters
        BY <1>3 DEF Lock
    <2>2. Ownership'
        BY <1>1, <1>3, <2>1, FxCacheAssumption DEF Ownership
    <2>3. Queues'
        BY <1>1, <1>3, <2>1 DEF Queues
    <2>4. Queued'
        <3>1. ASSUME NEW d \in Calls, pc'[d] = "wait", owner'[gate'[d]] # d
              PROVE  d # c /\ pc[d] = "wait" /\ owner[gate[d]] # d
            BY <1>1, <1>3, <2>1, <3>1, FxCacheAssumption
        <3>2. QED
            BY <1>1, <2>1, <3>1 DEF Queued
    <2>5. QED
        BY <1>2, <2>2, <2>3, <2>4 DEF GatePart
<1>4. CASE owner[l] # None
    <2>1. /\ waiters' = [waiters EXCEPT ![l] = Append(waiters[l], c)]
          /\ owner' = owner
        BY <1>4 DEF Lock
    <2>2. /\ Len(Append(waiters[l], c)) = Len(waiters[l]) + 1
          /\ \A i \in 1..Len(waiters[l]) :
                Append(waiters[l], c)[i] = waiters[l][i]
          /\ Append(waiters[l], c)[Len(waiters[l]) + 1] = c
        BY <1>1, AppendProperties
    <2>3. Ownership'
        BY <1>1, <2>1 DEF Ownership
    <2>4. Queues'
        <3>1. \A m \in Locks : m # l => waiters'[m] = waiters[m]
            BY <1>1, <2>1
        <3>2. \A i \in 1..Len(waiters[l]) :
                waiters[l][i] # c /\ waiters'[l][i] = waiters[l][i]
            BY <1>1, <2>1, <2>2 DEF Queues
        <3>3. /\ waiters'[l][Len(waiters[l]) + 1] = c
              /\ Len(waiters'[l]) = Len(waiters[l]) + 1
              /\ Len(waiters[l]) \in Nat
            BY <1>1, <2>1, <2>2
        <3>4. owner[l] # c
            BY <1>1, FxCacheAssumption DEF Ownership
        <3>5. ASSUME NEW m \in Locks, NEW i \in 1..Len(waiters'[m])
              PROVE  /\ gate'[waiters'[m][i]] = m
                     /\ pc'[waiters'[m][i]] = "wait"
                     /\ waiters'[m][i] # owner'[m]
                     /\ owner'[m] # None
            <4>1. CASE m # l
                <5>1. waiters[m] \in Seq(Calls) /\ waiters[m][i] \in Calls
                    BY <3>1, <4>1
                <5>2. QED
                    BY <1>1, <2>1, <3>1, <4>1, <5>1 DEF Queues
            <4>2. CASE m = l /\ i = Len(waiters[l]) + 1
                BY <1>1, <1>4, <2>1, <3>3, <3>4, <4>2
            <4>3. CASE m = l /\ i \in 1..Len(waiters[l])
                <5>1. waiters[l][i] \in Calls
                    BY <1>1, <4>3
                <5>2. QED
                    BY <1>1, <2>1, <3>2, <4>3, <5>1 DEF Queues
            <4>4. QED
                BY <3>3, <3>5, <4>1, <4>2, <4>3
        <3>6. ASSUME NEW m \in Locks, NEW i \in 1..Len(waiters'[m]),
                     NEW j \in 1..Len(waiters'[m]),
                     waiters'[m][i] = waiters'[m][j]
              PROVE  i = j
            <4>1. CASE m # l
                BY <3>1, <3>6, <4>1 DEF Queues
            <4>2. CASE m = l
                BY <3>2, <3>3, <3>6, <4>2 DEF Queues
            <4>3. QED
                BY <4>1, <4>2
        <3>7. QED
            BY <3>5, <3>6 DEF Queues
    <2>5. Queued'
        BY <1>1, <1>4, <2>1, <2>2 DEF Queued
    <2>6. QED
        BY <1>2, <2>3, <2>4, <2>5 DEF GatePart
<1>5. QED
    BY <1>3, <1>4

\* Unlocking hands the mutex to the first call in its queue, or frees it.
LEMMA UnlockStep ==
    ASSUME GateInv, NEW c \in Calls, Unlock(c)
    PROVE  GatePart'
<1> USE DEF GateInv, TypeOK, CallsOK, Goto
<1> DEFINE l == gate[c]
<1>1. /\ pc[c] = "unlock" /\ pc' = [pc EXCEPT ![c] = "release"]
      /\ l \in Locks /\ waiters[l] \in Seq(Calls)
      /\ UNCHANGED <<inFlight, url, gate>>
    BY DEF Unlock
<1>2. GateAgreement' /\ MapInjective'
    BY <1>1 DEF GateAgreement, MapInjective, Holders
<1>3. owner[l] = c
    BY <1>1 DEF Ownership
<1>4. CASE waiters[l] = <<>>
    <2>1. owner' = [owner EXCEPT ![l] = None] /\ waiters' = waiters
        BY <1>4 DEF Unlock
    <2>2. Ownership'
        BY <1>1, <1>3, <2>1 DEF Ownership
    <2>3. Queues'
        BY <1>1, <1>4, <2>1 DEF Queues
    <2>4. Queued'
        BY <1>1, <1>3, <1>4, <2>1 DEF Queued
    <2>5. QED
        BY <1>2, <2>2, <2>3, <2>4 DEF GatePart
<1>5. CASE waiters[l] # <<>>
    <2>1. /\ owner' = [owner EXCEPT ![l] = Head(waiters[l])]
          /\ waiters' = [waiters EXCEPT ![l] = Tail(waiters[l])]
        BY <1>5 DEF Unlock
    <2>2. /\ Len(waiters[l]) >= 1 /\ Head(waiters[l]) = waiters[l][1]
          /\ Len(Tail(waiters[l])) = Len(waiters[l]) - 1
          /\ \A i \in 1..(Len(waiters[l]) - 1) :
                Tail(waiters[l])[i] = waiters[l][i + 1]
        BY <1>1, <1>5
    <2>3. waiters[l][1] \in Calls /\ waiters[l][1] # None
        BY <1>1, <2>2, FxCacheAssumption
    <2>4. Ownership'
        BY <1>1, <1>3, <2>1, <2>2, <2>3 DEF Ownership, Queues
    <2>5. Queues'
        BY <1>1, <1>3, <2>1, <2>2, <2>3 DEF Queues
    <2>6. Queued'
        <3>1. ASSUME NEW d \in Calls, pc'[d] = "wait", owner'[gate'[d]] # d
              PROVE  \E i \in 1..Len(waiters'[gate'[d]]) :
                        waiters'[gate'[d]][i] = d
            <4>1. /\ d # c /\ pc[d] = "wait" /\ gate[d] \in Locks
                  /\ gate'[d] = gate[d]
                BY <1>1, <3>1
            <4>2. owner[gate[d]] # d
                BY <1>3, <2>1, <3>1, <4>1
            <4>3. PICK i \in 1..Len(waiters[gate[d]]) : waiters[gate[d]][i] = d
                BY <4>1, <4>2 DEF Queued
            <4>4. CASE gate[d] # l
                BY <2>1, <4>1, <4>3, <4>4
            <4>5. CASE gate[d] = l
                <5>1. i # 1
                    BY <2>1, <2>2, <3>1, <4>1, <4>3, <4>5
                <5>2. i - 1 \in 1..(Len(waiters[l]) - 1)
                    BY <1>1, <4>3, <4>5, <5>1
                <5>3. Tail(waiters[l])[i - 1] = d
                    BY <2>2, <4>3, <4>5, <5>2
                <5>4. waiters'[gate'[d]] = Tail(waiters[l])
                    BY <1>1, <2>1, <4>1, <4>5
                <5>5. QED
                    BY <2>2, <5>2, <5>3, <5>4
            <4>6. QED
                BY <4>4, <4>5
        <3>2. QED
            BY <3>1 DEF Queued
    <2>7. QED
        BY <1>2, <2>4, <2>5, <2>6 DEF GatePart
<1>6. QED
    BY <1>4, <1>5

\* A dropped waiter leaves the queue, and passes on a mutex it was granted.
LEMMA CancelWaitingStep ==
    ASSUME GateInv, NEW c \in Calls, CancelWaiting(c)
    PROVE  GatePart'
<1> USE DEF GateInv, TypeOK, CallsOK, Goto
<1> DEFINE l == gate[c]
<1>1. /\ pc[c] = "wait" /\ pc' = [pc EXCEPT ![c] = "release"]
      /\ l \in Locks /\ waiters[l] \in Seq(Calls)
      /\ UNCHANGED <<inFlight, owner, url, gate>>
    BY DEF CancelWaiting
<1>2. DOMAIN waiters[l] = 1..Len(waiters[l])
    BY <1>1, LenProperties
<1>3. PICK i \in 1..Len(waiters[l]) :
        /\ waiters[l][i] = c
        /\ waiters' = [waiters EXCEPT ![l] = RemoveAt(waiters[l], i)]
    BY <1>2 DEF CancelWaiting
<1>4. /\ Len(RemoveAt(waiters[l], i)) = Len(waiters[l]) - 1
      /\ \A j \in 1..(Len(waiters[l]) - 1) : RemoveAt(waiters[l], i)[j] =
            IF j < i THEN waiters[l][j] ELSE waiters[l][j + 1]
    BY <1>1, <1>3, RemoveAtElements
<1>5. GateAgreement' /\ MapInjective'
    BY <1>1 DEF GateAgreement, MapInjective, Holders
<1>6. owner[l] # c
    BY <1>1, <1>3 DEF Queues
<1>7. Ownership'
    BY <1>1, <1>6 DEF Ownership
<1>a. /\ \A m \in Locks : m # l => waiters'[m] = waiters[m]
      /\ waiters'[l] = RemoveAt(waiters[l], i)
      /\ Len(waiters[l]) \in Nat
    BY <1>1, <1>3
\* An element left in a queue was in it before, at the same place or one on.
<1>b. ASSUME NEW m \in Locks, NEW j \in 1..Len(waiters'[m])
      PROVE  \E k \in 1..Len(waiters[m]) :
                /\ waiters'[m][j] = waiters[m][k]
                /\ k = IF m # l \/ j < i THEN j ELSE j + 1
    <2>1. CASE m # l
        BY <1>a, <2>1
    <2>2. CASE m = l
        BY <1>3, <1>4, <1>a, <2>2
    <2>3. QED
        BY <2>1, <2>2
<1>8. Queues'
    <2>1. ASSUME NEW m \in Locks, NEW j \in 1..Len(waiters'[m])
          PROVE  /\ gate'[waiters'[m][j]] = m
                 /\ pc'[waiters'[m][j]] = "wait"
                 /\ waiters'[m][j] # owner'[m]
                 /\ owner'[m] # None
        <3>1. PICK k \in 1..Len(waiters[m]) :
                /\ waiters'[m][j] = waiters[m][k]
                /\ k = IF m # l \/ j < i THEN j ELSE j + 1
            BY <1>b
        <3>2. waiters[m] \in Seq(Calls) /\ waiters[m][k] \in Calls
            OBVIOUS
        <3>3. waiters[m][k] # c
            <4>1. CASE m = l
                <5>1. k # i
                    BY <3>1, <4>1
                <5>2. QED
                    BY <1>3, <4>1, <5>1 DEF Queues
            <4>2. CASE m # l
                BY <4>2 DEF Queues
            <4>3. QED
                BY <4>1, <4>2
        <3>4. QED
            BY <1>1, <3>1, <3>2, <3>3 DEF Queues
    <2>2. ASSUME NEW m \in Locks, NEW j \in 1..Len(waiters'[m]),
                 NEW n \in 1..Len(waiters'[m]),
                 waiters'[m][j] = waiters'[m][n]
          PROVE  j = n
        <3>1. PICK k \in 1..Len(waiters[m]) :
                /\ waiters'[m][j] = waiters[m][k]
                /\ k = IF m # l \/ j < i THEN j ELSE j + 1
            BY <1>b
        <3>2. PICK h \in 1..Len(waiters[m]) :
                /\ waiters'[m][n] = waiters[m][h]
                /\ h = IF m # l \/ n < i THEN n ELSE n + 1
            BY <1>b
        <3>3. k = h
            <4>1. waiters[m][k] = waiters[m][h]
                BY <2>2, <3>1, <3>2
            <4>2. \A x, y \in 1..Len(waiters[m]) :
                    waiters[m][x] = waiters[m][y] => x = y
                BY DEF Queues
            <4>3. QED
                BY <4>1, <4>2
        <3>4. j \in Nat /\ n \in Nat
            BY <1>4, <1>a
        <3>5. QED
            BY <3>1, <3>2, <3>3, <3>4
    <2>3. QED
        BY <2>1, <2>2 DEF Queues
<1>9. Queued'
    <2>1. ASSUME NEW d \in Calls, pc'[d] = "wait", owner'[gate'[d]] # d
          PROVE  \E j \in 1..Len(waiters'[gate'[d]]) :
                    waiters'[gate'[d]][j] = d
        <3>1. /\ d # c /\ pc[d] = "wait" /\ gate[d] \in Locks
              /\ gate'[d] = gate[d] /\ owner[gate[d]] # d
            BY <1>1, <2>1
        <3>2. PICK k \in 1..Len(waiters[gate[d]]) : waiters[gate[d]][k] = d
            BY <3>1 DEF Queued
        <3>3. CASE gate[d] # l
            BY <1>a, <3>1, <3>2, <3>3
        <3>4. CASE gate[d] = l
            <4>1. k # i
                BY <1>3, <3>1, <3>2, <3>4
            <4>2. k \in Nat /\ i \in Nat
                BY <1>a, <3>4
            <4>3. CASE k < i
                <5>1. k \in 1..(Len(waiters[l]) - 1)
                    BY <1>3, <1>a, <3>2, <3>4, <4>2, <4>3
                <5>2. RemoveAt(waiters[l], i)[k] = d
                    BY <1>4, <3>2, <3>4, <4>3, <5>1
                <5>3. QED
                    BY <1>4, <1>a, <3>1, <3>4, <5>1, <5>2
            <4>4. CASE k > i
                <5>1. k - 1 \in 1..(Len(waiters[l]) - 1) /\ ~(k - 1 < i)
                    BY <1>a, <3>2, <3>4, <4>2, <4>4
                <5>2. RemoveAt(waiters[l], i)[k - 1] = d
                    BY <1>4, <3>2, <3>4, <4>2, <5>1
                <5>3. QED
                    BY <1>4, <1>a, <3>1, <3>4, <5>1, <5>2
            <4>5. QED
                BY <4>1, <4>2, <4>3, <4>4
        <3>5. QED
            BY <3>3, <3>4
    <2>2. QED
        BY <2>1 DEF Queued
<1>10. QED
    BY <1>5, <1>7, <1>8, <1>9 DEF GatePart

\* Gate::drop unmaps the URL only when no other call has a Gate for it.
LEMMA ReleaseStep ==
    ASSUME GateInv, NEW c \in Calls, Release(c)
    PROVE  GatePart'
<1> USE DEF GateInv, TypeOK, CallsOK, Goto
<1>1. /\ pc[c] = "release" /\ pc' = [pc EXCEPT ![c] = "unref"]
      /\ url[c] \in Urls
      /\ UNCHANGED <<owner, waiters, url, gate>>
    BY DEF Release
<1>2. GateAgreement'
    <2>1. CASE StrongCount(gate[c]) <= 2
        <3>1. Holders(url[c]) = {c}
            BY <1>1, <2>1, LastHolder
        <3>2. inFlight' = [inFlight EXCEPT ![url[c]] = None]
            BY <2>1 DEF Release
        <3>3. QED
            BY <1>1, <3>1, <3>2 DEF GateAgreement, Holders
    <2>2. CASE ~(StrongCount(gate[c]) <= 2)
        BY <1>1, <2>2 DEF GateAgreement, Holders, Release
    <2>3. QED
        BY <2>1, <2>2
<1>3. MapInjective'
    BY <1>1 DEF MapInjective, Release
<1>4. Ownership'
    BY <1>1 DEF Ownership
<1>5. Queues'
    BY <1>1 DEF Queues
<1>6. Queued'
    BY <1>1 DEF Queued
<1>7. QED
    BY <1>2, <1>3, <1>4, <1>5, <1>6 DEF GatePart

\* Dropping a reference frees no mutex that is held or waited for.
LEMMA UnrefStep ==
    ASSUME GateInv, NEW c \in Calls, Unref(c)
    PROVE  GatePart'
<1> USE DEF GateInv, TypeOK, CallsOK, Goto
<1>1. /\ pc[c] = "unref" /\ pc' = [pc EXCEPT ![c] = "idle"]
      /\ gate' = [gate EXCEPT ![c] = None]
      /\ url' = [url EXCEPT ![c] = None]
      /\ UNCHANGED <<inFlight, owner, waiters>>
    BY DEF Unref
<1>2. GateAgreement' /\ MapInjective'
    BY <1>1 DEF GateAgreement, MapInjective, Holders
<1>3. Ownership'
    BY <1>1 DEF Ownership
<1>4. Queues'
    BY <1>1 DEF Queues
<1>5. Queued'
    BY <1>1 DEF Queued
<1>6. QED
    BY <1>2, <1>3, <1>4, <1>5 DEF GatePart

\* Every step preserves the gates' inductive invariant.
LEMMA GateStep == GateInv /\ [Next]_vars => GateInv'
<1> SUFFICES ASSUME GateInv, [Next]_vars PROVE GateInv'
    OBVIOUS
<1>1. TypeOK' /\ CallsOK'
    BY TypeStep, CallsStep DEF GateInv
<1>2. GatePart'
    <2> USE DEF Goto, Granted
    <2>1. CASE Tick \/ UNCHANGED vars
        BY <2>1 DEF GateInv, GatePart, Tick, vars, GateAgreement, Holders,
            MapInjective, Ownership, Queues, Queued
    <2>2. ASSUME NEW c \in Calls, NEW u \in Urls, Call(c, u) PROVE GatePart'
        BY <2>2, QuietStep DEF Call, GatePart, GateInv, TypeOK
    <2>3. ASSUME NEW c \in Calls, LookupHit(c) \/ LookupMiss(c)
          PROVE  GatePart'
        BY <2>3, QuietStep DEF LookupHit, LookupMiss, GatePart, GateInv, TypeOK
    <2>4. ASSUME NEW c \in Calls, RecheckHit(c) \/ RecheckMiss(c)
          PROVE  GatePart'
        BY <2>4, QuietStep DEF RecheckHit, RecheckMiss, GatePart
    <2>5. ASSUME NEW c \in Calls,
                 RespondOk(c) \/ RespondErr(c) \/ CancelHolding(c)
          PROVE  GatePart'
        <3>1. owner[gate[c]] = c
            BY <2>5 DEF RespondOk, RespondErr, CancelHolding, GateInv,
                Ownership
        <3>2. QED
            BY <2>5, <3>1, QuietStep
                DEF RespondOk, RespondErr, CancelHolding, GatePart
    <2>6. QED
        BY <2>1, <2>2, <2>3, <2>4, <2>5, AcquireStep, LockStep, UnlockStep,
           CancelWaitingStep, ReleaseStep, UnrefStep DEF Next, Step, Cancel
<1>3. QED
    BY <1>1, <1>2 DEF GateInv, GatePart

\* No gate is taken at the start.
LEMMA GateInit == Init => GateInv
<1> USE FxCacheAssumption
<1>1. Init => TypeOK
    BY DEF Init, TypeOK, PC
<1>2. Init => CallsOK /\ GateAgreement /\ MapInjective
    BY DEF Init, CallsOK, GateAgreement, Holders, MapInjective
<1>3. Init => Ownership /\ Queues /\ Queued
    BY DEF Init, Ownership, Queues, Queued
<1>4. QED
    BY <1>1, <1>2, <1>3 DEF GateInv

\* Every variable of the cache and its gates keeps its type.
THEOREM TypeCorrect == Spec => []TypeOK
<1>1. Init => TypeOK /\ CallsOK
    BY GateInit DEF GateInv
<1>2. TypeOK /\ CallsOK /\ [Next]_vars => (TypeOK /\ CallsOK)'
    BY TypeStep, CallsStep
<1>3. QED
    BY <1>1, <1>2, PTL DEF Spec

\* Every reachable state satisfies the gates' inductive invariant.
LEMMA GateInvariance == Spec => []GateInv
BY GateInit, GateStep, PTL DEF Spec

\* Gate's Drop never unmaps, and Gate::acquire never replaces, the mutex of a
\* URL while a call still has its Gate.
THEOREM GatesAgree == Spec => []GateAgreement
<1>1. GateInv => GateAgreement
    BY DEF GateInv
<1>2. QED
    BY <1>1, GateInvariance, PTL

\* Two requests for one URL would hold the one mapped mutex both.
LEMMA GateInvImpliesSingleFlight == GateInv => SingleFlightPerUrl
<1> SUFFICES ASSUME GateInv, NEW c \in Calls, NEW d \in Calls,
                    pc[c] = "request", pc[d] = "request", url[c] = url[d]
             PROVE  c = d
    BY DEF SingleFlightPerUrl
<1>1. gate[c] = inFlight[url[c]] /\ gate[d] = inFlight[url[c]]
    BY DEF GateInv, GateAgreement, Holders, CallsOK
<1>2. owner[gate[c]] = c /\ owner[gate[d]] = d
    BY DEF GateInv, Ownership
<1>3. QED
    BY <1>1, <1>2

\* At most one request per URL is in flight, for any number of callers.
THEOREM SingleFlightHolds == Spec => []SingleFlightPerUrl
BY GateInvariance, GateInvImpliesSingleFlight, PTL

\* No caller is left waiting for a mutex that nobody will release.
THEOREM WaitersAreServed == Spec => []NoStrandedWaiter
<1>1. ASSUME GateInv PROVE NoStrandedWaiter
    <2> USE <1>1 DEF GateInv, TypeOK
    <2>1. ASSUME NEW c \in Calls, pc[c] = "wait", ~Granted(c)
          PROVE  /\ c \in Range(waiters[gate[c]])
                 /\ owner[gate[c]] \in Holders(url[c])
        <3> DEFINE l == gate[c]
        <3>1. l \in Locks /\ waiters[l] \in Seq(Calls) /\ owner[l] # c
            BY <2>1 DEF CallsOK, Granted
        <3>2. PICK i \in 1..Len(waiters[l]) : waiters[l][i] = c
            BY <2>1, <3>1 DEF Queued
        <3>3. DOMAIN waiters[l] = 1..Len(waiters[l])
            BY <3>1, LenProperties
        <3>4. c \in Range(waiters[l])
            BY <3>2, <3>3 DEF Range
        <3>5. owner[l] \in Calls
            BY <3>1, <3>2 DEF Queues
        <3>6. /\ gate[owner[l]] = l
              /\ pc[owner[l]] \in {"wait", "request", "unlock"}
            BY <3>1, <3>5, FxCacheAssumption DEF Ownership
        <3>7. url[owner[l]] \in Urls /\ url[c] \in Urls
            BY <2>1, <3>5, <3>6 DEF CallsOK
        <3>8. inFlight[url[owner[l]]] = l /\ inFlight[url[c]] = l
            BY <2>1, <3>5, <3>6, <3>7 DEF GateAgreement, Holders
        <3>9. url[owner[l]] = url[c]
            BY <3>1, <3>7, <3>8, FxCacheAssumption DEF MapInjective
        <3>10. QED
            BY <3>4, <3>5, <3>6, <3>9 DEF Holders
    <2>2. QED
        BY <2>1 DEF NoStrandedWaiter, Ownership
<1>2. QED
    BY <1>1, GateInvariance, PTL

-----------------------------------------------------------------------------
(* The cache. *)

\* CachePut stamps u and otherwise keeps or drops entries.
LEMMA PutElsewhere ==
    ASSUME NEW u \in Urls, NEW v \in Urls, u # v, CachePut(u)
    PROVE  cache'[v] = cache[v] \/ cache'[v] = None
BY DEF CachePut

\* A request starts only after a look at the cache that found nothing servable,
\* and nobody else fills the entry while the mutex is held.
LEMMA NoFetchStep ==
    GateInv /\ NoFetchWhileFresh /\ [Next]_vars => NoFetchWhileFresh'
<1> SUFFICES ASSUME GateInv, NoFetchWhileFresh, [Next]_vars,
                    NEW c \in Calls, pc'[c] = "request"
             PROVE  ~Fresh(url[c])'
    BY DEF NoFetchWhileFresh
<1> USE DEF GateInv, TypeOK, Goto
<1>1. ASSUME UNCHANGED <<clock, cache>>, pc[c] = "request", url'[c] = url[c]
      PROVE  ~Fresh(url[c])'
    BY <1>1 DEF NoFetchWhileFresh, Fresh, Cached
<1>2. CASE Tick
    <2>1. ~Fresh(url[c]) /\ url[c] \in Urls /\ url'[c] = url[c]
        BY <1>2 DEF Tick, NoFetchWhileFresh, CallsOK
    <2>2. clock' \in Nat /\ clock' >= clock /\ cache' = cache
        BY <1>2, FxCacheAssumption DEF Tick
    <2>3. QED
        BY <2>1, <2>2, FxCacheAssumption DEF Fresh, Cached, Ttl
<1>3. ASSUME NEW d \in Calls, RespondOk(d) PROVE ~Fresh(url[c])'
    <2>1. /\ pc[d] = "request" /\ pc[c] = "request" /\ c # d
          /\ UNCHANGED <<clock, url>>
        BY <1>3 DEF RespondOk
    <2>2. url[c] # url[d] /\ url[c] \in Urls /\ url[d] \in Urls
        BY <2>1, GateInvImpliesSingleFlight DEF SingleFlightPerUrl, CallsOK
    <2>3. cache'[url[c]] = cache[url[c]] \/ cache'[url[c]] = None
        BY <1>3, <2>2, PutElsewhere DEF RespondOk
    <2>4. ~Fresh(url[c])
        BY <2>1 DEF NoFetchWhileFresh
    <2>5. QED
        BY <2>1, <2>2, <2>3, <2>4, FxCacheAssumption DEF Fresh, Cached, Ttl
<1>4. ASSUME NEW d \in Calls, RecheckMiss(d) PROVE ~Fresh(url[c])'
    <2>1. CASE c = d
        BY <1>4, <2>1 DEF RecheckMiss, Fresh, Cached
    <2>2. CASE c # d
        BY <1>1, <1>4, <2>2 DEF RecheckMiss
    <2>3. QED
        BY <2>1, <2>2
<1>5. ASSUME NEW d \in Calls, NEW u \in Urls, Call(d, u)
      PROVE  ~Fresh(url[c])'
    BY <1>1, <1>5 DEF Call
<1>6. ASSUME NEW d \in Calls,
             \/ LookupHit(d) \/ LookupMiss(d) \/ Acquire(d) \/ Lock(d)
             \/ RecheckHit(d) \/ RespondErr(d) \/ Cancel(d)
      PROVE  ~Fresh(url[c])'
    BY <1>1, <1>6 DEF LookupHit, LookupMiss, Acquire, Lock, RecheckHit,
        RespondErr, Cancel, CancelWaiting, CancelHolding
<1>7. ASSUME NEW d \in Calls, Unlock(d) \/ Release(d) \/ Unref(d)
      PROVE  ~Fresh(url[c])'
    BY <1>1, <1>7 DEF Unlock, Release, Unref
<1>8. CASE UNCHANGED vars
    BY <1>1, <1>8 DEF vars
<1>9. QED
    BY <1>2, <1>3, <1>4, <1>5, <1>6, <1>7, <1>8 DEF Next, Step

\* No request is sent, or stays in flight, while the cache could serve its URL.
THEOREM NoFetchIsWasted == Spec => []NoFetchWhileFresh
<1>1. Init => NoFetchWhileFresh
    BY DEF Init, NoFetchWhileFresh
<1>2. QED
    BY <1>1, GateInit, GateStep, NoFetchStep, PTL DEF Spec

\* Steps other than an answer leave the cache alone.
LEMMA OnlyRespondOkPuts ==
    ASSUME [Next]_vars, ~UNCHANGED cache
    PROVE  \E c \in Calls : RespondOk(c)
BY DEF Next, vars, Step, Tick, Call, LookupHit, LookupMiss, Acquire, Lock,
    RecheckHit, RecheckMiss, RespondErr, Unlock, Release, Unref, Cancel,
    CancelWaiting, CancelHolding

\* insert_bounded leaves at most Capacity entries.
LEMMA PutBounded ==
    ASSUME TypeOK, CacheBounded, NEW u \in Urls, CachePut(u)
    PROVE  CacheBounded'
<1> DEFINE live == {v \in Cached : Fresh(v)}
<1>1. IsFiniteSet(Cached) /\ Cardinality(Cached) \in Nat
    BY FxCacheAssumption, FS_Subset, FS_CardinalityType DEF Cached
<1>2. PICK kept \in RoomFor(u) :
        cache' = [v \in Urls |-> IF v = u THEN clock
                                  ELSE IF v \in kept THEN cache[v] ELSE None]
    BY DEF CachePut
<1>3. \A S : S \subseteq Cached =>
        /\ IsFiniteSet(S) /\ Cardinality(S) \in Nat
        /\ Cardinality(S) <= Cardinality(Cached)
    BY <1>1, FS_Subset, FS_CardinalityType
<1>4. kept \subseteq Cached
    BY <1>2 DEF RoomFor
<1>5. Cached' \subseteq kept \cup {u}
    BY <1>2 DEF Cached
<1>6. Cardinality(kept \cup {u}) <= Capacity
    <2>1. ASSUME Cardinality(kept) < Capacity
          PROVE  Cardinality(kept \cup {u}) <= Capacity
        <3>1. Cardinality(kept \cup {u}) \in
                {Cardinality(kept), Cardinality(kept) + 1}
            BY <1>3, <1>4, FS_AddElement
        <3>2. QED
            BY <1>3, <1>4, <2>1, <3>1, FxCacheAssumption
    <2>2. CASE Cardinality(Cached) < Capacity \/ u \in Cached
        <3>1. kept = Cached
            BY <1>2, <2>2 DEF RoomFor
        <3>2. CASE u \in Cached
            <4>1. kept \cup {u} = Cached
                BY <3>1, <3>2
            <4>2. QED
                BY <4>1 DEF CacheBounded
        <3>3. QED
            BY <2>1, <2>2, <3>1, <3>2
    <2>3. CASE ~(Cardinality(Cached) < Capacity \/ u \in Cached)
        <3>1. CASE Cardinality(live) < Capacity
            BY <1>2, <2>1, <2>3, <3>1 DEF RoomFor
        <3>2. CASE ~(Cardinality(live) < Capacity)
            <4>1. PICK v \in live : kept = live \ {v}
                BY <1>2, <2>3, <3>2 DEF RoomFor
            <4>2. live \subseteq Cached /\ IsFiniteSet(live)
                BY <1>3
            <4>3. Cardinality(kept) = Cardinality(live) - 1
                BY <4>1, <4>2, FS_RemoveElement
            <4>4. Cardinality(kept) < Capacity
                BY <1>1, <1>3, <4>2, <4>3, FxCacheAssumption DEF CacheBounded
            <4>5. QED
                BY <2>1, <4>4
        <3>3. QED
            BY <3>1, <3>2
    <2>4. QED
        BY <2>2, <2>3
<1>7. IsFiniteSet(kept \cup {u})
    BY <1>3, <1>4, FS_AddElement
<1>8. Cardinality(Cached') <= Cardinality(kept \cup {u})
    BY <1>5, <1>7, FS_Subset
<1>9. Cardinality(Cached') \in Nat /\ Cardinality(kept \cup {u}) \in Nat
    BY <1>5, <1>7, FS_Subset, FS_CardinalityType
<1>10. QED
    BY <1>6, <1>8, <1>9, FxCacheAssumption DEF CacheBounded

\* The cache never exceeds its capacity, whatever the capacity is.
THEOREM CacheStaysBounded == Spec => []CacheBounded
<1>1. Init => CacheBounded
    <2>1. ASSUME Init PROVE Cached = {}
        BY <2>1 DEF Init, Cached
    <2>2. QED
        BY <2>1, FS_EmptySet, FxCacheAssumption DEF CacheBounded
<1>2. TypeOK /\ CacheBounded /\ CallsOK /\ [Next]_vars => CacheBounded'
    <2> SUFFICES ASSUME TypeOK, CacheBounded, CallsOK, [Next]_vars
                 PROVE  CacheBounded'
        OBVIOUS
    <2>1. ASSUME UNCHANGED cache PROVE CacheBounded'
        BY <2>1 DEF CacheBounded, Cached
    <2>2. ASSUME NEW c \in Calls, RespondOk(c) PROVE CacheBounded'
        BY <2>2, PutBounded DEF RespondOk, CallsOK
    <2>4. QED
        BY <2>1, <2>2, OnlyRespondOkPuts
<1>3. QED
    BY <1>1, <1>2, GateInvariance, PTL DEF Spec, GateInv

\* A servable entry is only ever evicted as the oldest of a cache full of
\* servable entries, and alone.
THEOREM EvictionIsLastResort == Spec => EvictsOnlyOldestFresh
<1> DEFINE Frugal ==
        \A u \in Urls : Fresh(u) /\ cache'[u] = None =>
            /\ \A v \in Cached : Fresh(v) => cache[u] <= cache[v]
            /\ \A v \in Cached \ {u} : Fresh(v) => cache'[v] # None
            /\ Cardinality({v \in Cached : Fresh(v)}) = Capacity
<1>1. ASSUME GateInv, CacheBounded, [Next]_vars PROVE [Frugal]_vars
    <2> SUFFICES ASSUME NEW u \in Urls, Fresh(u), cache'[u] = None
                 PROVE  /\ \A v \in Cached : Fresh(v) => cache[u] <= cache[v]
                        /\ \A v \in Cached \ {u} :
                                Fresh(v) => cache'[v] # None
                        /\ Cardinality({v \in Cached : Fresh(v)}) = Capacity
        OBVIOUS
    <2> DEFINE live == {v \in Cached : Fresh(v)}
    <2>1. u \in live /\ cache[u] # None
        BY DEF Fresh, Cached
    <2>2. PICK c \in Calls : RespondOk(c)
        BY <1>1, <2>1, OnlyRespondOkPuts
    <2>3. PICK kept \in RoomFor(url[c]) :
            cache' = [v \in Urls |-> IF v = url[c] THEN clock
                                     ELSE IF v \in kept THEN cache[v]
                                     ELSE None]
        BY <2>2 DEF RespondOk, CachePut
    <2>4. u \notin kept
        <3>1. clock # None
            BY <1>1, FxCacheAssumption DEF GateInv, TypeOK
        <3>2. QED
            BY <2>1, <2>3, <3>1
    <2>5. /\ ~(Cardinality(live) < Capacity)
          /\ \E v \in {v \in live : \A w \in live : cache[v] <= cache[w]} :
                kept = live \ {v}
        BY <2>1, <2>3, <2>4 DEF RoomFor
    <2>6. kept = live \ {u} /\ \A w \in live : cache[u] <= cache[w]
        BY <2>1, <2>4, <2>5
    <2>7. \A v \in live \ {u} : cache'[v] # None
        <3>1. clock # None
            BY <1>1, FxCacheAssumption DEF GateInv, TypeOK
        <3>2. QED
            BY <2>3, <2>6, <3>1 DEF Cached
    <2>8. Cardinality(live) = Capacity
        <3>1. IsFiniteSet(Cached) /\ live \subseteq Cached
            BY FxCacheAssumption, FS_Subset DEF Cached
        <3>2. /\ Cardinality(live) <= Cardinality(Cached)
              /\ Cardinality(live) \in Nat /\ Cardinality(Cached) \in Nat
            BY <3>1, FS_Subset, FS_CardinalityType
        <3>3. QED
            BY <1>1, <2>5, <3>2, FxCacheAssumption DEF CacheBounded
    <2>9. QED
        BY <2>6, <2>7, <2>8
<1>2. QED
    BY <1>1, GateInvariance, CacheStaysBounded, PTL
        DEF Spec, EvictsOnlyOldestFresh

-----------------------------------------------------------------------------
(* FxCache implements SingleFlight. *)

\* A call's view in SingleFlight is one of three phases.
LEMMA PhaseValues ==
    /\ \A label \in {"lookup", "acquire", "lock", "wait"} :
            Phase(label) = "pending"
    /\ Phase("request") = "fetching"
    /\ \A label \in {"idle", "unlock", "release", "unref"} :
            Phase(label) = "idle"
BY DEF Phase

\* What is servable depends on the cache and the clock only.
LEMMA FreshUnchanged ==
    ASSUME UNCHANGED <<clock, cache>> PROVE freshBar' = freshBar
BY DEF freshBar, Fresh, Cached

\* A granted call finds no request for its URL in flight.
LEMMA GrantedAlone ==
    ASSUME GateInv, NEW c \in Calls, Granted(c)
    PROVE  SF!Fetching(url[c]) = {}
<1> SUFFICES ASSUME NEW d \in Calls, phaseBar[d] = "fetching",
                    wantBar[d] = url[c]
             PROVE  FALSE
    BY DEF SF!Fetching
<1>1. pc[d] = "request" /\ url[d] = url[c]
    BY DEF phaseBar, wantBar, Phase
<1>2. gate[c] = inFlight[url[c]] /\ gate[d] = inFlight[url[c]]
    BY <1>1 DEF GateInv, GateAgreement, Holders, CallsOK, Granted
<1>3. owner[gate[c]] = c /\ owner[gate[d]] = d
    BY <1>1 DEF GateInv, Ownership, Granted
<1>4. QED
    BY <1>1, <1>2, <1>3 DEF Granted

\* A step that leaves the call's abstract phase, its key and the fresh set
\* as they are is a stuttering step of SingleFlight.
LEMMA HiddenStep ==
    ASSUME TypeOK, UNCHANGED <<clock, cache>>,
           NEW c \in Calls, NEW to,
           pc' = [pc EXCEPT ![c] = to],
           Phase(to) = Phase(pc[c]),
           \A d \in Calls : d # c => url'[d] = url[d],
           Phase(pc[c]) # "idle" => url'[c] = url[c]
    PROVE  UNCHANGED SF!vars
<1>1. phaseBar' = phaseBar /\ wantBar' = wantBar
    BY DEF TypeOK, phaseBar, wantBar
<1>2. QED
    BY <1>1, FreshUnchanged DEF SF!vars

\* Every step of the cache is a step of SingleFlight or hidden from it.
LEMMA SimulationStep ==
    ASSUME GateInv, [Next]_vars PROVE [SF!Next]_(SF!vars)
<1> USE PhaseValues DEF GateInv, Goto
<1>1. CASE Tick
    <2>1. phaseBar' = phaseBar /\ wantBar' = wantBar
        BY <1>1 DEF Tick, phaseBar, wantBar
    <2>2. freshBar' \subseteq freshBar
        BY <1>1, FxCacheAssumption DEF Tick, freshBar, Fresh, Cached, Ttl, TypeOK
    <2>3. QED
        BY <2>1, <2>2 DEF SF!Next, SF!Expire
<1>2. ASSUME NEW c \in Calls, NEW u \in Urls, Call(c, u)
      PROVE  SF!Begin(c, u)
    <2>1. /\ pc[c] = "idle" /\ pc' = [pc EXCEPT ![c] = "lookup"]
          /\ \A d \in Calls : d # c => url'[d] = url[d]
          /\ url'[c] = u /\ freshBar' = freshBar
        BY <1>2, FreshUnchanged DEF Call, TypeOK
    <2>2. /\ phaseBar' = [phaseBar EXCEPT ![c] = "pending"]
          /\ wantBar' = [wantBar EXCEPT ![c] = u]
          /\ phaseBar[c] = "idle"
        BY <2>1 DEF phaseBar, wantBar, TypeOK
    <2>3. QED
        BY <2>1, <2>2 DEF SF!Begin
<1>3. ASSUME NEW c \in Calls, LookupHit(c) \/ RecheckHit(c)
      PROVE  SF!Serve(c)
    <2>1. url[c] \in freshBar
        BY <1>3 DEF LookupHit, RecheckHit, freshBar, Fresh, Cached
    <2>2. freshBar' = freshBar /\ \A d \in Calls : d # c => url'[d] = url[d]
        BY <1>3, FreshUnchanged DEF LookupHit, RecheckHit, TypeOK
    <2>3. CASE LookupHit(c)
        <3>1. pc[c] = "lookup" /\ pc' = [pc EXCEPT ![c] = "idle"]
            BY <2>3 DEF LookupHit
        <3>2. /\ phaseBar' = [phaseBar EXCEPT ![c] = "idle"]
              /\ wantBar' = [wantBar EXCEPT ![c] = None]
              /\ phaseBar[c] = "pending" /\ wantBar[c] = url[c]
            BY <2>2, <3>1 DEF phaseBar, wantBar, TypeOK
        <3>3. QED
            BY <2>1, <2>2, <3>2 DEF SF!Serve, SF!Leave
    <2>4. CASE RecheckHit(c)
        <3>1. pc[c] = "wait" /\ pc' = [pc EXCEPT ![c] = "unlock"]
            BY <2>4 DEF RecheckHit, Granted
        <3>2. /\ phaseBar' = [phaseBar EXCEPT ![c] = "idle"]
              /\ wantBar' = [wantBar EXCEPT ![c] = None]
              /\ phaseBar[c] = "pending" /\ wantBar[c] = url[c]
            BY <2>2, <3>1 DEF phaseBar, wantBar, TypeOK
        <3>3. QED
            BY <2>1, <2>2, <3>2 DEF SF!Serve, SF!Leave
    <2>5. QED
        BY <1>3, <2>3, <2>4
<1>4. ASSUME NEW c \in Calls, RecheckMiss(c) PROVE SF!Fetch(c)
    <2>1. url[c] \notin freshBar
        BY <1>4 DEF RecheckMiss, freshBar
    <2>2. SF!Fetching(url[c]) = {}
        BY <1>4, GrantedAlone DEF RecheckMiss
    <2>3. /\ phaseBar[c] = "pending" /\ wantBar[c] = url[c]
          /\ phaseBar' = [phaseBar EXCEPT ![c] = "fetching"]
          /\ wantBar' = [wantBar EXCEPT ![c] = url[c]]
        <3>1. /\ pc[c] = "wait" /\ pc' = [pc EXCEPT ![c] = "request"]
              /\ url' = url
            BY <1>4 DEF RecheckMiss, Granted
        <3>2. QED
            BY <3>1 DEF phaseBar, wantBar, TypeOK
    <2>4. wantBar' = wantBar
        BY <2>3 DEF wantBar
    <2>5. QED
        BY <1>4, <2>1, <2>2, <2>3, <2>4, FreshUnchanged
            DEF RecheckMiss, SF!Fetch
<1>5. ASSUME NEW c \in Calls, RespondOk(c) PROVE SF!Store(c)
    <2>1. /\ phaseBar[c] = "fetching" /\ wantBar[c] = url[c]
          /\ phaseBar' = [phaseBar EXCEPT ![c] = "idle"]
          /\ wantBar' = [wantBar EXCEPT ![c] = None]
        <3>1. /\ pc[c] = "request" /\ pc' = [pc EXCEPT ![c] = "unlock"]
              /\ url' = url
            BY <1>5 DEF RespondOk
        <3>2. QED
            BY <3>1 DEF phaseBar, wantBar, TypeOK
    <2>2. url[c] \in Urls /\ clock \in Nat /\ clock' = clock
        BY <1>5, FxCacheAssumption DEF RespondOk, CallsOK, TypeOK
    <2>3. cache'[url[c]] = clock
        BY <1>5, <2>2 DEF RespondOk, CachePut
    <2>4. url[c] \in freshBar'
        BY <2>2, <2>3, FxCacheAssumption DEF freshBar, Fresh, Cached, Ttl
    <2>5. freshBar' \ {url[c]} \subseteq freshBar
        <3>1. ASSUME NEW v \in Urls, v # url[c], Fresh(v)'
              PROVE  Fresh(v)
            <4>1. cache'[v] = cache[v] \/ cache'[v] = None
                BY <1>5, <2>2, <3>1, PutElsewhere DEF RespondOk
            <4>2. QED
                BY <2>2, <3>1, <4>1 DEF Fresh, Cached, Ttl
        <3>2. QED
            BY <3>1 DEF freshBar
    <2>6. freshBar' = (freshBar' \ {url[c]}) \cup {wantBar[c]}
        BY <2>1, <2>4
    <2>7. QED
        BY <2>1, <2>5, <2>6 DEF SF!Store, SF!Leave
<1>6. ASSUME NEW c \in Calls, RespondErr(c) \/ Cancel(c)
      PROVE  SF!Abandon(c)
    BY <1>6, FreshUnchanged
        DEF RespondErr, Cancel, CancelWaiting, CancelHolding, Granted,
            SF!Abandon, SF!Leave, phaseBar, wantBar, TypeOK
<1>7. ASSUME NEW c \in Calls, LookupMiss(c) \/ Acquire(c) \/ Lock(c)
      PROVE  UNCHANGED SF!vars
    BY <1>7, HiddenStep DEF LookupMiss, Acquire, Lock
<1>8. ASSUME NEW c \in Calls, Unlock(c) \/ Release(c) \/ Unref(c)
      PROVE  UNCHANGED SF!vars
    BY <1>8, HiddenStep DEF Unlock, Release, Unref, TypeOK
<1>9. CASE UNCHANGED vars
    BY <1>9, FreshUnchanged DEF vars, SF!vars, phaseBar, wantBar
<1>10. QED
    BY <1>1, <1>2, <1>3, <1>4, <1>5, <1>6, <1>7, <1>8, <1>9
        DEF Next, Step, SF!Next

\* The cache with its gates implements the coalesced fetch: at most one fetch
\* per URL, never one while a copy is servable, whatever is cancelled or fails.
THEOREM Implements == Spec => Coalesced
<1>1. Init => SF!Init
    BY PhaseValues DEF Init, SF!Init, phaseBar, wantBar, freshBar, Fresh, Cached
<1>2. QED
    BY <1>1, SimulationStep, GateInvariance, PTL
        DEF Spec, Coalesced, SF!Spec

=============================================================================
