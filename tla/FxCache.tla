------------------------------- MODULE FxCache -------------------------------
(***************************************************************************)
(* The process-wide state of the fx_rate tool: CACHE (responses by request *)
(* URL), IN_FLIGHT (one tokio mutex per URL being fetched, shared through  *)
(* an Arc), and the calls that use them.  A call is a task: between two    *)
(* awaits, or two acquisitions of a std mutex, other tasks on other        *)
(* threads run.  Each action is one such stretch of `fetch`, `request`,    *)
(* `Gate::acquire` or the drop glue that runs when `fetch` returns or its  *)
(* future is dropped.                                                      *)
(*                                                                         *)
(* Definitions that begin with "Slip" in their comment are wrong on        *)
(* purpose: they take the place of the next definition in the mutation     *)
(* runs.                                                                   *)
(*                                                                         *)
(* The std mutexes guard critical sections that cannot panic, so they are  *)
(* never poisoned and the `let Ok(..) else` arms are not modelled.         *)
(***************************************************************************)
EXTENDS Naturals, Sequences, FiniteSets, SequencesExt

CONSTANTS
    Calls,        \* fx_rate calls that may run at the same time
    Urls,         \* request URLs (base URL, path and query)
    SettledUrls,  \* URLs whose dates are old enough never to change
    Locks,        \* addresses a gate's tokio mutex may be allocated at
    None,
    Capacity,     \* CACHE_CAPACITY
    FreshTtl,     \* FRESH_TTL, in clock ticks
    SettledTtl,   \* SETTLED_TTL, in clock ticks
    MaxClock      \* bound: the clock stops here

ASSUME FxCacheAssumption ==
    /\ SettledUrls \subseteq Urls
    /\ IsFiniteSet(Calls) /\ IsFiniteSet(Urls)
    /\ None \notin Calls /\ None \notin Urls /\ None \notin Locks
    /\ None \notin Nat
    /\ Capacity \in Nat \ {0}
    /\ FreshTtl \in Nat \ {0} /\ SettledTtl \in Nat \ {0}
    /\ MaxClock \in Nat

VARIABLES
    clock,     \* Instant::now()
    cache,     \* CACHE: cache[u] is the entry's `stored`, None for no entry
    inFlight,  \* IN_FLIGHT: inFlight[u] is the gate mapped to u, or None
    owner,     \* owner[l]: the call that was granted the tokio mutex at l
    waiters,   \* waiters[l]: the mutex's FIFO of suspended lock() futures
    pc,        \* pc[c]: what the call does next
    url,       \* url[c]: the URL it built
    gate       \* gate[c]: the Arc in its Gate (a counted reference), or None

vars == <<clock, cache, inFlight, owner, waiters, pc, url, gate>>

PC == {"idle",     \* not running
       "lookup",   \* about to read the cache for the first time
       "acquire",  \* missed: about to take the URL's gate
       "lock",     \* holds a Gate: about to poll gate.lock.lock()
       "wait",     \* polled it: suspended, or granted and about to go on
       "request",  \* holds the mutex: upstream request in flight
       "unlock",   \* about to drop `_held`
       "release",  \* about to run Gate's Drop
       "unref"}    \* Drop returned: the Gate's Arc field is still alive

TypeOK ==
    /\ clock \in 0..MaxClock
    /\ cache \in [Urls -> (0..clock) \cup {None}]
    /\ inFlight \in [Urls -> Locks \cup {None}]
    /\ owner \in [Locks -> Calls \cup {None}]
    /\ waiters \in [Locks -> Seq(Calls)]
    /\ pc \in [Calls -> PC]
    /\ url \in [Calls -> Urls \cup {None}]
    /\ gate \in [Calls -> Locks \cup {None}]

Init ==
    /\ clock = 0
    /\ cache = [u \in Urls |-> None]
    /\ inFlight = [u \in Urls |-> None]
    /\ owner = [l \in Locks |-> None]
    /\ waiters = [l \in Locks |-> <<>>]
    /\ pc = [c \in Calls |-> "idle"]
    /\ url = [c \in Calls |-> None]
    /\ gate = [c \in Calls |-> None]

Goto(c, label) == pc' = [pc EXCEPT ![c] = label]

-----------------------------------------------------------------------------
(* The cache. *)

Ttl(u) == IF u \in SettledUrls THEN SettledTtl ELSE FreshTtl

Cached == {u \in Urls : cache[u] # None}

\* cache_get finds an entry younger than its ttl.
Fresh(u) == u \in Cached /\ clock - cache[u] < Ttl(u)

\* Slip: no sweep of expired entries, the oldest of all goes.
RoomForNoSweep(u) ==
    IF Cardinality(Cached) < Capacity \/ u \in Cached THEN {Cached}
    ELSE {Cached \ {v} : v \in {v \in Cached :
                                   \A w \in Cached : cache[v] <= cache[w]}}

\* The entries insert_bounded may leave in the cache before it inserts u: all
\* of them when there is room or u is replaced; otherwise the unexpired ones,
\* less the oldest (any of them, on a tie) when those alone fill the cache.
RoomFor(u) ==
    IF Cardinality(Cached) < Capacity \/ u \in Cached THEN {Cached}
    ELSE LET live == {v \in Cached : Fresh(v)} IN
         IF Cardinality(live) < Capacity THEN {live}
         ELSE {live \ {v} : v \in {v \in live :
                                     \A w \in live : cache[v] <= cache[w]}}

\* Slip: `stored` is set to a later instant.
CachePutAhead(u) ==
    cache' = [v \in Urls |-> IF v = u THEN clock + 1 ELSE cache[v]]

CachePut(u) ==
    \E kept \in RoomFor(u) :
        cache' = [v \in Urls |-> IF v = u THEN clock
                                 ELSE IF v \in kept THEN cache[v] ELSE None]

-----------------------------------------------------------------------------
(* The gate. *)

\* Arc::strong_count of the mutex at l: the map's references and the calls'.
StrongCount(l) ==
    Cardinality({u \in Urls : inFlight[u] = l})
        + Cardinality({c \in Calls : gate[c] = l})

Allocated(l) ==
    \/ \E u \in Urls : inFlight[u] = l
    \/ \E c \in Calls : gate[c] = l

\* Calls whose Gate has not been through Drop.
Holders(u) ==
    {c \in Calls : url[c] = u /\ pc[c] \in {"lock", "wait", "request",
                                            "unlock", "release"}}

-----------------------------------------------------------------------------
(* The steps of a call. *)

\* fx_rate: the arguments were valid and made the URL u.
Call(c, u) ==
    /\ pc[c] = "idle"
    /\ Goto(c, "lookup")
    /\ url' = [url EXCEPT ![c] = u]
    /\ UNCHANGED <<clock, cache, inFlight, owner, waiters, gate>>

LookupHit(c) ==
    /\ pc[c] = "lookup"
    /\ Fresh(url[c])
    /\ Goto(c, "idle")
    /\ url' = [url EXCEPT ![c] = None]
    /\ UNCHANGED <<clock, cache, inFlight, owner, waiters, gate>>

LookupMiss(c) ==
    /\ pc[c] = "lookup"
    /\ ~Fresh(url[c])
    /\ Goto(c, "acquire")
    /\ UNCHANGED <<clock, cache, inFlight, owner, waiters, url, gate>>

\* Slip: insert a new mutex instead of reusing the mapped one.
AcquireNew(c) ==
    /\ pc[c] = "acquire"
    /\ \E l \in Locks :
        /\ ~Allocated(l)
        /\ inFlight' = [inFlight EXCEPT ![url[c]] = l]
        /\ gate' = [gate EXCEPT ![c] = l]
    /\ Goto(c, "lock")
    /\ UNCHANGED <<clock, cache, owner, waiters, url>>

\* Gate::acquire, under the IN_FLIGHT lock: clone the mapped Arc, or map a new
\* one first.  The mutex lives at an address nothing refers to.
Acquire(c) ==
    /\ pc[c] = "acquire"
    /\ \E l \in Locks :
        /\ \/ inFlight[url[c]] = l
           \/ inFlight[url[c]] = None /\ ~Allocated(l)
        /\ inFlight' = [inFlight EXCEPT ![url[c]] = l]
        /\ gate' = [gate EXCEPT ![c] = l]
    /\ Goto(c, "lock")
    /\ UNCHANGED <<clock, cache, owner, waiters, url>>

\* The first poll of gate.lock.lock(): take the mutex, or queue behind it.
Lock(c) ==
    /\ pc[c] = "lock"
    /\ IF owner[gate[c]] = None
       THEN /\ owner' = [owner EXCEPT ![gate[c]] = c]
            /\ UNCHANGED waiters
       ELSE /\ waiters' = [waiters EXCEPT ![gate[c]] = Append(@, c)]
            /\ UNCHANGED owner
    /\ Goto(c, "wait")
    /\ UNCHANGED <<clock, cache, inFlight, url, gate>>

Granted(c) == pc[c] = "wait" /\ owner[gate[c]] = c

\* The holder looks again: the previous one may have filled the cache.
RecheckHit(c) ==
    /\ Granted(c)
    /\ Fresh(url[c])
    /\ Goto(c, "unlock")
    /\ UNCHANGED <<clock, cache, inFlight, owner, waiters, url, gate>>

\* Slip: no second cache_get once the mutex is held.
RecheckMissBlind(c) ==
    /\ Granted(c)
    /\ Goto(c, "request")
    /\ UNCHANGED <<clock, cache, inFlight, owner, waiters, url, gate>>

RecheckMiss(c) ==
    /\ Granted(c)
    /\ ~Fresh(url[c])
    /\ Goto(c, "request")
    /\ UNCHANGED <<clock, cache, inFlight, owner, waiters, url, gate>>

\* request: a successful body is cached before the mutex is released.
RespondOk(c) ==
    /\ pc[c] = "request"
    /\ CachePut(url[c])
    /\ Goto(c, "unlock")
    /\ UNCHANGED <<clock, inFlight, owner, waiters, url, gate>>

\* Transport error, 10 s timeout, error status or unparsable body: `?` returns
\* and nothing is cached.
RespondErr(c) ==
    /\ pc[c] = "request"
    /\ Goto(c, "unlock")
    /\ UNCHANGED <<clock, cache, inFlight, owner, waiters, url, gate>>

\* Slip: a cancelled future stays linked in the queue.
CancelWaitingLinked(c) ==
    /\ pc[c] = "wait"
    /\ ~Granted(c)
    /\ Goto(c, "release")
    /\ UNCHANGED <<clock, cache, inFlight, owner, waiters, url, gate>>

\* The future is dropped at one of its awaits.  A lock() future that was never
\* granted unlinks itself from the queue; otherwise the mutex is held, and is
\* released like on a return.
CancelWaiting(c) ==
    /\ pc[c] = "wait"
    /\ \E i \in DOMAIN waiters[gate[c]] :
        /\ waiters[gate[c]][i] = c
        /\ waiters' = [waiters EXCEPT ![gate[c]] = RemoveAt(@, i)]
    /\ Goto(c, "release")
    /\ UNCHANGED <<clock, cache, inFlight, owner, url, gate>>

CancelHolding(c) ==
    /\ Granted(c) \/ pc[c] = "request"
    /\ Goto(c, "unlock")
    /\ UNCHANGED <<clock, cache, inFlight, owner, waiters, url, gate>>

\* Slip: the mutex is marked free and nobody is woken.
UnlockNoHandOver(c) ==
    /\ pc[c] = "unlock"
    /\ owner' = [owner EXCEPT ![gate[c]] = None]
    /\ Goto(c, "release")
    /\ UNCHANGED <<clock, cache, inFlight, waiters, url, gate>>

\* Drop of `_held`: tokio hands the mutex to the longest waiting future.
Unlock(c) ==
    /\ pc[c] = "unlock"
    /\ LET l == gate[c] IN
       IF waiters[l] = <<>>
       THEN /\ owner' = [owner EXCEPT ![l] = None]
            /\ UNCHANGED waiters
       ELSE /\ owner' = [owner EXCEPT ![l] = Head(waiters[l])]
            /\ waiters' = [waiters EXCEPT ![l] = Tail(@)]
    /\ Goto(c, "release")
    /\ UNCHANGED <<clock, cache, inFlight, url, gate>>

\* Slip: the threshold is off by one.
ReleaseOffByOne(c) ==
    /\ pc[c] = "release"
    /\ inFlight' = IF StrongCount(gate[c]) <= 3
                   THEN [inFlight EXCEPT ![url[c]] = None]
                   ELSE inFlight
    /\ Goto(c, "unref")
    /\ UNCHANGED <<clock, cache, owner, waiters, url, gate>>

\* Gate's Drop, under the IN_FLIGHT lock: unmap the URL when the count says
\* that only the map and this call are left.
Release(c) ==
    /\ pc[c] = "release"
    /\ inFlight' = IF StrongCount(gate[c]) <= 2
                   THEN [inFlight EXCEPT ![url[c]] = None]
                   ELSE inFlight
    /\ Goto(c, "unref")
    /\ UNCHANGED <<clock, cache, owner, waiters, url, gate>>

\* After Drop returned, with IN_FLIGHT unlocked, the Gate's fields are dropped:
\* only now does this call's reference go away.
Unref(c) ==
    /\ pc[c] = "unref"
    /\ gate' = [gate EXCEPT ![c] = None]
    /\ url' = [url EXCEPT ![c] = None]
    /\ Goto(c, "idle")
    /\ UNCHANGED <<clock, cache, inFlight, owner, waiters>>

Tick ==
    /\ clock < MaxClock
    /\ clock' = clock + 1
    /\ UNCHANGED <<cache, inFlight, owner, waiters, pc, url, gate>>

Cancel(c) == CancelWaiting(c) \/ CancelHolding(c)

Step(c) ==
    \/ LookupHit(c) \/ LookupMiss(c)
    \/ Acquire(c) \/ Lock(c)
    \/ RecheckHit(c) \/ RecheckMiss(c)
    \/ RespondOk(c) \/ RespondErr(c)
    \/ Unlock(c) \/ Release(c) \/ Unref(c)

Next ==
    \/ Tick
    \/ \E c \in Calls :
        \/ \E u \in Urls : Call(c, u)
        \/ Step(c)
        \/ Cancel(c)

Spec == Init /\ [][Next]_vars

\* The runtime polls a task that can go on, and the HTTP client gives up after
\* its timeout.  Nothing obliges a client to call, to cancel, or time to pass.
FairSpec == Spec /\ \A c \in Calls : WF_vars(Step(c))

-----------------------------------------------------------------------------
(* Properties. *)

\* "concurrent identical misses make a single upstream call" (IN_FLIGHT's
\* comment): at no time do two calls ask the rate source for the same URL,
\* although gates are created, shared and unmapped while others come and go.
SingleFlightPerUrl ==
    \A c, d \in Calls :
        pc[c] = "request" /\ pc[d] = "request" /\ url[c] = url[d] => c = d

\* Every call that still has its Gate has the one mapped to its URL: an entry
\* is never unmapped, or replaced by a second mutex, under a holder.
GateAgreement ==
    \A u \in Urls : \A c \in Holders(u) :
        gate[c] # None /\ gate[c] = inFlight[u]

\* While a call asks upstream, the cache holds nothing it could have served:
\* neither the lookup before the gate nor a neighbour's answer was missed.
NoFetchWhileFresh ==
    \A c \in Calls : pc[c] = "request" => ~Fresh(url[c])

\* A suspended call waits behind a call for the same URL that has the mutex
\* and will release it; a mutex nobody holds a Gate for is free, so an entry
\* left in the map cannot block a later call.  (tokio mutex hand-over in
\* `_held`'s drop, and unlinking on cancellation.)
NoStrandedWaiter ==
    /\ \A c \in Calls : pc[c] = "wait" /\ ~Granted(c) =>
        /\ c \in Range(waiters[gate[c]])
        /\ owner[gate[c]] \in Holders(url[c])
    /\ \A l \in Locks : owner[l] # None =>
        /\ gate[owner[l]] = l
        /\ pc[owner[l]] \in {"wait", "request", "unlock"}

\* insert_bounded: "it never exceeds CACHE_CAPACITY".
CacheBounded == Cardinality(Cached) <= Capacity

\* An entry that could still be served leaves the cache only because Capacity
\* entries, all still servable and none older, were in it, and then alone.
EvictsOnlyOldestFresh ==
    [][\A u \in Urls : Fresh(u) /\ cache'[u] = None =>
        /\ \A v \in Cached : Fresh(v) => cache[u] <= cache[v]
        /\ \A v \in Cached \ {u} : Fresh(v) => cache'[v] # None
        /\ Cardinality({v \in Cached : Fresh(v)}) = Capacity]_vars

\* Whatever the others do (fail, time out, get cancelled while queued or while
\* they hold the mutex), a call that started comes to an end.
EveryCallReturns == \A c \in Calls : pc[c] # "idle" ~> pc[c] = "idle"

\* The abstract view: a call wants its URL until it has an answer, and fetches
\* while its request is in flight.
Phase(label) ==
    CASE label \in {"lookup", "acquire", "lock", "wait"} -> "pending"
      [] label = "request" -> "fetching"
      [] OTHER -> "idle"

phaseBar == [c \in Calls |-> Phase(pc[c])]
wantBar == [c \in Calls |-> IF Phase(pc[c]) = "idle" THEN None ELSE url[c]]
freshBar == {u \in Urls : Fresh(u)}

SF == INSTANCE SingleFlight
        WITH Keys <- Urls, phase <- phaseBar, want <- wantBar, fresh <- freshBar

\* The cache and its gates implement the coalesced fetch of SingleFlight.
Coalesced == SF!Spec

\* IN_FLIGHT's comment: "Entries are removed once no caller holds them, so the
\* map only ever holds in-flight URLs."  Violated: two calls can both run Drop
\* before either's Arc field is dropped, and each then counts the other.
MapHoldsOnlyInFlight ==
    \A u \in Urls : inFlight[u] # None =>
        \E c \in Calls : gate[c] = inFlight[u]

=============================================================================
