---------------------------- MODULE SingleFlight ----------------------------
(***************************************************************************)
(* What the FX rate cache promises its callers, with no gate, lock or      *)
(* reference count in sight: concurrent calls that want the same key share *)
(* one upstream fetch, and nothing is fetched while a usable copy is held. *)
(* FxCache implements this specification (see FxCache!Coalesced).          *)
(***************************************************************************)
CONSTANTS
    Calls,  \* the calls that may be running at the same time
    Keys,   \* what they ask for
    None    \* the key of a call that wants nothing

VARIABLES
    phase,  \* phase[c]: idle, pending (wants a key), fetching (asks upstream)
    want,   \* want[c]: the key the call is after, None when idle
    fresh   \* the keys whose cached copy may still be served

vars == <<phase, want, fresh>>

Fetching(k) == {c \in Calls : phase[c] = "fetching" /\ want[c] = k}

Init ==
    /\ phase = [c \in Calls |-> "idle"]
    /\ want = [c \in Calls |-> None]
    /\ fresh = {}

Begin(c, k) ==
    /\ phase[c] = "idle"
    /\ phase' = [phase EXCEPT ![c] = "pending"]
    /\ want' = [want EXCEPT ![c] = k]
    /\ UNCHANGED fresh

\* A fetch may start only when nobody else fetches that key and no copy of it
\* can be served.
Fetch(c) ==
    /\ phase[c] = "pending"
    /\ Fetching(want[c]) = {}
    /\ want[c] \notin fresh
    /\ phase' = [phase EXCEPT ![c] = "fetching"]
    /\ UNCHANGED <<want, fresh>>

Leave(c) ==
    /\ phase' = [phase EXCEPT ![c] = "idle"]
    /\ want' = [want EXCEPT ![c] = None]

\* A pending call is served from the held copy.
Serve(c) ==
    /\ phase[c] = "pending"
    /\ want[c] \in fresh
    /\ Leave(c)
    /\ UNCHANGED fresh

\* A fetch that succeeds makes its key fresh, possibly at the cost of others.
Store(c) ==
    /\ phase[c] = "fetching"
    /\ \E kept \in SUBSET fresh : fresh' = kept \cup {want[c]}
    /\ Leave(c)

\* A failed fetch, or a call cancelled while it waits or fetches, leaves
\* nothing behind.
Abandon(c) ==
    /\ phase[c] \in {"pending", "fetching"}
    /\ Leave(c)
    /\ UNCHANGED fresh

\* Copies only age.
Expire ==
    /\ fresh' \in SUBSET fresh
    /\ UNCHANGED <<phase, want>>

Next ==
    \/ Expire
    \/ \E c \in Calls :
        \/ \E k \in Keys : Begin(c, k)
        \/ Fetch(c)
        \/ Serve(c)
        \/ Store(c)
        \/ Abandon(c)

Spec == Init /\ [][Next]_vars
=============================================================================
