--------------------------- MODULE ScopedInjection ---------------------------
(***************************************************************************)
(* What lib/core/inject.js and the manager promise together, without the   *)
(* manager's operations: a proxy scoped to one process.  The process's two *)
(* channels, its environment and its fetch, are opened onto a fresh        *)
(* listening port in the order environment, fetch, are closed in the order *)
(* fetch, environment, and are given back exactly as they were found.      *)
(* ClashManager is shown to implement this specification.                  *)
(***************************************************************************)
CONSTANTS
    Ports,      \* loopback ports
    Ambient,    \* the proxy variables as found, no port
    Native      \* globalThis.fetch as found, no port

VARIABLES
    listening,  \* the ports the process listens on
    env,        \* where the proxy variables point
    fetch       \* where globalThis.fetch goes

vars == <<listening, env, fetch>>

TypeOK ==
    /\ listening \subseteq Ports
    /\ env \in Ports \cup {Ambient}
    /\ fetch \in Ports \cup {Native}

Init == listening = {} /\ env = Ambient /\ fetch = Native

\* A new port is opened and the environment, as found until now, points at it.
Inject(p) ==
    /\ env = Ambient /\ fetch = Native
    /\ p \notin listening
    /\ listening' = listening \cup {p} /\ env' = p
    /\ UNCHANGED fetch

\* fetch follows the environment, and only onto a live port.
Wrap ==
    /\ fetch = Native /\ env \in listening
    /\ fetch' = env
    /\ UNCHANGED <<listening, env>>

Unwrap ==
    /\ fetch # Native
    /\ fetch' = Native
    /\ UNCHANGED <<listening, env>>

\* The environment comes back after fetch has; its port may close with it.
Restore ==
    /\ env # Ambient /\ fetch = Native
    /\ env' = Ambient
    /\ listening' \in {listening, listening \ {env}}
    /\ UNCHANGED fetch

\* A port closes while fetch does not use it.
Close(p) ==
    /\ p \in listening /\ fetch # p
    /\ listening' = listening \ {p}
    /\ UNCHANGED <<env, fetch>>

Next ==
    \/ \E p \in Ports : Inject(p) \/ Close(p)
    \/ Wrap \/ Unwrap \/ Restore

Spec == Init /\ [][Next]_vars

\* An environment that points at a closed port does not stay that way.
RestoreDangling == env \notin listening /\ Restore

FairSpec == Spec /\ WF_vars(RestoreDangling)

\* fetch is never pointed at a port that is closed or that the environment
\* does not name.
FetchIsLive == fetch # Native => fetch = env /\ fetch \in listening

=============================================================================
